--------------------------- MODULE MCBoardPolling ---------------------------
(* An instance of BoardPolling: a board that starts with all its notes,    *)
(* and three things happen to it, changes and notes given back together.   *)
(* No fair step changes the board, so that none leads out of the bound.    *)
EXTENDS BoardPolling

MCInit == PollingInit /\ \A n \in Notes : canvas.note[n] # Gone

MaxHappenings == 3
Happenings == Len(log) + FoldFunctionOnSet(LAMBDA a, b : a + b, 0, canvas.given, Notes)
Small == Happenings <= MaxHappenings

MCSpec == MCInit /\ [][PollingNext]_pollingVars /\ Fairness
=============================================================================
