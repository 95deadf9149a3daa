------------------------------ MODULE UndoStack ------------------------------
(***************************************************************************)
(* What undo and redo promise a user of a board, whatever the operations   *)
(* do: undo takes back the latest operation that was not taken back, redo  *)
(* brings back the one taken back last, a new operation ends what can be   *)
(* brought back.  Only so much is remembered: with any step the oldest     *)
(* operations may be forgotten.                                            *)
(***************************************************************************)
EXTENDS Integers, Sequences, SequencesExt

CONSTANTS Users,
          Operations   (* positive numbers, newer operations have larger   *)

VARIABLES done,     (* of each user, what undo may take back, the next last *)
          undone    (* what redo may bring back, the next one first         *)

vars == <<done, undone>>

Init ==
    /\ done = [u \in Users |-> <<>>]
    /\ undone = [u \in Users |-> <<>>]

(* What can be brought back is newer than what can be taken back, so that  *)
(* it is forgotten last.                                                   *)
Becomes(u, d, r) == \E fromD \in 0..Len(d) :
    /\ done' = [done EXCEPT ![u] = SubSeq(d, fromD + 1, Len(d))]
    /\ \E fromR \in 0..Len(r) :
          /\ fromR > 0 => fromD = Len(d)
          /\ undone' = [undone EXCEPT ![u] = SubSeq(r, fromR + 1, Len(r))]

Do(u) == \E i \in ToSet(done'[u]) \cap Operations :
    /\ \A k \in ToSet(done[u]) \cup ToSet(undone[u]) : i > k
    /\ Becomes(u, Append(done[u], i), <<>>)

Undo(u) ==
    /\ done[u] # <<>>
    /\ Becomes(u, Front(done[u]), <<Last(done[u])>> \o undone[u])

Redo(u) ==
    /\ undone[u] # <<>>
    /\ Becomes(u, Append(done[u], Head(undone[u])), Tail(undone[u]))

(* What a user does else may make the oldest operations be forgotten.      *)
Forget(u) == Becomes(u, done[u], undone[u])

Next == \E u \in Users : Do(u) \/ Undo(u) \/ Redo(u) \/ Forget(u)

Spec == Init /\ [][Next]_vars
=============================================================================
