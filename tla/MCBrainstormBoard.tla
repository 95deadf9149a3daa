-------------------------- MODULE MCBrainstormBoard --------------------------
(***************************************************************************)
(* An instance of BrainstormBoard.  A long log with every operation is out *)
(* of reach: there are two operations of any kind and one replay, or one   *)
(* operation undone and redone, and longer logs only where notes are       *)
(* edited and deleted and one entry is of another kind, so that users can  *)
(* undo several operations in a row, redo them and meet each other's       *)
(* changes, and the window closes on them.                                 *)
(***************************************************************************)
EXTENDS BrainstormBoard, TLC

Symmetry == Permutations(Users) \cup Permutations(Notes) \cup Permutations(Lines)

Plain(b) ==
    /\ \A n \in Notes : b.note[n].status = "default" /\ b.note[n].deleted # "expired"
    /\ \A l \in Lines : b.line[l] = NoLine

OnlyEdits(entries, action) ==
    LET edits == Markers \cup Others \cup {"node_content_updated", "node_deleted"}
        others == {i \in DOMAIN entries : entries[i].action \in Others}
    IN  /\ action \in edits /\ Plain(board)
        /\ \A i \in DOMAIN entries : entries[i].action \in edits /\ Plain(entries[i].before)
        /\ others # {} => action \notin Others /\ Len(entries) <= Window

MCRoom(entries, action) ==
    LET done == SelectSeq(entries, LAMBDA e : e.action \notin Markers) IN
    \/ Len(done) <= (IF action \in Markers THEN 2 ELSE 1) /\ Len(entries) < 3
    \/ OnlyEdits(entries, action)
=============================================================================
