------------------------------ MODULE MCPeople ------------------------------
(***************************************************************************)
(* A small instance of People.  A PRD has a comment or a note: the two     *)
(* have nothing to do with each other.  With the note, roles change by     *)
(* removal and return only, and nobody is a viewer, who may do with it no  *)
(* more than a tutor.  Two requests are under way at a time, and one while *)
(* a note is about to be given back; with a comment nothing is.  A note    *)
(* that has reached its bound is not followed further.                     *)
(***************************************************************************)
EXTENDS People

Small ==
    /\ Cardinality({u \in Users : admitted[u] # "idle"})
         <= IF \E s \in Schedulers : scheduler[s].step = "read" THEN 1 ELSE 2
    /\ comments[1] # Nothing => \A s \in Schedulers : scheduler[s].step # "read"
    /\ note # Nothing =>
         /\ note.version < MaxNoteVersion
         /\ \A i \in 1..MaxComments : comments[i] = Nothing
         /\ \A u \in Users : IsMember(u) =>
              member[u].version = 1 /\ member[u].role # "viewer"
=============================================================================
