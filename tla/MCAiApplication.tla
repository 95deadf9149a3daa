-------------------------- MODULE MCAiApplication --------------------------
(* Small instances of AiApplication.                                       *)
EXTENDS AiApplication, TLC, FiniteSetsExt

CONSTANT MaxChanges  (* bound: changes of questions and notes, in all        *)

MCSectionOf == [q \in Questions |-> CHOOSE s \in Sections : TRUE]
FewChanges ==
    /\ MapThenSumSet(LAMBDA q : question[q].version - 1, Questions)
       + MapThenSumSet(LAMBDA n : note[n].version - 1, Notes) <= MaxChanges

Symmetry == Permutations(Questions) \cup Permutations(Jobs) \cup Permutations(Clients)
=============================================================================
