---------------------------- MODULE QuestionRows ----------------------------
(***************************************************************************)
(* A question of a PRD and its answer (PrdQuestion, PrdAnswer), and what   *)
(* each write makes of the row.  Every write carries the version the       *)
(* writer has seen and gives the row a new one.                            *)
(***************************************************************************)
EXTENDS Integers

CONSTANTS Texts,      (* what people write                                   *)
          Blank,      (* nothing, or nothing but spaces                      *)
          MaxVersion  (* bound: the last version of a row                    *)

ASSUME TextAssumption == Blank \notin Texts
ASSUME VersionAssumption == MaxVersion \in Nat \ {0}

Versions == 1..MaxVersion

(* "done" is is_completed, which the completion rate counts.               *)
QuestionRow(contents) ==
    [version : Versions, held : BOOLEAN, done : BOOLEAN, answer : contents]

NewQuestion == [version |-> 1, held |-> FALSE, done |-> FALSE, answer |-> Blank]

Changeable(row) == row.version < MaxVersion

AnsweredUnversioned(row, content) ==
    [row EXCEPT !.answer = content, !.done = content # Blank]
AnsweredWithText(row, content) ==
    [row EXCEPT !.version = @ + 1, !.answer = content, !.done = content]

(* The person saves an answer, possibly an empty one.                      *)
Answered(row, content) ==
    [row EXCEPT !.version = @ + 1, !.answer = content, !.done = content # Blank]

(* A hold that changes nothing leaves the version alone.                   *)
HeldAs(row, held) ==
    IF row.held = held THEN row
    ELSE [row EXCEPT !.version = @ + 1, !.held = held]

(* A draft of the AI is put in the place of the answer.  The row is not    *)
(* marked as done, unlike by a save or by the notes of the board.          *)
Drafted(row, content) == [row EXCEPT !.version = @ + 1, !.answer = content]

Integrated(row, content) ==
    [row EXCEPT !.version = @ + 1, !.answer = content, !.done = TRUE]

(* What every writer of an answer asks of the row it has locked.           *)
Writable(row, version) == row.version = version /\ ~row.held
=============================================================================
