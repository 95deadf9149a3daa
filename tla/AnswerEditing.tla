--------------------------- MODULE AnswerEditing ---------------------------
(***************************************************************************)
(* The write page (static/prds/js/write.js) and one question of the PRD.   *)
(* A page keeps what it was told of the question, the editor with the      *)
(* version it will send, and the text it has not saved.  Between a request *)
(* and its answer the person types on, the page draws itself anew, another *)
(* request may bring news, and everybody else changes the question too.    *)
(***************************************************************************)
EXTENDS QuestionRows

CONSTANT NoText  (* no unsaved text                                          *)

ASSUME NoTextAssumption == NoText \notin Texts \cup {Blank}

VARIABLES question,   (* the row on the server                               *)
          page,       (* what the page shows                                 *)
          call,       (* bound: one write under way                          *)
          load        (* and one reload of the whole PRD                     *)

vars == <<question, page, call, load>>
-----------------------------------------------------------------------------
Contents == Texts \cup {Blank}
Row == QuestionRow(Contents)
Nothing == [kind |-> "none"]
NoEditor == [open |-> FALSE, version |-> 1, saved |-> Blank, text |-> Blank]

(* "detail" is the question as last told, "editor" what is drawn of it,    *)
(* "pending" the unsaved text, "asked" the dialogue about a conflict.      *)
(* "read" is the answer the person has last been shown; "clean" says that  *)
(* the version in the editor came with that answer.                        *)
Page == [detail : Row,
         editor : [open : BOOLEAN, version : Versions, saved : Contents, text : Contents],
         pending : Contents \cup {NoText},
         asked : Contents \cup {NoText},
         read : Contents, clean : BOOLEAN]

(* "redrawn" and "renewed" say that the editor, or the detail, that the    *)
(* write started from has been replaced on the page since.                 *)
Call ==
    [kind : {"save"}, version : Versions, text : Contents, answer : {Nothing} \cup
        [kind : {"done", "conflict"}, row : Row] \cup {[kind |-> "refused"]},
     redrawn : BOOLEAN, renewed : BOOLEAN, read : Contents, clean : BOOLEAN] \cup
    [kind : {"hold"}, version : Versions, held : BOOLEAN, answer : {Nothing} \cup
        [kind : {"done", "conflict"}, row : Row],
     redrawn : BOOLEAN, renewed : BOOLEAN] \cup
    [kind : {"proposal"}, version : Versions, text : Contents, answer : {Nothing} \cup
        [kind : {"done"}, row : Row] \cup {[kind |-> "refused"]},
     redrawn : BOOLEAN, renewed : BOOLEAN] \cup
    [kind : {"look"}, after : {"save", "hold"}, latest : Row,
     local : Contents \cup {NoText},
     answer : {Nothing} \cup [kind : {"done"}, row : Row],
     redrawn : BOOLEAN, renewed : BOOLEAN]

TypeOK ==
    /\ question \in Row
    /\ page \in Page
    /\ call = Nothing \/ call \in Call
    /\ load \in {Nothing} \cup [kind : {"sent"}] \cup [kind : {"done"}, row : Row]

(* renderDetail: an editor is drawn unless the question is on hold; it     *)
(* shows the unsaved text, and takes the version of the fresh detail.      *)
Drawn(pg, row) ==
    IF row.held THEN [pg EXCEPT !.detail = row, !.editor = NoEditor]
    ELSE [pg EXCEPT
        !.detail = row,
        !.editor = [open |-> TRUE, version |-> row.version, saved |-> row.answer,
                    text |-> IF pg.pending = NoText THEN row.answer ELSE pg.pending],
        !.read = IF pg.pending = NoText THEN row.answer ELSE @,
        !.clean = pg.pending = NoText \/ (@ /\ row.answer = pg.read)]

(* What a write under way finds on the page when it comes back.            *)
Redrawn(c) == IF c = Nothing THEN c ELSE [c EXCEPT !.redrawn = TRUE]
Renewed(c) == IF c = Nothing THEN c ELSE [c EXCEPT !.redrawn = TRUE, !.renewed = TRUE]

Init ==
    /\ question = NewQuestion
    /\ page = Drawn(
         [detail |-> NewQuestion, editor |-> NoEditor, pending |-> NoText,
          asked |-> NoText, read |-> Blank, clean |-> TRUE], NewQuestion)
    /\ call = Nothing
    /\ load = Nothing
-----------------------------------------------------------------------------
(* Typing.  A text equal to the one the editor holds for saved is no       *)
(* unsaved text.  A dialogue covers the page.                              *)
Free == page.asked = NoText

Type(text) ==
    /\ Free /\ page.editor.open
    /\ page' = [page EXCEPT !.editor.text = text,
                        !.pending = IF text = page.editor.saved THEN NoText ELSE text]
    /\ UNCHANGED <<question, call, load>>

(* Another section is opened: the page is drawn from the same detail.      *)
Redraw ==
    /\ Free
    /\ page' = Drawn(page, page.detail)
    /\ call' = Redrawn(call)
    /\ UNCHANGED <<question, load>>

(* Something else on the page, a completion or a change of the title, has  *)
(* the whole PRD loaded again.                                             *)
SendLoad ==
    /\ Free /\ load = Nothing
    /\ load' = [kind |-> "sent"]
    /\ UNCHANGED <<question, page, call>>

ServeLoad ==
    /\ load.kind = "sent"
    /\ load' = [kind |-> "done", row |-> question]
    /\ UNCHANGED <<question, page, call>>

FinishLoad ==
    /\ load.kind = "done"
    /\ page' = Drawn(page, load.row)
    /\ load' = Nothing
    /\ call' = Renewed(call)
    /\ UNCHANGED question
-----------------------------------------------------------------------------
(* Writes: sent by a page, served under the locks of the PRD and of the    *)
(* question, answered.                                                     *)
Send(c) ==
    /\ Free /\ call = Nothing
    /\ call' = c
    /\ UNCHANGED <<question, page, load>>

SendSave ==
    /\ page.editor.open /\ page.pending # NoText
    /\ Send([kind |-> "save", version |-> page.editor.version,
                text |-> page.pending, answer |-> Nothing, redrawn |-> FALSE,
                renewed |-> FALSE, read |-> page.read, clean |-> page.clean])

(* Holding a question asks before unsaved text is given up.                *)
SendHold ==
    Send([kind |-> "hold", version |-> page.detail.version,
             held |-> ~page.detail.held, answer |-> Nothing,
             redrawn |-> FALSE, renewed |-> FALSE])

(* The person accepts what the coach proposed for the question as it is.   *)
SendProposal(text) ==
    /\ ~question.held
    /\ Send([kind |-> "proposal", version |-> question.version, text |-> text,
                answer |-> Nothing, redrawn |-> FALSE, renewed |-> FALSE])

Answer(reply) == call' = [call EXCEPT !.answer = reply]
Waits(kind) == call.kind = kind /\ call.answer = Nothing

ServeSaveUnchecked ==
    /\ Waits("save") /\ ~question.held /\ Changeable(question)
    /\ question' = Answered(question, call.text)
    /\ Answer([kind |-> "done", row |-> question'])
    /\ UNCHANGED <<page, load>>

ServeSave ==
    /\ Waits("save")
    /\ IF question.version # call.version
       THEN /\ Answer([kind |-> "conflict", row |-> question]) /\ UNCHANGED question
       ELSE IF question.held
       THEN /\ Answer([kind |-> "refused"]) /\ UNCHANGED question
       ELSE /\ Changeable(question)
            /\ question' = Answered(question, call.text)
            /\ Answer([kind |-> "done", row |-> question'])
    /\ UNCHANGED <<page, load>>

ServeHold ==
    /\ Waits("hold")
    /\ IF question.version # call.version
       THEN /\ Answer([kind |-> "conflict", row |-> question]) /\ UNCHANGED question
       ELSE /\ Changeable(question)
            /\ question' = HeldAs(question, call.held)
            /\ Answer([kind |-> "done", row |-> question'])
    /\ UNCHANGED <<page, load>>

ServeProposal ==
    /\ Waits("proposal")
    /\ IF Writable(question, call.version)
       THEN /\ Changeable(question)
            /\ question' = Drafted(question, call.text)
            /\ Answer([kind |-> "done", row |-> question'])
       ELSE /\ Answer([kind |-> "refused"]) /\ UNCHANGED question
    /\ UNCHANGED <<page, load>>

ServeLook ==
    /\ Waits("look")
    /\ Answer([kind |-> "done", row |-> question])
    /\ UNCHANGED <<question, page, load>>

(* A request or its answer is lost, or the server refuses it: the page     *)
(* only says so.                                                           *)
Fail ==
    /\ call # Nothing
    /\ call' = Nothing
    /\ UNCHANGED <<question, page, load>>
-----------------------------------------------------------------------------
Done(kind) == call.kind = kind /\ call.answer.kind = "done"
Ended == call' = Nothing

ToldVersion(detail, row) == [detail EXCEPT !.version = row.version]
Told(detail, row) ==
    [detail EXCEPT !.version = row.version, !.answer = row.answer, !.done = row.done]

(* The objects the write started from are brought up to date, whether or   *)
(* not they still are on the page, and no text is left to save, even if    *)
(* more has been typed.                                                    *)
Saved(pg, c) ==
    [pg EXCEPT
        !.detail = IF c.renewed THEN @ ELSE Told(@, c.answer.row),
        !.editor = IF c.redrawn THEN @ ELSE [@ EXCEPT !.version = c.answer.row.version,
                                                      !.saved = c.answer.row.answer],
        !.pending = NoText,
        !.read = IF c.redrawn THEN @ ELSE c.text,
        !.clean = ~c.redrawn \/ @]

FinishSave ==
    /\ Done("save")
    /\ page' = Saved(page, call)
    /\ Ended
    /\ UNCHANGED <<question, load>>

(* The page is drawn anew, from a detail that may have been replaced.      *)
FinishHold ==
    /\ Done("hold")
    /\ LET c == call
           kept == IF c.held THEN [page EXCEPT !.pending = NoText] ELSE page
       IN  page' = Drawn(kept, IF c.renewed THEN kept.detail ELSE c.answer.row)
    /\ Ended
    /\ UNCHANGED <<question, load>>

(* Editor and detail on the page take the text of the proposal; unsaved    *)
(* text stays unsaved, under it.                                           *)
Proposed(pg, c) ==
    [pg EXCEPT
        !.detail.version = c.answer.row.version, !.detail.answer = c.text,
        !.editor = IF @.open THEN [@ EXCEPT !.version = c.answer.row.version, !.text = c.text]
                   ELSE @,
        !.read = IF pg.editor.open THEN c.text ELSE @,
        !.clean = pg.editor.open \/ @]

FinishProposal ==
    /\ Done("proposal")
    /\ page' = Proposed(page, call)
    /\ Ended
    /\ UNCHANGED <<question, load>>

(* After a conflict the page loads the PRD again.  A hold gives up the     *)
(* unsaved text; a save keeps it, together with the answer it lost to.     *)
BeginLook ==
    /\ call.kind \in {"save", "hold"} /\ call.answer.kind = "conflict"
    /\ page' = [page EXCEPT !.pending = IF call.kind = "hold" THEN NoText ELSE @]
    /\ call' = [kind |-> "look", after |-> call.kind, latest |-> call.answer.row,
                local |-> page.pending, answer |-> Nothing,
                redrawn |-> FALSE, renewed |-> FALSE]
    /\ UNCHANGED <<question, load>>

(* The text of a question on hold can only be copied; else the person      *)
(* compares it with the answer it lost to and chooses.                     *)
FinishLook ==
    LET c == call
        compared == c.after = "save" /\ c.local # NoText
        seen == Drawn(page, c.answer.row)
    IN  /\ Done("look")
        /\ page' = CASE ~compared -> seen
                   [] compared /\ c.latest.held -> [seen EXCEPT !.pending = NoText]
                   [] compared /\ ~c.latest.held ->
                        [seen EXCEPT !.asked = c.local, !.read = c.latest.answer,
                                     !.clean = c.latest.answer = c.answer.row.answer]
        /\ Ended
        /\ UNCHANGED <<question, load>>

UseLatest ==
    /\ ~Free
    /\ LET free == [page EXCEPT !.asked = NoText, !.pending = NoText]
       IN  page' = Drawn(free, free.detail)
    /\ call' = Redrawn(call)
    /\ UNCHANGED <<question, load>>

KeepLocal ==
    /\ ~Free
    /\ LET local == page.asked
           free == [page EXCEPT !.asked = NoText]
       IN  page' = IF free.editor.open
                   THEN [free EXCEPT !.editor.text = local, !.pending = local] ELSE free
    /\ UNCHANGED <<question, call, load>>
-----------------------------------------------------------------------------
(* Other pages, the notes of the board and drafts of the whole PRD: the    *)
(* question changes only in these ways, and is only answered when not held.*)
ChangeElsewhere ==
    /\ Changeable(question)
    /\ \/ \E text \in Contents :
            /\ ~question.held
            /\ question' \in {Answered(question, text), Drafted(question, text),
                              Integrated(question, text)}
       \/ \E held \in BOOLEAN : question' = HeldAs(question, held)
    /\ UNCHANGED <<page, call, load>>

Next ==
    \/ ChangeElsewhere
    \/ \E text \in Contents : Type(text)
    \/ \E text \in Texts : SendProposal(text)
    \/ Redraw \/ SendLoad \/ ServeLoad \/ FinishLoad
    \/ SendSave \/ ServeSave \/ FinishSave
    \/ SendHold \/ ServeHold \/ FinishHold
    \/ ServeProposal \/ FinishProposal
    \/ BeginLook \/ ServeLook \/ FinishLook
    \/ UseLatest \/ KeepLocal \/ Fail

Spec == Init /\ [][Next]_vars
-----------------------------------------------------------------------------
(* Whatever order its requests come back in, a page that holds the current *)
(* version of the question holds its current answer.                       *)
DetailShowsAnswer ==
    page.detail.version = question.version => page.detail.answer = question.answer

SaveStored ==
    Waits("save") /\ call' # Nothing /\ call'.answer # Nothing /\ call'.answer.kind = "done"

(* A save replaces the answer that the person was shown, as long as the    *)
(* editor got its version together with that answer: while unsaved text    *)
(* was on the page, nothing but its own saves and proposals came between.  *)
CleanSavesReplaceWhatWasShown == [][
    SaveStored /\ call.clean => question.answer = call.read]_vars

(* The server does not overwrite silently (docs/report/                    *)
(* SEQUENCE_DIAGRAMS.md:82): a save replaces no answer but one the person  *)
(* was shown.  Not so: drawn again while it has unsaved text, an editor    *)
(* takes the new version and hides the new answer.                         *)
SavesReplaceWhatWasShown == [][
    SaveStored => question.answer = call.read]_vars
=============================================================================
