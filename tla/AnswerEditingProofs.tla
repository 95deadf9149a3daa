------------------------ MODULE AnswerEditingProofs ------------------------
(***************************************************************************)
(* What is proved of AnswerEditing for any texts and versions: its types,  *)
(* that a page with the current version of the question shows its current  *)
(* answer, and which saves replace only what the person was shown.         *)
(***************************************************************************)
EXTENDS AnswerEditing, TLAPS

(* A version with an answer somebody was told: it is past, or it is true.  *)
Known(version, answer) ==
    /\ version <= question.version
    /\ version = question.version => answer = question.answer

DetailIsKnown == Known(page.detail.version, page.detail.answer)

(* With clean, the version in the editor is that of the answer shown.      *)
EditorIsKnown ==
    page.clean /\ page.editor.open => Known(page.editor.version, page.read)

CallIsKnown ==
    /\ call.kind = "save" /\ call.clean => Known(call.version, call.read)
    /\ call # Nothing /\ call.answer.kind \in {"done", "conflict"} =>
         Known(call.answer.row.version, call.answer.row.answer)
    /\ call.kind \in {"save", "proposal"} /\ call.answer.kind = "done" =>
         call.answer.row.answer = call.text

LoadIsKnown == load.kind = "done" => Known(load.row.version, load.row.answer)

(* The inductive invariant.                                                *)
EditingInv == TypeOK /\ DetailIsKnown /\ EditorIsKnown /\ CallIsKnown /\ LoadIsKnown
-----------------------------------------------------------------------------
(* The types, kind by kind.                                                *)
Told1 == [kind : {"done"}, row : Row]
Told2 == [kind : {"done", "conflict"}, row : Row]
Refused == {[kind |-> "refused"]}

SaveCall ==
    [kind : {"save"}, version : Versions, text : Contents,
     answer : {Nothing} \cup Told2 \cup Refused,
     redrawn : BOOLEAN, renewed : BOOLEAN, read : Contents, clean : BOOLEAN]
HoldCall ==
    [kind : {"hold"}, version : Versions, held : BOOLEAN, answer : {Nothing} \cup Told2,
     redrawn : BOOLEAN, renewed : BOOLEAN]
ProposalCall ==
    [kind : {"proposal"}, version : Versions, text : Contents,
     answer : {Nothing} \cup Told1 \cup Refused, redrawn : BOOLEAN, renewed : BOOLEAN]
LookCall ==
    [kind : {"look"}, after : {"save", "hold"}, latest : Row,
     local : Contents \cup {NoText}, answer : {Nothing} \cup Told1,
     redrawn : BOOLEAN, renewed : BOOLEAN]

LEMMA CallKinds ==
    /\ Call = SaveCall \cup HoldCall \cup ProposalCall \cup LookCall
    /\ \A c \in SaveCall : c.kind = "save"
    /\ \A c \in HoldCall : c.kind = "hold"
    /\ \A c \in ProposalCall : c.kind = "proposal"
    /\ \A c \in LookCall : c.kind = "look"
    /\ Nothing.kind = "none"
  BY DEF Call, SaveCall, HoldCall, ProposalCall, LookCall, Told1, Told2, Refused, Nothing

LEMMA CallOfKind ==
  ASSUME TypeOK
  PROVE  /\ call.kind = "save" => call \in SaveCall
         /\ call.kind = "hold" => call \in HoldCall
         /\ call.kind = "proposal" => call \in ProposalCall
         /\ call.kind = "look" => call \in LookCall
         /\ call # Nothing => call.kind \in {"save", "hold", "proposal", "look"}
  BY CallKinds DEF TypeOK

LEMMA AnswerKinds ==
    /\ \A a \in Told1 : a.kind = "done" /\ a.row \in Row
    /\ \A a \in Told2 : a.kind \in {"done", "conflict"} /\ a.row \in Row
    /\ \A a \in Refused : a.kind = "refused"
  BY DEF Told1, Told2, Refused

LEMMA VersionsAreNat == ASSUME TypeOK PROVE
    /\ \A v \in Versions : v \in Nat
    /\ question \in Row /\ question.version \in Versions
    /\ page \in Page /\ page.detail \in Row /\ page.detail.version \in Versions
  BY DEF Versions, TypeOK, Page, Row, QuestionRow

(* Rows that are written.                                                  *)
LEMMA WrittenRows ==
  ASSUME NEW row \in Row, Changeable(row), NEW content \in Contents, NEW held \in BOOLEAN
  PROVE  /\ Answered(row, content) \in Row
         /\ Drafted(row, content) \in Row
         /\ Integrated(row, content) \in Row
         /\ HeldAs(row, held) \in Row
         /\ Answered(row, content).version = row.version + 1
         /\ Drafted(row, content).version = row.version + 1
         /\ Integrated(row, content).version = row.version + 1
         /\ HeldAs(row, held) = row \/ HeldAs(row, held).version = row.version + 1
         /\ Answered(row, content).answer = content
         /\ Drafted(row, content).answer = content
<1>1. row.version + 1 \in Versions
  BY VersionAssumption DEF Changeable, Row, QuestionRow, Versions
<1> QED
  BY <1>1 DEF Row, QuestionRow, Answered, Drafted, Integrated, HeldAs

(* Every write gives the question a new version.                           *)
Advanced == question' = question \/ question'.version = question.version + 1

KnownNext(version, answer) ==
    /\ version <= question'.version
    /\ version = question'.version => answer = question'.answer

LEMMA KnownStaysKnown ==
  ASSUME TypeOK, Advanced, NEW v \in Versions, NEW a, Known(v, a)
  PROVE  KnownNext(v, a)
<1>1. v \in Nat /\ question.version \in Nat
  BY VersionsAreNat
<1> QED
  BY <1>1 DEF Known, KnownNext, Advanced

LEMMA QuestionIsKnown == ASSUME TypeOK PROVE Known(question.version, question.answer)
<1>1. question.version \in Nat
  BY VersionsAreNat
<1> QED
  BY <1>1 DEF Known
-----------------------------------------------------------------------------
(* What survives a step.                                                   *)

LEMMA MarkedCall ==
  ASSUME TypeOK, call # Nothing, NEW c, c \in {Redrawn(call), Renewed(call)}
  PROVE  /\ c \in Call /\ c.kind = call.kind /\ c.answer = call.answer
         /\ call.kind = "save" => c.clean = call.clean /\ c.read = call.read /\ c.version = call.version
         /\ call.kind \in {"save", "proposal"} => c.text = call.text
<1>1. c \in {[call EXCEPT !.redrawn = TRUE], [call EXCEPT !.redrawn = TRUE, !.renewed = TRUE]}
  BY DEF Redrawn, Renewed
<1>2. CASE call.kind = "save"
  <2>1. call \in SaveCall
    BY <1>2, CallOfKind
  <2>2. c \in SaveCall /\ c.answer = call.answer /\ c.clean = call.clean /\ c.read = call.read
          /\ c.version = call.version /\ c.text = call.text /\ c.kind = call.kind
    BY <1>1, <2>1 DEF SaveCall
  <2> QED
    BY <1>2, <2>2, CallKinds
<1>3. CASE call.kind = "hold"
  <2>1. call \in HoldCall
    BY <1>3, CallOfKind
  <2>2. c \in HoldCall /\ c.answer = call.answer /\ c.kind = call.kind
    BY <1>1, <2>1 DEF HoldCall
  <2> QED
    BY <1>3, <2>2, CallKinds
<1>4. CASE call.kind = "proposal"
  <2>1. call \in ProposalCall
    BY <1>4, CallOfKind
  <2>2. c \in ProposalCall /\ c.answer = call.answer /\ c.text = call.text /\ c.kind = call.kind
    BY <1>1, <2>1 DEF ProposalCall
  <2> QED
    BY <1>4, <2>2, CallKinds
<1>5. CASE call.kind = "look"
  <2>1. call \in LookCall
    BY <1>5, CallOfKind
  <2>2. c \in LookCall /\ c.answer = call.answer /\ c.kind = call.kind
    BY <1>1, <2>1 DEF LookCall
  <2> QED
    BY <1>5, <2>2, CallKinds
<1> QED
  BY <1>2, <1>3, <1>4, <1>5, CallOfKind

(* The row of an answer.                                                   *)
LEMMA AnswerRow ==
  ASSUME TypeOK, call # Nothing, call.answer.kind \in {"done", "conflict"}
  PROVE  call.answer.row \in Row /\ call.answer.row.version \in Versions
<1>1. call.answer.row \in Row
  BY CallOfKind, CallKinds, AnswerKinds DEF SaveCall, HoldCall, ProposalCall, LookCall
<1> QED
  BY <1>1 DEF Row, QuestionRow

LEMMA CallSurvives ==
  ASSUME EditingInv, Advanced, call' \in {call, Nothing, Redrawn(call), Renewed(call)}
  PROVE  (call' = Nothing \/ call' \in Call) /\ CallIsKnown'
<1>1. TypeOK /\ CallIsKnown
  BY DEF EditingInv
<1>2. CASE call' = Nothing
  BY <1>2, CallKinds DEF CallIsKnown
<1>3. CASE call' # Nothing
  <2>1. call # Nothing
    BY <1>3 DEF Redrawn, Renewed
  <2>2. /\ call' \in Call /\ call'.kind = call.kind /\ call'.answer = call.answer
        /\ call.kind = "save" =>
             call'.clean = call.clean /\ call'.read = call.read /\ call'.version = call.version
        /\ call.kind \in {"save", "proposal"} => call'.text = call.text
    BY <1>1, <1>3, <2>1, MarkedCall DEF TypeOK
  <2>3. call.kind = "save" => call.version \in Versions
    BY <1>1, CallOfKind DEF SaveCall
  <2>4. call.answer.kind \in {"done", "conflict"} => call.answer.row.version \in Versions
    BY <1>1, <2>1, AnswerRow
  <2>5. call'.kind = "save" /\ call'.clean => KnownNext(call'.version, call'.read)
    BY <1>1, <2>2, <2>3, KnownStaysKnown DEF CallIsKnown
  <2>6. call'.answer.kind \in {"done", "conflict"} =>
          KnownNext(call'.answer.row.version, call'.answer.row.answer)
    BY <1>1, <2>1, <2>2, <2>4, KnownStaysKnown DEF CallIsKnown
  <2> QED
    BY <1>1, <2>2, <2>5, <2>6 DEF CallIsKnown, Known, KnownNext
<1> QED
  BY <1>2, <1>3

LEMMA LoadSurvives ==
  ASSUME EditingInv, Advanced, UNCHANGED load
  PROVE  LoadIsKnown'
<1>1. TypeOK /\ LoadIsKnown
  BY DEF EditingInv
<1>2. load.kind = "done" => load.row.version \in Versions
  BY <1>1 DEF TypeOK, Nothing, Row, QuestionRow
<1> QED
  BY <1>1, <1>2, KnownStaysKnown DEF LoadIsKnown, Known, KnownNext

(* A page of which all is known.                                           *)
PageOK(pg) ==
    /\ pg \in Page
    /\ Known(pg.detail.version, pg.detail.answer)
    /\ pg.clean /\ pg.editor.open => Known(pg.editor.version, pg.read)

LEMMA PageIsOK == EditingInv => PageOK(page)
  BY DEF EditingInv, TypeOK, DetailIsKnown, EditorIsKnown, PageOK

LEMMA PageSurvives ==
  ASSUME EditingInv, Advanced, UNCHANGED page
  PROVE  page' \in Page /\ DetailIsKnown' /\ EditorIsKnown'
<1>1. TypeOK /\ DetailIsKnown /\ EditorIsKnown /\ page \in Page
  BY DEF EditingInv, TypeOK
<1>2. page.detail.version \in Versions /\ page.editor.version \in Versions
  BY <1>1 DEF Page, Row, QuestionRow
<1>3. KnownNext(page.detail.version, page.detail.answer)
  BY <1>1, <1>2, KnownStaysKnown DEF DetailIsKnown
<1>4. page.clean /\ page.editor.open => KnownNext(page.editor.version, page.read)
  BY <1>1, <1>2, KnownStaysKnown DEF EditorIsKnown
<1> QED
  BY <1>1, <1>3, <1>4 DEF DetailIsKnown, EditorIsKnown, Known, KnownNext

(* A step of the page.                                                     *)
LEMMA PageStep ==
  ASSUME EditingInv, UNCHANGED question, PageOK(page'),
         call' \in {call, Nothing, Redrawn(call), Renewed(call)},
         load' \in {load, Nothing}
  PROVE  EditingInv'
<1>1. TypeOK /\ Advanced
  BY DEF EditingInv, Advanced
<1>2. (call' = Nothing \/ call' \in Call) /\ CallIsKnown'
  BY <1>1, CallSurvives
<1>3. LoadIsKnown'
  <2>1. CASE load' = load
    BY <1>1, <2>1, LoadSurvives
  <2>2. CASE load' = Nothing
    BY <2>2, CallKinds DEF LoadIsKnown
  <2> QED
    BY <2>1, <2>2
<1>4. DetailIsKnown' /\ EditorIsKnown' /\ page' \in Page
  BY DEF PageOK, DetailIsKnown, EditorIsKnown, Known
<1>5. TypeOK'
  BY <1>1, <1>2, <1>4 DEF TypeOK
<1> QED
  BY <1>2, <1>3, <1>4, <1>5 DEF EditingInv

(* A step of the server that writes the question: the page stays.          *)
LEMMA WriteStep ==
  ASSUME EditingInv, Advanced, question' \in Row, UNCHANGED page,
         call' = Nothing \/ call' \in Call, CallIsKnown',
         UNCHANGED load
  PROVE  EditingInv'
<1>1. page' \in Page /\ DetailIsKnown' /\ EditorIsKnown'
  BY PageSurvives
<1>2. LoadIsKnown'
  BY LoadSurvives
<1>3. TypeOK'
  BY <1>1 DEF EditingInv, TypeOK
<1> QED
  BY <1>1, <1>2, <1>3 DEF EditingInv
-----------------------------------------------------------------------------
(* Drawing, typing and loading.                                            *)

LEMMA NoEditorIsTyped ==
  /\ NoEditor \in [open : BOOLEAN, version : Versions, saved : Contents, text : Contents]
  /\ ~NoEditor.open
  BY VersionAssumption DEF NoEditor, Versions, Contents

(* Whatever was on the page, drawn from a known row it is known.           *)
LEMMA DrawnIsOK ==
  ASSUME NEW pg \in Page, NEW row \in Row, Known(row.version, row.answer)
  PROVE  /\ PageOK(Drawn(pg, row))
         /\ Drawn(pg, row).pending = pg.pending /\ Drawn(pg, row).asked = pg.asked
<1> DEFINE d == Drawn(pg, row)
<1>1. row.version \in Versions /\ row.answer \in Contents /\ row.held \in BOOLEAN
  BY DEF Row, QuestionRow
<1>2. CASE row.held
  <2>1. d = [pg EXCEPT !.detail = row, !.editor = NoEditor]
    BY <1>2 DEF Drawn
  <2> HIDE DEF d
  <2>2. d \in Page /\ d.detail = row /\ ~d.editor.open /\ d.pending = pg.pending /\ d.asked = pg.asked
    BY <2>1, NoEditorIsTyped DEF Page
  <2> QED
    BY <2>2 DEF PageOK, d
<1>3. CASE ~row.held
  <2> DEFINE e == [open |-> TRUE, version |-> row.version, saved |-> row.answer,
                   text |-> IF pg.pending = NoText THEN row.answer ELSE pg.pending]
             r == IF pg.pending = NoText THEN row.answer ELSE pg.read
             k == pg.pending = NoText \/ (pg.clean /\ row.answer = pg.read)
  <2>1. e \in [open : BOOLEAN, version : Versions, saved : Contents, text : Contents]
          /\ e.version = row.version
    BY <1>1 DEF Page
  <2>2. r \in Contents /\ k \in BOOLEAN /\ (k => r = row.answer)
    BY <1>1 DEF Page
  <2>3. d = [pg EXCEPT !.detail = row, !.editor = e, !.read = r, !.clean = k]
    BY <1>3 DEF Drawn, Page
  <2> HIDE DEF d, e, r, k
  <2>4. d \in Page /\ d.detail = row /\ d.editor = e /\ d.read = r /\ d.clean = k
          /\ d.pending = pg.pending /\ d.asked = pg.asked
    BY <2>1, <2>2, <2>3 DEF Page
  <2> QED
    BY <2>1, <2>2, <2>4 DEF PageOK, d
<1> QED
  BY <1>1, <1>2, <1>3

LEMMA InvariantAtFirst == Init => EditingInv
<1> SUFFICES ASSUME Init PROVE EditingInv
  OBVIOUS
<1>1. NewQuestion \in Row /\ question = NewQuestion
  BY VersionAssumption DEF Init, NewQuestion, Row, QuestionRow, Contents, Versions
<1>2. Known(NewQuestion.version, NewQuestion.answer)
  BY <1>1 DEF Known, NewQuestion
<1> DEFINE first == [detail |-> NewQuestion, editor |-> NoEditor, pending |-> NoText,
                     asked |-> NoText, read |-> Blank, clean |-> TRUE]
<1>3. first \in Page
  BY <1>1, NoEditorIsTyped DEF Page, Contents
<1>4. PageOK(page)
  BY <1>1, <1>2, <1>3, DrawnIsOK DEF Init
<1>5. CallIsKnown /\ LoadIsKnown
  BY CallKinds DEF Init, CallIsKnown, LoadIsKnown
<1>6. TypeOK
  BY <1>1, <1>4 DEF Init, TypeOK, PageOK
<1> QED
  BY <1>4, <1>5, <1>6 DEF EditingInv, PageOK, DetailIsKnown, EditorIsKnown

LEMMA TypeKeeps ==
  ASSUME EditingInv, NEW text \in Contents, Type(text)
  PROVE  EditingInv'
<1> DEFINE pending == IF text = page.editor.saved THEN NoText ELSE text
           e == [page.editor EXCEPT !.text = text]
<1>1. PageOK(page) /\ page \in Page
  BY PageIsOK DEF PageOK
<1>2. pending \in Contents \cup {NoText}
  OBVIOUS
<1>3. e \in [open : BOOLEAN, version : Versions, saved : Contents, text : Contents]
        /\ e.open = page.editor.open /\ e.version = page.editor.version
  BY <1>1 DEF Page
<1>4. page' = [page EXCEPT !.editor = e, !.pending = pending]
  BY <1>1 DEF Type, Page
<1> HIDE DEF pending, e
<1>5. page' \in Page /\ page'.detail = page.detail /\ page'.editor = e
        /\ page'.read = page.read /\ page'.clean = page.clean
  BY <1>1, <1>2, <1>3, <1>4 DEF Page
<1>6. PageOK(page')
  BY <1>1, <1>3, <1>5 DEF PageOK
<1> QED
  BY <1>6, PageStep DEF Type

LEMMA RedrawKeeps ==
  ASSUME EditingInv, Redraw
  PROVE  EditingInv'
<1>1. page \in Page /\ page.detail \in Row /\ Known(page.detail.version, page.detail.answer)
  BY VersionsAreNat DEF EditingInv, DetailIsKnown
<1>2. PageOK(page')
  BY <1>1, DrawnIsOK DEF Redraw
<1> QED
  BY <1>2, PageStep DEF Redraw

LEMMA LoadingKeeps ==
  ASSUME EditingInv, SendLoad \/ ServeLoad \/ FinishLoad
  PROVE  EditingInv'
<1>1. TypeOK /\ PageOK(page) /\ question \in Row /\ Known(question.version, question.answer)
  BY PageIsOK, QuestionIsKnown, VersionsAreNat DEF EditingInv
<1>2. CASE SendLoad \/ ServeLoad
  <2>1. UNCHANGED <<question, page, call>>
    BY <1>2 DEF SendLoad, ServeLoad
  <2>2. load' \in [kind : {"sent"}] \cup [kind : {"done"}, row : Row]
    BY <1>1, <1>2 DEF SendLoad, ServeLoad
  <2>3. LoadIsKnown'
    BY <1>1, <1>2, <2>1 DEF SendLoad, ServeLoad, LoadIsKnown, Known
  <2>4. TypeOK'
    BY <1>1, <2>1, <2>2 DEF TypeOK
  <2> QED
    BY <2>1, <2>3, <2>4 DEF EditingInv, DetailIsKnown, EditorIsKnown, CallIsKnown, Known
<1>3. CASE FinishLoad
  <2>1. load.row \in Row /\ Known(load.row.version, load.row.answer) /\ page \in Page
    BY <1>1, <1>3 DEF FinishLoad, EditingInv, LoadIsKnown, TypeOK, Nothing
  <2>2. PageOK(page')
    BY <1>3, <2>1, DrawnIsOK DEF FinishLoad
  <2> QED
    BY <1>3, <2>2, PageStep DEF FinishLoad
<1> QED
  BY <1>2, <1>3
-----------------------------------------------------------------------------
(* Requests.                                                               *)

(* A new request, or the answer to one.                                    *)
LEMMA CallStep ==
  ASSUME EditingInv, UNCHANGED <<question, page, load>>, call' \in Call, CallIsKnown'
  PROVE  EditingInv'
<1>1. Advanced
  BY DEF Advanced
<1>2. question' \in Row
  BY VersionsAreNat DEF EditingInv
<1> QED
  BY <1>1, <1>2, WriteStep

LEMMA SendSaveKeeps ==
  ASSUME EditingInv, SendSave
  PROVE  EditingInv'
<1> DEFINE c == [kind |-> "save", version |-> page.editor.version,
                 text |-> page.pending, answer |-> Nothing, redrawn |-> FALSE,
                 renewed |-> FALSE, read |-> page.read, clean |-> page.clean]
<1>1. PageOK(page) /\ page.editor.open /\ page.pending # NoText
  BY PageIsOK DEF SendSave
<1>2. page.editor.version \in Versions /\ page.pending \in Contents
        /\ page.read \in Contents /\ page.clean \in BOOLEAN
  BY <1>1 DEF PageOK, Page
<1>3. c \in SaveCall
  BY <1>2 DEF SaveCall
<1>4. call' = c /\ UNCHANGED <<question, page, load>>
  BY DEF SendSave, Send
<1>5. CallIsKnown'
  BY <1>1, <1>4, CallKinds DEF CallIsKnown, PageOK, Known
<1> QED
  BY <1>3, <1>4, <1>5, CallKinds, CallStep

LEMMA SendOthersKeep ==
  ASSUME EditingInv, SendHold \/ \E text \in Texts : SendProposal(text)
  PROVE  EditingInv'
<1>1. TypeOK
  BY DEF EditingInv
<1>2. call' \in HoldCall \cup ProposalCall /\ call'.answer = Nothing
        /\ UNCHANGED <<question, page, load>>
  <2>1. CASE SendHold
    <3> DEFINE held == ~page.detail.held
    <3>1. page.detail.version \in Versions /\ held \in BOOLEAN
      BY <1>1, VersionsAreNat
    <3>2. call' = [kind |-> "hold", version |-> page.detail.version, held |-> held,
                   answer |-> Nothing, redrawn |-> FALSE, renewed |-> FALSE]
            /\ UNCHANGED <<question, page, load>>
      BY <2>1 DEF SendHold, Send
    <3> HIDE DEF held
    <3>3. call' \in HoldCall
      BY <3>1, <3>2 DEF HoldCall
    <3> QED
      BY <3>2, <3>3
  <2>2. ASSUME NEW text \in Texts, SendProposal(text)
        PROVE  call' \in ProposalCall /\ call'.answer = Nothing /\ UNCHANGED <<question, page, load>>
    <3>1. question.version \in Versions /\ text \in Contents
      BY <1>1, VersionsAreNat DEF Contents
    <3> QED
      BY <2>2, <3>1 DEF SendProposal, Send, ProposalCall
  <2> QED
    BY <2>1, <2>2
<1>3. CallIsKnown'
  BY <1>2, CallKinds DEF CallIsKnown
<1> QED
  BY <1>2, <1>3, CallKinds, CallStep

(* The server answers.                                                     *)
LEMMA ServeSaveKeeps ==
  ASSUME EditingInv, ServeSave
  PROVE  EditingInv'
<1> DEFINE with(reply) == [call EXCEPT !.answer = reply]
<1>1. TypeOK /\ CallIsKnown /\ question \in Row /\ question.version \in Versions
        /\ Known(question.version, question.answer)
  BY VersionsAreNat, QuestionIsKnown DEF EditingInv
<1>2. call \in SaveCall /\ call.version \in Versions /\ call.text \in Contents
  BY <1>1, CallOfKind DEF ServeSave, Waits, SaveCall
<1>3. ASSUME NEW reply \in Told2 \cup Refused
      PROVE  /\ with(reply) \in SaveCall /\ with(reply).answer = reply
             /\ with(reply).version = call.version /\ with(reply).text = call.text
             /\ with(reply).read = call.read /\ with(reply).clean = call.clean
  BY <1>2 DEF SaveCall
<1>4. CASE UNCHANGED question
  <2>1. PICK reply \in Told2 \cup Refused : call' = with(reply)
           /\ (reply.kind = "conflict" => reply.row = question) /\ reply.kind # "done"
    <3>1. [kind |-> "conflict", row |-> question] \in Told2 /\ [kind |-> "refused"] \in Refused
      BY <1>1 DEF Told2, Refused
    <3>2. ~(question' = Answered(question, call.text) /\ Changeable(question))
      <4>1. Changeable(question) => Answered(question, call.text).version = question.version + 1
        BY <1>1, <1>2, WrittenRows
      <4> QED
        BY <1>1, <1>4, <4>1 DEF Versions
    <3> QED
      BY <3>1, <3>2 DEF ServeSave, Answer
  <2>2. call' \in SaveCall /\ call'.answer = reply /\ call'.version = call.version
          /\ call'.read = call.read /\ call'.clean = call.clean
    BY <1>3, <2>1
  <2>3. call'.kind = "save" /\ call.kind = "save"
    BY <1>2, <2>2, CallKinds
  <2>4. CallIsKnown'
    BY <1>1, <1>4, <2>1, <2>2, <2>3, AnswerKinds DEF CallIsKnown, Known
  <2> QED
    BY <1>4, <2>2, <2>4, CallKinds, CallStep DEF ServeSave
<1>5. CASE /\ Changeable(question) /\ question' = Answered(question, call.text)
           /\ Answer([kind |-> "done", row |-> question'])
  <2>1. question' \in Row /\ question'.version = question.version + 1
          /\ question'.answer = call.text /\ question'.version \in Versions
    BY <1>1, <1>2, <1>5, WrittenRows DEF Row, QuestionRow
  <2> DEFINE reply == [kind |-> "done", row |-> question']
  <2>2. reply \in Told2 /\ reply.kind = "done" /\ reply.row = question'
    BY <2>1 DEF Told2
  <2> HIDE DEF reply
  <2>3. call' = with(reply)
    BY <1>5 DEF Answer, reply
  <2>4. call' \in SaveCall /\ call'.answer = reply /\ call'.version = call.version
          /\ call'.text = call.text /\ call'.read = call.read /\ call'.clean = call.clean
    BY <1>3, <2>2, <2>3
  <2>5. Advanced /\ call'.kind = "save" /\ call.kind = "save"
    BY <1>2, <2>1, <2>4, CallKinds DEF Advanced
  <2>6. call.clean => KnownNext(call.version, call.read)
    BY <1>1, <1>2, <2>5, KnownStaysKnown DEF CallIsKnown
  <2>7. question'.version <= question'.version
    BY <2>1 DEF Versions
  <2>8. CallIsKnown'
    BY <2>1, <2>2, <2>4, <2>5, <2>6, <2>7 DEF CallIsKnown, Known, KnownNext
  <2> QED
    BY <2>1, <2>4, <2>5, <2>8, CallKinds, WriteStep DEF ServeSave
<1> QED
  BY <1>4, <1>5 DEF ServeSave

LEMMA ServeHoldKeeps ==
  ASSUME EditingInv, ServeHold
  PROVE  EditingInv'
<1> DEFINE with(reply) == [call EXCEPT !.answer = reply]
<1>1. TypeOK /\ question \in Row /\ question.version \in Versions
        /\ Known(question.version, question.answer)
  BY VersionsAreNat, QuestionIsKnown DEF EditingInv
<1>2. call \in HoldCall /\ call.held \in BOOLEAN
  BY <1>1, CallOfKind DEF ServeHold, Waits, HoldCall
<1>3. question' \in Row /\ Advanced
  <2>1. Changeable(question) => HeldAs(question, call.held) \in Row
          /\ (HeldAs(question, call.held) = question
              \/ HeldAs(question, call.held).version = question.version + 1)
    <3>1. Blank \in Contents
      BY DEF Contents
    <3> QED
      BY <1>1, <1>2, <3>1, WrittenRows
  <2> QED
    BY <1>1, <2>1 DEF ServeHold, Advanced
<1>4. PICK reply \in Told2 : call' = with(reply) /\ reply.row = question'
  <2>1. [kind |-> "conflict", row |-> question'] \in Told2
          /\ [kind |-> "done", row |-> question'] \in Told2
    BY <1>3 DEF Told2
  <2> QED
    BY <2>1 DEF ServeHold, Answer
<1>5. call' \in HoldCall /\ call'.answer = reply
  BY <1>2, <1>4 DEF HoldCall
<1>6. question'.version <= question'.version
  BY <1>3 DEF Row, QuestionRow, Versions
<1>7. CallIsKnown'
  BY <1>4, <1>5, <1>6, CallKinds DEF CallIsKnown, Known
<1> QED
  BY <1>3, <1>5, <1>7, CallKinds, WriteStep DEF ServeHold

LEMMA ServeProposalKeeps ==
  ASSUME EditingInv, ServeProposal
  PROVE  EditingInv'
<1> DEFINE with(reply) == [call EXCEPT !.answer = reply]
<1>1. TypeOK /\ question \in Row
  BY VersionsAreNat DEF EditingInv
<1>2. call \in ProposalCall /\ call.text \in Contents
  BY <1>1, CallOfKind DEF ServeProposal, Waits, ProposalCall
<1>3. CASE ~Writable(question, call.version)
  <2>1. call' = with([kind |-> "refused"]) /\ UNCHANGED question
    BY <1>3 DEF ServeProposal, Answer
  <2>2. [kind |-> "refused"] \in Refused
    BY DEF Refused
  <2>3. call' \in ProposalCall /\ call'.answer = [kind |-> "refused"]
    BY <1>2, <2>1, <2>2 DEF ProposalCall
  <2>4. CallIsKnown'
    BY <2>3, CallKinds DEF CallIsKnown
  <2> QED
    BY <2>1, <2>3, <2>4, CallKinds, CallStep DEF ServeProposal
<1>4. CASE Writable(question, call.version)
  <2>1. /\ Changeable(question) /\ question' = Drafted(question, call.text)
        /\ call' = with([kind |-> "done", row |-> question'])
    BY <1>4 DEF ServeProposal, Answer
  <2>2. question' \in Row /\ question'.version = question.version + 1
          /\ question'.answer = call.text
    BY <1>1, <1>2, <2>1, WrittenRows
  <2> DEFINE reply == [kind |-> "done", row |-> question']
  <2>3. reply \in Told1 /\ reply.kind = "done" /\ reply.row = question' /\ call' = with(reply)
    BY <2>1, <2>2 DEF Told1
  <2> HIDE DEF reply
  <2>4. call' \in ProposalCall /\ call'.answer = reply /\ call'.text = call.text
    BY <1>2, <2>3 DEF ProposalCall
  <2>5. question'.version <= question'.version
    BY <2>2 DEF Row, QuestionRow, Versions
  <2>6. CallIsKnown'
    BY <2>2, <2>3, <2>4, <2>5, CallKinds DEF CallIsKnown, Known
  <2> QED
    BY <2>2, <2>4, <2>6, CallKinds, WriteStep DEF ServeProposal, Advanced
<1> QED
  BY <1>3, <1>4

LEMMA ServeLookKeeps ==
  ASSUME EditingInv, ServeLook
  PROVE  EditingInv'
<1>1. TypeOK /\ question \in Row /\ Known(question.version, question.answer)
  BY VersionsAreNat, QuestionIsKnown DEF EditingInv
<1>2. call \in LookCall
  BY <1>1, CallOfKind DEF ServeLook, Waits
<1> DEFINE reply == [kind |-> "done", row |-> question]
<1>3. reply \in Told1 /\ reply.kind = "done" /\ reply.row = question
        /\ call' = [call EXCEPT !.answer = reply]
  BY <1>1 DEF ServeLook, Answer, Told1
<1> HIDE DEF reply
<1>4. call' \in LookCall /\ call'.answer = reply
  BY <1>2, <1>3 DEF LookCall
<1>5. CallIsKnown'
  BY <1>1, <1>3, <1>4, CallKinds DEF CallIsKnown, Known, ServeLook
<1> QED
  BY <1>4, <1>5, CallKinds, CallStep DEF ServeLook

LEMMA ChangeElsewhereKeeps ==
  ASSUME EditingInv, ChangeElsewhere
  PROVE  EditingInv'
<1>1. TypeOK /\ question \in Row
  BY VersionsAreNat DEF EditingInv
<1>2. question' \in Row /\ Advanced
  <2>1. ASSUME NEW text \in Contents,
               question' \in {Answered(question, text), Drafted(question, text),
                              Integrated(question, text)}
        PROVE  question' \in Row /\ Advanced
    <3>1. TRUE \in BOOLEAN /\ Changeable(question)
      BY DEF ChangeElsewhere
    <3>2. \A row \in {Answered(question, text), Drafted(question, text),
                      Integrated(question, text)} :
            row \in Row /\ row.version = question.version + 1
      <4>1. /\ Answered(question, text) \in Row /\ Answered(question, text).version = question.version + 1
            /\ Drafted(question, text) \in Row /\ Drafted(question, text).version = question.version + 1
            /\ Integrated(question, text) \in Row
            /\ Integrated(question, text).version = question.version + 1
        BY <1>1, <2>1, <3>1, WrittenRows
      <4> QED
        BY <4>1
    <3> QED
      BY <2>1, <3>2 DEF Advanced
  <2>2. ASSUME NEW held \in BOOLEAN, question' = HeldAs(question, held)
        PROVE  question' \in Row /\ Advanced
    <3>1. Blank \in Contents
      BY DEF Contents
    <3> QED
      BY <1>1, <2>2, <3>1, WrittenRows DEF ChangeElsewhere, Advanced
  <2> QED
    BY <2>1, <2>2 DEF ChangeElsewhere
<1>3. (call' = Nothing \/ call' \in Call) /\ CallIsKnown'
  BY <1>2, CallSurvives DEF ChangeElsewhere
<1> QED
  BY <1>2, <1>3, WriteStep DEF ChangeElsewhere
-----------------------------------------------------------------------------
(* Answers reach the page.                                                 *)

LEMMA FailKeeps == ASSUME EditingInv, Fail PROVE EditingInv'
<1>1. PageOK(page')
  BY PageIsOK DEF Fail, PageOK, Known
<1> QED
  BY <1>1, PageStep DEF Fail

(* What is known of the row that came with an answer.                      *)
LEMMA AnswerIsKnown ==
  ASSUME EditingInv, call # Nothing, call.answer.kind \in {"done", "conflict"}
  PROVE  /\ call.answer.row \in Row
         /\ call.answer.row.version \in Versions /\ call.answer.row.answer \in Contents
         /\ Known(call.answer.row.version, call.answer.row.answer)
<1>1. call.answer.row \in Row
  BY AnswerRow DEF EditingInv
<1> QED
  BY <1>1 DEF EditingInv, CallIsKnown, Row, QuestionRow

(* A detail that is told of a newer row.                                   *)
LEMMA ToldRow ==
  ASSUME NEW detail \in Row, NEW row \in Row
  PROVE  /\ Told(detail, row) \in Row
         /\ Told(detail, row).version = row.version
         /\ Told(detail, row).answer = row.answer
  BY DEF Told, Row, QuestionRow

LEMMA FinishSaveKeeps == ASSUME EditingInv, FinishSave PROVE EditingInv'
<1> DEFINE row == call.answer.row
<1>1. call # Nothing /\ call.kind = "save" /\ call.answer.kind = "done"
  BY CallKinds DEF FinishSave, Done
<1>2. row \in Row /\ row.version \in Versions /\ row.answer \in Contents
        /\ Known(row.version, row.answer)
  BY <1>1, AnswerIsKnown
<1>3. call \in SaveCall /\ call.text \in Contents /\ row.answer = call.text
        /\ call.redrawn \in BOOLEAN /\ call.renewed \in BOOLEAN
  BY <1>1, CallOfKind DEF EditingInv, CallIsKnown, SaveCall
<1>4. PageOK(page) /\ page \in Page /\ page.detail \in Row
  BY PageIsOK DEF PageOK, Page
<1> DEFINE d == IF call.renewed THEN page.detail ELSE Told(page.detail, row)
           e == IF call.redrawn THEN page.editor
                ELSE [page.editor EXCEPT !.version = row.version, !.saved = row.answer]
           r == IF call.redrawn THEN page.read ELSE call.text
           k == ~call.redrawn \/ page.clean
<1>5. page' = [page EXCEPT !.detail = d, !.editor = e, !.pending = NoText,
                           !.read = r, !.clean = k]
  BY <1>4 DEF FinishSave, Saved, Page
<1>6. d \in Row /\ Known(d.version, d.answer)
  BY <1>2, <1>4, ToldRow DEF PageOK
<1>7. e \in [open : BOOLEAN, version : Versions, saved : Contents, text : Contents]
        /\ e.open = page.editor.open
        /\ e.version = IF call.redrawn THEN page.editor.version ELSE row.version
  BY <1>2, <1>4 DEF Page
<1>8. r \in Contents /\ k \in BOOLEAN
  BY <1>3, <1>4 DEF Page
<1>9. k /\ e.open => Known(e.version, r)
  BY <1>2, <1>3, <1>4, <1>7 DEF PageOK
<1> HIDE DEF d, e, r, k
<1>10. page' \in Page /\ page'.detail = d /\ page'.editor = e /\ page'.read = r /\ page'.clean = k
  BY <1>4, <1>5, <1>6, <1>7, <1>8 DEF Page
<1>11. PageOK(page')
  BY <1>6, <1>9, <1>10 DEF PageOK
<1> QED
  BY <1>11, PageStep DEF FinishSave, Ended

LEMMA FinishHoldKeeps == ASSUME EditingInv, FinishHold PROVE EditingInv'
<1> DEFINE kept == IF call.held THEN [page EXCEPT !.pending = NoText] ELSE page
           row == IF call.renewed THEN kept.detail ELSE call.answer.row
<1>1. call # Nothing /\ call.answer.kind = "done"
  BY CallKinds DEF FinishHold, Done
<1>2. call.answer.row \in Row /\ Known(call.answer.row.version, call.answer.row.answer)
  BY <1>1, AnswerIsKnown
<1>3. PageOK(page) /\ page \in Page /\ page.detail \in Row
  BY PageIsOK DEF PageOK, Page
<1>4. kept \in Page /\ kept.detail = page.detail
  BY <1>3 DEF Page
<1>5. row \in Row /\ Known(row.version, row.answer)
  BY <1>2, <1>3, <1>4 DEF PageOK
<1>6. page' = Drawn(kept, row)
  BY DEF FinishHold
<1> HIDE DEF kept, row
<1>7. PageOK(page')
  BY <1>4, <1>5, <1>6, DrawnIsOK
<1> QED
  BY <1>7, PageStep DEF FinishHold, Ended

LEMMA FinishProposalKeeps == ASSUME EditingInv, FinishProposal PROVE EditingInv'
<1> DEFINE row == call.answer.row
<1>1. call # Nothing /\ call.kind = "proposal" /\ call.answer.kind = "done"
  BY CallKinds DEF FinishProposal, Done
<1>2. row \in Row /\ row.version \in Versions /\ Known(row.version, row.answer)
  BY <1>1, AnswerIsKnown
<1>3. call.text \in Contents /\ row.answer = call.text
  BY <1>1, CallOfKind DEF EditingInv, CallIsKnown, ProposalCall
<1>4. PageOK(page) /\ page \in Page /\ page.detail \in Row
  BY PageIsOK DEF PageOK, Page
<1> DEFINE d == [page.detail EXCEPT !.version = row.version, !.answer = call.text]
           e == IF page.editor.open
                THEN [page.editor EXCEPT !.version = row.version, !.text = call.text]
                ELSE page.editor
           r == IF page.editor.open THEN call.text ELSE page.read
           k == page.editor.open \/ page.clean
<1>5. page' = [page EXCEPT !.detail = d, !.editor = e, !.read = r, !.clean = k]
  BY <1>4 DEF FinishProposal, Proposed, Page
<1>6. d \in Row /\ d.version = row.version /\ d.answer = call.text
  BY <1>2, <1>3, <1>4 DEF Row, QuestionRow
<1>7. e \in [open : BOOLEAN, version : Versions, saved : Contents, text : Contents]
        /\ e.open = page.editor.open /\ (e.open => e.version = row.version)
  BY <1>2, <1>3, <1>4 DEF Page
<1>8. r \in Contents /\ k \in BOOLEAN /\ (e.open => r = row.answer)
  BY <1>3, <1>4, <1>7 DEF Page
<1> HIDE DEF d, e, r, k
<1>9. page' \in Page /\ page'.detail = d /\ page'.editor = e /\ page'.read = r
  BY <1>4, <1>5, <1>6, <1>7, <1>8 DEF Page
<1>10. PageOK(page')
  BY <1>2, <1>3, <1>6, <1>7, <1>8, <1>9 DEF PageOK
<1> QED
  BY <1>10, PageStep DEF FinishProposal, Ended

(* A page differs from one of which all is known in what is yet unsaved.   *)
LEMMA SameKnowledge ==
  ASSUME NEW pg, PageOK(pg), NEW text \in Contents \cup {NoText}
  PROVE  PageOK([pg EXCEPT !.pending = text])
  BY DEF PageOK, Page

LEMMA BeginLookKeeps == ASSUME EditingInv, BeginLook PROVE EditingInv'
<1> DEFINE text == IF call.kind = "hold" THEN NoText ELSE page.pending
<1>1. call # Nothing /\ call.kind \in {"save", "hold"} /\ call.answer.kind = "conflict"
  BY CallKinds DEF BeginLook
<1>2. call.answer.row \in Row /\ page.pending \in Contents \cup {NoText} /\ PageOK(page)
  BY <1>1, AnswerIsKnown, PageIsOK DEF PageOK, Page
<1>3. text \in Contents \cup {NoText} /\ page' = [page EXCEPT !.pending = text]
  BY <1>2 DEF BeginLook
<1> HIDE DEF text
<1>4. PageOK(page')
  BY <1>2, <1>3, SameKnowledge
<1>5. call' \in LookCall /\ call'.answer = Nothing
  BY <1>1, <1>2 DEF BeginLook, LookCall
<1>6. CallIsKnown' /\ call' \in Call
  BY <1>5, CallKinds DEF CallIsKnown
<1>7. LoadIsKnown'
  BY DEF EditingInv, BeginLook, LoadIsKnown, Known
<1>8. DetailIsKnown' /\ EditorIsKnown' /\ page' \in Page
  BY <1>4 DEF PageOK, DetailIsKnown, EditorIsKnown, Known, BeginLook
<1>9. TypeOK'
  BY <1>6, <1>8 DEF EditingInv, TypeOK, BeginLook
<1> QED
  BY <1>6, <1>7, <1>8, <1>9 DEF EditingInv

LEMMA FinishLookKeeps == ASSUME EditingInv, FinishLook PROVE EditingInv'
<1> DEFINE seen == Drawn(page, call.answer.row)
           latest == call.latest.answer
           same == latest = call.answer.row.answer
<1>1. call # Nothing /\ call.kind = "look" /\ call.answer.kind = "done"
  BY CallKinds DEF FinishLook, Done
<1>2. call.answer.row \in Row /\ Known(call.answer.row.version, call.answer.row.answer)
  BY <1>1, AnswerIsKnown
<1>3. call \in LookCall
  BY <1>1, CallOfKind DEF EditingInv
<1>4. latest \in Contents /\ call.local \in Contents \cup {NoText}
  BY <1>3 DEF LookCall, Row, QuestionRow
<1>5. PageOK(seen) /\ seen \in Page /\ seen.detail.version \in Versions
  BY <1>2, PageIsOK, DrawnIsOK DEF PageOK, Page, Row, QuestionRow
<1>6. seen.editor.open => seen.editor.version = call.answer.row.version
  BY <1>5, PageIsOK DEF Drawn, NoEditor, PageOK, Page
<1>7. same \in BOOLEAN
  OBVIOUS
<1>8. page' \in {seen, [seen EXCEPT !.pending = NoText],
                 [seen EXCEPT !.asked = call.local, !.read = latest, !.clean = same]}
  BY DEF FinishLook
<1> HIDE DEF seen, same, latest
<1>9. PageOK([seen EXCEPT !.pending = NoText])
  BY <1>5, SameKnowledge
<1>10. PageOK([seen EXCEPT !.asked = call.local, !.read = latest, !.clean = same])
  <2> DEFINE p == [seen EXCEPT !.asked = call.local, !.read = latest, !.clean = same]
  <2>1. p \in Page /\ p.detail = seen.detail /\ p.editor = seen.editor
          /\ p.read = latest /\ p.clean = same
    BY <1>4, <1>5, <1>7 DEF Page
  <2>2. same => latest = call.answer.row.answer
    BY DEF same
  <2> HIDE DEF p
  <2>3. PageOK(p)
    BY <1>2, <1>5, <1>6, <2>1, <2>2 DEF PageOK
  <2> QED
    BY <2>3 DEF p
<1>11. PageOK(page')
  BY <1>5, <1>8, <1>9, <1>10
<1> QED
  BY <1>11, PageStep DEF FinishLook, Ended

LEMMA UseLatestKeeps == ASSUME EditingInv, UseLatest PROVE EditingInv'
<1> DEFINE free == [page EXCEPT !.asked = NoText, !.pending = NoText]
<1>1. PageOK(page) /\ page \in Page /\ page.detail \in Row
  BY PageIsOK DEF PageOK, Page
<1>2. free \in Page /\ free.detail = page.detail
  BY <1>1 DEF Page
<1>3. page' = Drawn(free, free.detail)
  BY DEF UseLatest
<1> HIDE DEF free
<1>4. PageOK(page')
  BY <1>1, <1>2, <1>3, DrawnIsOK DEF PageOK
<1> QED
  BY <1>4, PageStep DEF UseLatest

LEMMA KeepLocalKeeps == ASSUME EditingInv, KeepLocal PROVE EditingInv'
<1> DEFINE free == [page EXCEPT !.asked = NoText]
           e == [page.editor EXCEPT !.text = page.asked]
<1>1. PageOK(page) /\ page \in Page /\ page.asked # NoText
  BY PageIsOK DEF PageOK, KeepLocal, Free
<1>2. page.asked \in Contents
  BY <1>1 DEF Page
<1>3. free \in Page /\ free.detail = page.detail /\ free.editor = page.editor
        /\ free.read = page.read /\ free.clean = page.clean
  BY <1>1 DEF Page
<1>4. e \in [open : BOOLEAN, version : Versions, saved : Contents, text : Contents]
        /\ e.open = page.editor.open /\ e.version = page.editor.version
  BY <1>1, <1>2 DEF Page
<1>5. page' = free \/ page' = [free EXCEPT !.editor = e, !.pending = page.asked]
  BY <1>3 DEF KeepLocal, Page
<1> HIDE DEF free, e
<1>6. /\ page' \in Page /\ page'.detail = page.detail
      /\ page'.editor.open = page.editor.open /\ page'.editor.version = page.editor.version
      /\ page'.read = page.read /\ page'.clean = page.clean
  BY <1>2, <1>3, <1>4, <1>5 DEF Page
<1>7. PageOK(page')
  BY <1>1, <1>6 DEF PageOK
<1> QED
  BY <1>7, PageStep DEF KeepLocal
-----------------------------------------------------------------------------
LEMMA InvariantIsKept == EditingInv /\ [Next]_vars => EditingInv'
<1> SUFFICES ASSUME EditingInv, [Next]_vars PROVE EditingInv'
  OBVIOUS
<1>1. CASE ChangeElsewhere
  BY <1>1, ChangeElsewhereKeeps
<1>2. CASE \E text \in Contents : Type(text)
  BY <1>2, TypeKeeps
<1>3. CASE Redraw \/ SendLoad \/ ServeLoad \/ FinishLoad
  BY <1>3, RedrawKeeps, LoadingKeeps
<1>4. CASE SendSave \/ ServeSave \/ FinishSave
  BY <1>4, SendSaveKeeps, ServeSaveKeeps, FinishSaveKeeps
<1>5. CASE SendHold \/ ServeHold \/ FinishHold
  BY <1>5, SendOthersKeep, ServeHoldKeeps, FinishHoldKeeps
<1>6. CASE (\E text \in Texts : SendProposal(text)) \/ ServeProposal \/ FinishProposal
  BY <1>6, SendOthersKeep, ServeProposalKeeps, FinishProposalKeeps
<1>7. CASE BeginLook \/ ServeLook \/ FinishLook
  BY <1>7, BeginLookKeeps, ServeLookKeeps, FinishLookKeeps
<1>8. CASE UseLatest \/ KeepLocal \/ Fail
  BY <1>8, UseLatestKeeps, KeepLocalKeeps, FailKeeps
<1>9. CASE UNCHANGED vars
  <2>1. UNCHANGED <<question, page, call, load>>
    BY <1>9 DEF vars
  <2>2. PageOK(page')
    BY <2>1, PageIsOK
  <2> QED
    BY <2>1, <2>2, PageStep
<1> QED
  BY <1>1, <1>2, <1>3, <1>4, <1>5, <1>6, <1>7, <1>8, <1>9 DEF Next

LEMMA InvariantHolds == Spec => []EditingInv
  BY InvariantAtFirst, InvariantIsKept, PTL DEF Spec

(* The page, the question and the requests between them keep their shapes: *)
(* whatever comes back, no editor is left with a version never handed out. *)
THEOREM EditingTypes == Spec => []TypeOK
<1>1. EditingInv => TypeOK
  BY DEF EditingInv
<1> QED
  BY <1>1, InvariantHolds, PTL

(* In whatever order the answers of saves, holds, proposals and reloads    *)
(* reach write.js, a page with the current version shows the current       *)
(* answer.                                                                 *)
THEOREM DetailStaysTrue == Spec => []DetailShowsAnswer
<1>1. EditingInv => DetailShowsAnswer
  BY DEF EditingInv, DetailIsKnown, Known, DetailShowsAnswer
<1> QED
  BY <1>1, InvariantHolds, PTL

(* A save that question_answer stores replaces the answer the person was   *)
(* shown, if the editor got its version with that answer.                  *)
THEOREM CleanSavesAreHonest == Spec => CleanSavesReplaceWhatWasShown
<1>1. EditingInv /\ [Next]_vars =>
        [SaveStored /\ call.clean => question.answer = call.read]_vars
  <2> SUFFICES ASSUME EditingInv, [Next]_vars, SaveStored, call.clean
               PROVE  question.answer = call.read \/ UNCHANGED vars
    BY DEF vars
  <2>1. call.kind = "save" /\ call.answer = Nothing /\ call' # call
    BY DEF SaveStored, Waits
  <2>2. Known(call.version, call.read)
    BY <2>1 DEF EditingInv, CallIsKnown
  <2>3. CASE ServeSave
    <3>1. question.version = call.version
      <4>1. call \in SaveCall
        BY <2>1, CallOfKind DEF EditingInv
      <4> DEFINE late == [kind |-> "conflict", row |-> question]
                 sent == [call EXCEPT !.answer = late]
      <4>2. late.kind # "done"
        OBVIOUS
      <4> HIDE DEF late
      <4>3. sent.answer = late
        BY <4>1 DEF SaveCall
      <4> HIDE DEF sent
      <4>4. call' # sent
        BY <4>2, <4>3 DEF SaveStored
      <4> QED
        BY <2>3, <4>4 DEF ServeSave, Answer, sent, late
    <3> QED
      BY <2>2, <3>1 DEF Known
  <2>4. CASE ~ServeSave
    <3>1. call' \in {Redrawn(call), Renewed(call)}
      BY <2>1, <2>4, CallKinds DEF Next, SaveStored, ChangeElsewhere, Type, Redraw,
        SendLoad, ServeLoad, FinishLoad, SendSave, Send, FinishSave, SendHold, ServeHold,
        FinishHold, SendProposal, ServeProposal, FinishProposal, BeginLook, ServeLook,
        FinishLook, UseLatest, KeepLocal, Fail, Done, Waits, Ended, vars
    <3>2. call'.answer = Nothing
      BY <2>1, <3>1, CallKinds, MarkedCall DEF EditingInv
    <3> QED
      BY <3>2 DEF SaveStored
  <2> QED
    BY <2>3, <2>4
<1> QED
  BY <1>1, InvariantHolds, PTL DEF Spec, CleanSavesReplaceWhatWasShown
=============================================================================
