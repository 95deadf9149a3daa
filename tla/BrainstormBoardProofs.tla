------------------------ MODULE BrainstormBoardProofs ------------------------
(***************************************************************************)
(* What is proved of BrainstormBoard for any users, notes, lines and any   *)
(* length of the log: its types, that no line dangles, that versions tell  *)
(* rows apart, that undo and redo put rows back, take lines along only     *)
(* with their notes and overwrite nothing, and implement UndoStack.        *)
(***************************************************************************)
EXTENDS BrainstormBoard, FiniteSetTheorems, WellFoundedInduction,
        SequenceTheorems, TLAPS

NoteIsSound(row) ==
    /\ row.status = "accepted" <=> row.section # NoSection
    /\ row.held_from # NoSection => row.status = "held"

(* A board as it may be at any time.                                       *)
Sound(b) ==
    /\ b \in Board
    /\ \A n \in Notes : /\ Exists(b.note[n]) => NoteIsSound(b.note[n])
                        /\ b.note[n].status = "absent" => b.note[n].version = 0
    /\ OneLinePerPair(b)
    /\ \A l \in Lines :
         /\ Exists(b.line[l]) => Cardinality(b.line[l].ends) = 2
         /\ Live(b.line[l]) => \A n \in b.line[l].ends : Live(b.note[n])
         /\ b.line[l].status = "absent" => b.line[l].version = 0

(* What may become of a row in a step: it is gone for good, is as it was,  *)
(* has a higher version, or has expired.                                   *)
RowFollows(r, s) ==
    \/ s.status = "purged"
    \/ s = r
    \/ r.status # "purged" /\ Exists(s) /\ r.version < s.version
    \/ Exists(r) /\ Exists(s) /\ r.version = s.version /\ SameRow(r, s)
Follows(b, c) ==
    /\ \A n \in Notes : RowFollows(b.note[n], c.note[n])
    /\ \A l \in Lines : RowFollows(b.line[l], c.line[l])

(* A row that is written is there and has a higher version.                *)
RowIsTouched(r, s) == r.status # "purged" /\ Exists(s) /\ r.version < s.version
Touched(b, c, notes, lines) ==
    /\ \A n \in notes : RowIsTouched(b.note[n], c.note[n])
    /\ \A l \in lines : RowIsTouched(b.line[l], c.line[l])
-----------------------------------------------------------------------------
(* Numbers.                                                                *)

LEMMA MaxIsThere ==
  ASSUME NEW S, NEW m \in Nat, S \subseteq 0..m, S # {}
  PROVE  Max(S) \in S /\ \A i \in S : i <= Max(S)
<1> DEFINE T == {m - i : i \in S}
<1>1. T \subseteq Nat /\ T # {}
  <2>1. \A i \in S : m - i \in Nat
    <3>1. \A i \in 0..m : m - i \in Nat
      OBVIOUS
    <3> QED
      BY <3>1
  <2> QED
    BY <2>1
<1>2. PICK x \in T : \A y \in T : ~(<<y, x>> \in OpToRel(<, Nat))
  <2> HIDE DEF T
  <2> QED
    BY <1>1, NatLessThanWellFounded, WFMin
<1>3. PICK i \in S : x = m - i
  OBVIOUS
<1>4. \A j \in S : j <= i
  <2> SUFFICES ASSUME NEW j \in S PROVE j <= i
    OBVIOUS
  <2>1. i \in 0..m /\ j \in 0..m /\ m - j \in T
    OBVIOUS
  <2>2. ~(m - j < m - i)
    <3>1. m - j \in Nat /\ m - i \in Nat
      BY <1>1, <1>3, <2>1
    <3> HIDE DEF T
    <3> QED
      BY <1>2, <1>3, <2>1, <3>1 DEF OpToRel
  <2> QED
    BY <2>1, <2>2
<1>5. \E y \in S : \A j \in S : y >= j
  <2>1. \A j \in S : i >= j
    <3>1. \A j \in S : i \in 0..m /\ j \in 0..m
      OBVIOUS
    <3> QED
      BY <1>4, <3>1
  <2> QED
    BY <2>1
<1>6. Max(S) \in S /\ \A j \in S : Max(S) >= j
  BY <1>5 DEF Max
<1>7. \A j \in S : Max(S) \in 0..m /\ j \in 0..m
  BY <1>6
<1> QED
  BY <1>6, <1>7
-----------------------------------------------------------------------------
(* Rows.                                                                   *)
NoteFields == {"status", "section", "held_from", "text", "assignee", "deleted", "version"}
LineFields == {"status", "ends", "deleted", "version"}

LEMMA NoteIsTyped ==
  ASSUME NEW r \in NoteRow
  PROVE  /\ DOMAIN r = NoteFields /\ r = [f \in NoteFields |-> r[f]]
         /\ r.version \in Nat /\ r.deleted \in Ages
         /\ r.section \in Places /\ r.held_from \in Places
         /\ r.text \in Texts /\ r.assignee \in Assignees
         /\ r.status \in {"absent", "default", "accepted", "held", "purged"}
  BY DEF NoteRow, NoteFields

LEMMA LineIsTyped ==
  ASSUME NEW r \in LineRow
  PROVE  /\ DOMAIN r = LineFields /\ r = [f \in LineFields |-> r[f]]
         /\ r.version \in Nat /\ r.deleted \in Ages
         /\ r.ends \in SUBSET Notes /\ r.status \in {"absent", "drawn", "purged"}
  BY DEF LineRow, LineFields

LEMMA IsNote ==
  ASSUME NEW x, x = [f \in NoteFields |-> x[f]],
         x.status \in {"absent", "default", "accepted", "held", "purged"},
         x.section \in Places, x.held_from \in Places, x.text \in Texts,
         x.assignee \in Assignees, x.deleted \in Ages, x.version \in Nat
  PROVE  x \in NoteRow
  BY DEF NoteRow, NoteFields

LEMMA IsLine ==
  ASSUME NEW x, x = [f \in LineFields |-> x[f]],
         x.status \in {"absent", "drawn", "purged"},
         x.ends \in SUBSET Notes, x.deleted \in Ages, x.version \in Nat
  PROVE  x \in LineRow
  BY DEF LineRow, LineFields

LEMMA NoteValues ==
  ASSUME NEW r \in NoteRow, NEW s \in NoteRow
  PROVE  Values(r) = Values(s) <=>
            /\ r.status = s.status /\ r.section = s.section /\ r.held_from = s.held_from
            /\ r.text = s.text /\ r.assignee = s.assignee
<1> DEFINE D == {"status", "section", "held_from", "text", "assignee"}
<1>1. Values(r) = [f \in D |-> r[f]] /\ Values(s) = [f \in D |-> s[f]]
  <2>1. DOMAIN r \ {"version", "deleted"} = D /\ DOMAIN s \ {"version", "deleted"} = D
    BY NoteIsTyped DEF NoteFields
  <2> QED
    BY <2>1 DEF Values
<1> QED
  BY <1>1

LEMMA LineValues ==
  ASSUME NEW r \in LineRow, NEW s \in LineRow
  PROVE  Values(r) = Values(s) <=> r.status = s.status /\ r.ends = s.ends
<1> DEFINE D == {"status", "ends"}
<1>1. Values(r) = [f \in D |-> r[f]] /\ Values(s) = [f \in D |-> s[f]]
  <2>1. DOMAIN r \ {"version", "deleted"} = D /\ DOMAIN s \ {"version", "deleted"} = D
    BY LineIsTyped DEF LineFields
  <2> QED
    BY <2>1 DEF Values
<1> QED
  BY <1>1

LEMMA AgesAre == {"no", "recent", "expired"} \subseteq Ages
  BY DEF Ages

LEMMA NoteIsDeleted ==
  ASSUME NEW r \in NoteRow, NEW d \in Ages
  PROVE  LET s == SetDeleted(r, d) IN
         /\ s \in NoteRow
         /\ s.version = r.version + 1 /\ r.version < s.version
         /\ s.status = r.status /\ s.deleted = d
         /\ s.section = r.section /\ s.held_from = r.held_from
         /\ Values(s) = Values(r)
<1> DEFINE s == SetDeleted(r, d)
<1>1. /\ s = [f \in NoteFields |-> s[f]]
      /\ s.version = r.version + 1 /\ s.status = r.status /\ s.deleted = d
      /\ s.section = r.section /\ s.held_from = r.held_from
      /\ s.text = r.text /\ s.assignee = r.assignee
  BY DEF SetDeleted, NoteRow, NoteFields
<1> HIDE DEF s
<1>2. r.version + 1 \in Nat /\ r.version < r.version + 1
  BY NoteIsTyped
<1>3. s \in NoteRow
  BY <1>1, <1>2, NoteIsTyped, IsNote
<1>4. Values(s) = Values(r)
  BY <1>1, <1>3, NoteValues
<1>5. s.version = r.version + 1 /\ r.version < s.version
  BY <1>1, <1>2
<1> QED
  BY <1>1, <1>3, <1>4, <1>5 DEF s

LEMMA LineIsDeleted ==
  ASSUME NEW r \in LineRow, NEW d \in Ages
  PROVE  LET s == SetDeleted(r, d) IN
         /\ s \in LineRow
         /\ s.version = r.version + 1 /\ r.version < s.version
         /\ s.status = r.status /\ s.deleted = d /\ s.ends = r.ends
         /\ Values(s) = Values(r)
<1> DEFINE s == SetDeleted(r, d)
<1>1. /\ s = [f \in LineFields |-> s[f]]
      /\ s.version = r.version + 1 /\ s.status = r.status /\ s.deleted = d
      /\ s.ends = r.ends
  BY DEF SetDeleted, LineRow, LineFields
<1> HIDE DEF s
<1>2. r.version + 1 \in Nat /\ r.version < r.version + 1
  BY LineIsTyped
<1>3. s \in LineRow
  BY <1>1, <1>2, LineIsTyped, IsLine
<1>4. Values(s) = Values(r)
  BY <1>1, <1>3, LineValues
<1>5. s.version = r.version + 1 /\ r.version < s.version
  BY <1>1, <1>2
<1> QED
  BY <1>1, <1>3, <1>4, <1>5 DEF s

LEMMA NewNoteIsSound ==
  ASSUME NEW u \in Assignees, NEW s \in Places, NEW t \in Texts
  PROVE  LET x == NewNote(u, s, t) IN
         x \in NoteRow /\ Live(x) /\ NoteIsSound(x) /\ x.version = 1 /\ x.status # "absent"
<1> DEFINE x == NewNote(u, s, t)
<1>1. /\ x = [f \in NoteFields |-> x[f]]
      /\ x.status = StatusIn(s) /\ x.section = s /\ x.held_from = NoSection
      /\ x.text = t /\ x.assignee = u /\ x.deleted = "no" /\ x.version = 1
  BY DEF NewNote, NoteFields
<1> HIDE DEF x
<1>2. /\ StatusIn(s) \in {"default", "accepted"} /\ NoSection \in Places
      /\ StatusIn(s) = "accepted" <=> s # NoSection
  BY DEF StatusIn, Places
<1>3. x \in NoteRow
  BY <1>1, <1>2, AgesAre, IsNote
<1> QED
  BY <1>1, <1>2, <1>3 DEF Live, Exists, NoteIsSound, x

LEMMA FirstHeldIsSound ==
  ASSUME NEW s \in Places, NEW t \in Texts
  PROVE  LET x == [NewNote(NoOne, NoSection, t) EXCEPT !.status = "held", !.held_from = s] IN
         x \in NoteRow /\ x.deleted = "no" /\ NoteIsSound(x) /\ x.status # "absent"
<1> DEFINE x == [NewNote(NoOne, NoSection, t) EXCEPT !.status = "held", !.held_from = s]
<1>1. /\ x = [f \in NoteFields |-> x[f]]
      /\ x.status = "held" /\ x.section = NoSection /\ x.held_from = s
      /\ x.text = t /\ x.assignee = NoOne /\ x.deleted = "no" /\ x.version = 1
  BY DEF NewNote, NoteFields
<1> HIDE DEF x
<1>2. NoSection \in Places /\ NoOne \in Assignees
  BY DEF Places, Assignees
<1>3. x \in NoteRow
  BY <1>1, <1>2, AgesAre, IsNote
<1> QED
  BY <1>1, <1>3 DEF NoteIsSound, x

LEMMA NoNoteIsTyped ==
  ASSUME Texts # {}
  PROVE  /\ NoNote \in NoteRow /\ NoNote.status = "absent" /\ NoNote.version = 0
         /\ NoNote.deleted = "no" /\ ~Exists(NoNote)
         /\ [NoNote EXCEPT !.status = "purged"] \in NoteRow
         /\ [NoNote EXCEPT !.status = "purged"].status = "purged"
<1> DEFINE x == [NoNote EXCEPT !.status = "purged"]
<1>1. NoNote.text \in Texts
  BY DEF NoNote
<1>2. /\ NoNote = [f \in NoteFields |-> NoNote[f]]
      /\ NoNote.status = "absent" /\ NoNote.section = NoSection /\ NoNote.held_from = NoSection
      /\ NoNote.assignee = NoOne /\ NoNote.deleted = "no" /\ NoNote.version = 0
  BY DEF NoNote, NoteFields
<1>3. NoSection \in Places /\ NoOne \in Assignees
  BY DEF Places, Assignees
<1>4. NoNote \in NoteRow
  BY <1>1, <1>2, <1>3, AgesAre, IsNote
<1>5. x \in NoteRow /\ x.status = "purged"
  BY <1>4 DEF NoteRow
<1> QED
  BY <1>2, <1>4, <1>5 DEF Exists

LEMMA NewLineIsTyped ==
  ASSUME NEW ends \in kSubset(2, Notes)
  PROVE  LET x == NewLine(ends) IN
         /\ x \in LineRow /\ Live(x) /\ x.version = 1 /\ x.status # "absent"
         /\ x.ends = ends /\ ends \in SUBSET Notes /\ Cardinality(ends) = 2
  BY DEF NewLine, LineRow, Ages, kSubset, Live, Exists

LEMMA NoLineIsTyped ==
  /\ NoLine \in LineRow /\ NoLine.status = "absent" /\ NoLine.version = 0 /\ ~Exists(NoLine)
  /\ [NoLine EXCEPT !.status = "purged"] \in LineRow
  /\ [NoLine EXCEPT !.status = "purged"].status = "purged"
  BY DEF NoLine, LineRow, Ages, Exists
-----------------------------------------------------------------------------
(* Boards.                                                                 *)

LEMMA BoardIsTyped ==
  ASSUME NEW b \in Board
  PROVE  /\ b.note \in [Notes -> NoteRow] /\ b.line \in [Lines -> LineRow]
         /\ \A n \in Notes : b.note[n] \in NoteRow
         /\ \A l \in Lines : b.line[l] \in LineRow
  BY DEF Board

LEMMA IsBoard ==
  ASSUME NEW f \in [Notes -> NoteRow], NEW g \in [Lines -> LineRow]
  PROVE  LET c == [note |-> f, line |-> g] IN
         c \in Board /\ c.note = f /\ c.line = g
  BY DEF Board

(* Notes that are new or live are rewritten, and stay or become live.      *)
LEMMA NotesAreWritten ==
  ASSUME NEW b, Sound(b), NEW c \in Board, c.line = b.line, NEW notes \in SUBSET Notes,
         \A n \in Notes \ notes : c.note[n] = b.note[n],
         \A n \in notes : /\ b.note[n].status = "absent" \/ Live(b.note[n])
                          /\ Live(c.note[n]) /\ NoteIsSound(c.note[n])
                          /\ b.note[n].version < c.note[n].version
  PROVE  Sound(c) /\ Follows(b, c) /\ Touched(b, c, notes, {})
<1>1. \A n \in Notes : Live(b.note[n]) => Live(c.note[n])
  OBVIOUS
<1>2. \A n \in Notes : /\ Exists(c.note[n]) => NoteIsSound(c.note[n])
                       /\ c.note[n].status = "absent" => c.note[n].version = 0
  <2> TAKE n \in Notes
  <2> QED
    BY DEF Sound, Live, Exists
<1>3. OneLinePerPair(c)
  BY DEF Sound, OneLinePerPair
<1>4. \A l \in Lines :
         /\ Exists(c.line[l]) => Cardinality(c.line[l].ends) = 2
         /\ Live(c.line[l]) => \A n \in c.line[l].ends : Live(c.note[n])
         /\ c.line[l].status = "absent" => c.line[l].version = 0
  <2> TAKE l \in Lines
  <2>1. c.line[l] = b.line[l] /\ b.line[l].ends \in SUBSET Notes
    BY BoardIsTyped, LineIsTyped DEF Sound
  <2> QED
    BY <1>1, <2>1 DEF Sound
<1>5. \A n \in notes : RowIsTouched(b.note[n], c.note[n])
  BY DEF RowIsTouched, Live, Exists
<1>6. Follows(b, c)
  BY <1>5 DEF Follows, RowFollows, RowIsTouched
<1> QED
  BY <1>2, <1>3, <1>4, <1>5, <1>6 DEF Sound, Touched

(* A line is written; when it is live then, so are its ends.               *)
LEMMA LineIsWritten ==
  ASSUME NEW b, Sound(b), NEW c \in Board, c.note = b.note, NEW l \in Lines,
         \A m \in Lines \ {l} : c.line[m] = b.line[m],
         OneLinePerPair(c),
         b.line[l].status # "purged", b.line[l].version < c.line[l].version,
         Exists(c.line[l]), Cardinality(c.line[l].ends) = 2,
         Live(c.line[l]) => \A n \in c.line[l].ends : Live(b.note[n])
  PROVE  Sound(c) /\ Follows(b, c) /\ Touched(b, c, {}, {l})
<1>1. \A m \in Lines :
         /\ Exists(c.line[m]) => Cardinality(c.line[m].ends) = 2
         /\ Live(c.line[m]) => \A n \in c.line[m].ends : Live(c.note[n])
         /\ c.line[m].status = "absent" => c.line[m].version = 0
  <2> TAKE m \in Lines
  <2>1. CASE m = l
    BY <2>1 DEF Exists
  <2>2. CASE m # l
    BY <2>2 DEF Sound
  <2> QED
    BY <2>1, <2>2
<1>2. RowIsTouched(b.line[l], c.line[l])
  BY DEF RowIsTouched
<1>3. Follows(b, c)
  BY <1>2 DEF Follows, RowFollows, RowIsTouched
<1> QED
  BY <1>1, <1>2, <1>3 DEF Sound, Touched

LEMMA SoftDeletedIsSound ==
  ASSUME NEW b, Sound(b), NEW n \in Notes, Live(b.note[n]),
         OneLinePerPair(SoftDeleted(b, n))
  PROVE  LET c == SoftDeleted(b, n) IN
         /\ Sound(c) /\ Follows(b, c) /\ Touched(b, c, {n}, {})
         /\ Values(c.note[n]) = Values(b.note[n])
         /\ Exists(c.note[n]) /\ ~Live(c.note[n])
<1> DEFINE c == SoftDeleted(b, n)
           row == SetDeleted(b.note[n], "recent")
<1>1. \A m \in Notes : b.note[m] \in NoteRow
  BY BoardIsTyped DEF Sound
<1>2. \A l \in Lines : b.line[l] \in LineRow
  BY BoardIsTyped DEF Sound
<1>3. /\ row \in NoteRow /\ b.note[n].version < row.version
      /\ row.status = b.note[n].status /\ row.deleted = "recent"
      /\ row.section = b.note[n].section /\ row.held_from = b.note[n].held_from
      /\ Values(row) = Values(b.note[n])
  BY <1>1, NoteIsDeleted, AgesAre
<1>4. /\ c \in Board
      /\ c.note = [b.note EXCEPT ![n] = row]
      /\ c.line = [l \in Lines |-> IF l \in LinesAt(b, n)
                                   THEN SetDeleted(b.line[l], "recent") ELSE b.line[l]]
  <2>1. [b.note EXCEPT ![n] = row] \in [Notes -> NoteRow]
    BY <1>3, BoardIsTyped DEF Sound
  <2>2. [l \in Lines |-> IF l \in LinesAt(b, n)
            THEN SetDeleted(b.line[l], "recent") ELSE b.line[l]] \in [Lines -> LineRow]
    BY <1>2, LineIsDeleted, AgesAre
  <2> QED
    BY <2>1, <2>2, IsBoard DEF SoftDeleted
<1>5. /\ c.note[n] = row /\ \A m \in Notes \ {n} : c.note[m] = b.note[m]
      /\ \A l \in Lines : c.line[l] = IF l \in LinesAt(b, n)
                            THEN SetDeleted(b.line[l], "recent") ELSE b.line[l]
  BY <1>4, BoardIsTyped DEF Sound
<1>6. OneLinePerPair(c)
  OBVIOUS
<1> HIDE DEF c, row
<1>7. \A l \in Lines :
         IF l \in LinesAt(b, n)
         THEN /\ c.line[l].status = b.line[l].status /\ c.line[l].ends = b.line[l].ends
              /\ b.line[l].version < c.line[l].version /\ c.line[l].deleted = "recent"
              /\ Exists(b.line[l]) /\ Exists(c.line[l]) /\ ~Live(c.line[l])
         ELSE c.line[l] = b.line[l]
  BY <1>2, <1>5, LineIsDeleted, AgesAre DEF LinesAt, Live, Exists
<1>8. Exists(b.note[n]) /\ Exists(c.note[n]) /\ ~Live(c.note[n]) /\ NoteIsSound(c.note[n])
  BY <1>3, <1>5 DEF Sound, NoteIsSound, Live, Exists
<1>9. \A m \in Notes : /\ Exists(c.note[m]) => NoteIsSound(c.note[m])
                       /\ c.note[m].status = "absent" => c.note[m].version = 0
  BY <1>5, <1>8 DEF Sound, Exists
<1>10. \A l \in Lines :
         /\ Exists(c.line[l]) => Cardinality(c.line[l].ends) = 2
         /\ Live(c.line[l]) => \A m \in c.line[l].ends : Live(c.note[m])
         /\ c.line[l].status = "absent" => c.line[l].version = 0
  <2> TAKE l \in Lines
  <2>1. CASE l \in LinesAt(b, n)
    BY <1>7, <2>1 DEF Sound, Exists
  <2>2. CASE l \notin LinesAt(b, n)
    <3>1. c.line[l] = b.line[l]
      BY <1>7, <2>2
    <3>2. ASSUME Live(c.line[l]), NEW m \in c.line[l].ends PROVE Live(c.note[m])
      <4>1. m \in Notes /\ m # n
        BY <1>2, <2>2, <3>1, <3>2, LineIsTyped DEF LinesAt
      <4> QED
        BY <1>5, <3>1, <3>2, <4>1 DEF Sound
    <3> QED
      BY <3>1, <3>2 DEF Sound
  <2> QED
    BY <2>1, <2>2
<1>11. Touched(b, c, {n}, {}) /\ Follows(b, c)
  BY <1>3, <1>5, <1>7, <1>8 DEF Touched, Follows, RowFollows, RowIsTouched, Exists
<1>12. c \in Board
  BY <1>4
<1> QED
  BY <1>3, <1>5, <1>6, <1>8, <1>9, <1>10, <1>11, <1>12 DEF Sound, c

LEMMA RestoredIsSound ==
  ASSUME NEW b, Sound(b), NEW n \in Notes, Restorable(b.note[n]),
         OneLinePerPair(Restored(b, n))
  PROVE  LET c == Restored(b, n) IN
         /\ Sound(c) /\ Follows(b, c) /\ Touched(b, c, {n}, {})
         /\ Values(c.note[n]) = Values(b.note[n]) /\ Live(c.note[n])
<1> DEFINE c == Restored(b, n)
           row == SetDeleted(b.note[n], "no")
           note == [b.note EXCEPT ![n] = SetDeleted(@, "no")]
           back(l) == /\ Exists(b.line[l]) /\ b.line[l].deleted # "no" /\ n \in b.line[l].ends
                      /\ \A end \in b.line[l].ends : Live(note[end])
<1>1. \A m \in Notes : b.note[m] \in NoteRow
  BY BoardIsTyped DEF Sound
<1>2. \A l \in Lines : b.line[l] \in LineRow
  BY BoardIsTyped DEF Sound
<1>3. /\ row \in NoteRow /\ b.note[n].version < row.version
      /\ row.status = b.note[n].status /\ row.deleted = "no"
      /\ row.section = b.note[n].section /\ row.held_from = b.note[n].held_from
      /\ Values(row) = Values(b.note[n])
  BY <1>1, NoteIsDeleted, AgesAre
<1>4. /\ c \in Board /\ c.note = note
      /\ c.line = [l \in Lines |-> IF back(l) THEN SetDeleted(b.line[l], "no") ELSE b.line[l]]
  <2>1. note \in [Notes -> NoteRow]
    BY <1>3, BoardIsTyped DEF Sound
  <2>2. [l \in Lines |-> IF back(l) THEN SetDeleted(b.line[l], "no") ELSE b.line[l]]
           \in [Lines -> LineRow]
    <3> HIDE DEF back
    <3> QED
      BY <1>2, LineIsDeleted, AgesAre
  <2>3. c = [note |-> note,
             line |-> [l \in Lines |-> IF back(l) THEN SetDeleted(b.line[l], "no") ELSE b.line[l]]]
    BY DEF Restored
  <2> HIDE DEF note, back, c
  <2> QED
    BY <2>1, <2>2, <2>3, IsBoard
<1>5. /\ c.note[n] = row /\ \A m \in Notes \ {n} : c.note[m] = b.note[m]
  BY <1>4, BoardIsTyped DEF Sound
<1>6. \A l \in Lines : back(l) => \A m \in b.line[l].ends : Live(c.note[m])
  BY <1>4
<1>7. \A l \in Lines : back(l) => Exists(b.line[l])
  OBVIOUS
<1>8. OneLinePerPair(c)
  OBVIOUS
<1> HIDE DEF c, row, note, back
<1>9. \A l \in Lines :
         IF back(l)
         THEN /\ c.line[l].status = b.line[l].status /\ c.line[l].ends = b.line[l].ends
              /\ b.line[l].version < c.line[l].version
              /\ Exists(b.line[l]) /\ Exists(c.line[l])
         ELSE c.line[l] = b.line[l]
  <2> TAKE l \in Lines
  <2>1. c.line[l] = IF back(l) THEN SetDeleted(b.line[l], "no") ELSE b.line[l]
    BY <1>4
  <2>2. b.line[l] \in LineRow /\ "no" \in Ages
    BY <1>2, AgesAre
  <2>3. CASE back(l)
    BY <1>7, <2>1, <2>2, <2>3, LineIsDeleted DEF Exists
  <2>4. CASE ~back(l)
    BY <2>1, <2>4
  <2> QED
    BY <2>3, <2>4
<1>10. Exists(b.note[n]) /\ ~Live(b.note[n]) /\ Exists(c.note[n]) /\ Live(c.note[n])
       /\ NoteIsSound(c.note[n])
  BY <1>3, <1>5 DEF Sound, NoteIsSound, Live, Exists, Restorable
<1>11. \A m \in Notes : /\ Exists(c.note[m]) => NoteIsSound(c.note[m])
                        /\ c.note[m].status = "absent" => c.note[m].version = 0
  BY <1>5, <1>10 DEF Sound, Exists
<1>12. \A l \in Lines :
         /\ Exists(c.line[l]) => Cardinality(c.line[l].ends) = 2
         /\ Live(c.line[l]) => \A m \in c.line[l].ends : Live(c.note[m])
         /\ c.line[l].status = "absent" => c.line[l].version = 0
  <2> TAKE l \in Lines
  <2>1. CASE back(l)
    BY <1>6, <1>9, <2>1 DEF Sound, Exists
  <2>2. CASE ~back(l)
    <3>1. c.line[l] = b.line[l]
      BY <1>9, <2>2
    <3>2. ASSUME Live(c.line[l]), NEW m \in c.line[l].ends PROVE Live(c.note[m])
      <4>1. m \in Notes /\ Live(b.note[m])
        BY <1>2, <3>1, <3>2, LineIsTyped DEF Sound
      <4> QED
        BY <1>5, <1>10, <4>1
    <3> QED
      BY <3>1, <3>2 DEF Sound
  <2> QED
    BY <2>1, <2>2
<1>13. Touched(b, c, {n}, {}) /\ Follows(b, c)
  BY <1>3, <1>5, <1>9, <1>10 DEF Touched, Follows, RowFollows, RowIsTouched, Exists
<1>14. c \in Board
  BY <1>4
<1> QED
  BY <1>3, <1>5, <1>8, <1>10, <1>11, <1>12, <1>13, <1>14 DEF Sound, c

LEMMA HeldIsSound ==
  ASSUME NEW b, Sound(b), NEW n \in Notes, Live(b.note[n]), OneLinePerPair(Held(b, n))
  PROVE  LET c == Held(b, n) IN
         /\ Sound(c) /\ Follows(b, c) /\ Touched(b, c, {n}, {})
         /\ c.note[n].status = "held" /\ c.note[n].section = NoSection
         /\ c.note[n].held_from = b.note[n].section
         /\ c.note[n].text = b.note[n].text /\ c.note[n].assignee = b.note[n].assignee
         /\ c.note[n].deleted = b.note[n].deleted /\ Live(c.note[n])
<1> DEFINE c == Held(b, n)
           row == [b.note[n] EXCEPT !.status = "held", !.held_from = b.note[n].section,
                                    !.section = NoSection, !.version = @ + 1]
           cut(l) == Exists(b.line[l]) /\ n \in b.line[l].ends
           gone == [NoLine EXCEPT !.status = "purged"]
<1>1. \A m \in Notes : b.note[m] \in NoteRow
  BY BoardIsTyped DEF Sound
<1>2. \A l \in Lines : b.line[l] \in LineRow
  BY BoardIsTyped DEF Sound
<1>3. /\ row = [f \in NoteFields |-> row[f]]
      /\ row.status = "held" /\ row.section = NoSection /\ row.held_from = b.note[n].section
      /\ row.text = b.note[n].text /\ row.assignee = b.note[n].assignee
      /\ row.deleted = b.note[n].deleted /\ row.version = b.note[n].version + 1
  <2>1. b.note[n] \in NoteRow
    BY <1>1
  <2> QED
    BY <2>1 DEF NoteRow, NoteFields
<1>4. row \in NoteRow /\ b.note[n].version < row.version
  <2> HIDE DEF row
  <2>1. NoSection \in Places
    BY DEF Places
  <2>2. b.note[n].version + 1 \in Nat /\ b.note[n].version < b.note[n].version + 1
    BY <1>1, NoteIsTyped
  <2> QED
    BY <1>1, <1>3, <2>1, <2>2, IsNote, NoteIsTyped
<1>5. gone \in LineRow /\ ~Exists(gone) /\ gone.status = "purged"
  BY DEF NoLine, LineRow, Exists, Ages
<1>6. /\ c \in Board /\ c.note = [b.note EXCEPT ![n] = row]
      /\ c.line = [l \in Lines |-> IF cut(l) THEN gone ELSE b.line[l]]
  <2>1. [b.note EXCEPT ![n] = row] \in [Notes -> NoteRow]
    <3> HIDE DEF row
    <3> QED
      BY <1>4, BoardIsTyped DEF Sound
  <2>2. [l \in Lines |-> IF cut(l) THEN gone ELSE b.line[l]] \in [Lines -> LineRow]
    <3> HIDE DEF cut, gone
    <3> QED
      BY <1>2, <1>5
  <2>3. c = [note |-> [b.note EXCEPT ![n] = row],
             line |-> [l \in Lines |-> IF cut(l) THEN gone ELSE b.line[l]]]
    BY DEF Held
  <2> HIDE DEF row, cut, gone, c
  <2> QED
    BY <2>1, <2>2, <2>3, IsBoard
<1>7. OneLinePerPair(c)
  OBVIOUS
<1> HIDE DEF c, row, cut, gone
<1>8. /\ c.note[n] = row /\ \A m \in Notes \ {n} : c.note[m] = b.note[m]
      /\ \A l \in Lines : c.line[l] = IF cut(l) THEN gone ELSE b.line[l]
  BY <1>6, BoardIsTyped DEF Sound
<1>9. Live(c.note[n]) /\ Exists(c.note[n]) /\ Exists(b.note[n]) /\ NoteIsSound(c.note[n])
  BY <1>3, <1>8 DEF Live, Exists, NoteIsSound
<1>10. \A m \in Notes : /\ Exists(c.note[m]) => NoteIsSound(c.note[m])
                        /\ c.note[m].status = "absent" => c.note[m].version = 0
  BY <1>8, <1>9 DEF Sound, Exists
<1>11. \A l \in Lines :
         /\ Exists(c.line[l]) => Cardinality(c.line[l].ends) = 2
         /\ Live(c.line[l]) => \A m \in c.line[l].ends : Live(c.note[m])
         /\ c.line[l].status = "absent" => c.line[l].version = 0
  <2> TAKE l \in Lines
  <2>1. CASE cut(l)
    BY <1>5, <1>8, <2>1 DEF Live
  <2>2. CASE ~cut(l)
    <3>1. c.line[l] = b.line[l]
      BY <1>8, <2>2
    <3>2. ASSUME Live(c.line[l]), NEW m \in c.line[l].ends PROVE Live(c.note[m])
      <4>1. m \in Notes /\ Live(b.note[m])
        BY <1>2, <3>1, <3>2, LineIsTyped DEF Sound
      <4> QED
        BY <1>8, <1>9, <4>1
    <3> QED
      BY <3>1, <3>2 DEF Sound
  <2> QED
    BY <2>1, <2>2
<1>12. Touched(b, c, {n}, {}) /\ Follows(b, c)
  BY <1>4, <1>5, <1>8, <1>9 DEF Touched, Follows, RowFollows, RowIsTouched, Exists
<1>13. c \in Board
  BY <1>6
<1> QED
  BY <1>3, <1>7, <1>8, <1>9, <1>10, <1>11, <1>12, <1>13 DEF Sound, c
-----------------------------------------------------------------------------
(* The invariant.                                                          *)
OnOneNote == {"node_created", "node_deleted", "node_restored", "node_status_updated"}
OnOneLine == {"connection_created", "connection_deleted"}

LEMMA OthersAreOthers ==
  /\ Reversible \cap Markers = {} /\ Reversible \cap Others = {} /\ Markers \cap Others = {}
  /\ Others \cap (Edits \cup OnOneNote \cup OnOneLine) = {}
  BY DEF Reversible, Markers, Others, Edits, OnOneNote, OnOneLine

(* What an operation makes of a note and of a line.                        *)
NoteOperation(action, r, s) ==
    /\ action = "node_created" => ~Exists(r) /\ Live(s)
    /\ action = "node_deleted" => Values(r) = Values(s) /\ Live(r) /\ Exists(s) /\ ~Live(s)
    /\ action = "node_restored" => Values(r) = Values(s) /\ Exists(r) /\ ~Live(r) /\ Live(s)
    /\ action \in Edits =>
         /\ Live(r) /\ Live(s)
         /\ \A f \in NoteFields \ (Fields(action) \cup {"version"}) : r[f] = s[f]
    /\ action = "node_status_updated" /\ s.status = "held" =>
         s.section = NoSection /\ s.held_from = r.section
LineOperation(action, r, s) ==
    /\ action = "connection_created" => ~Exists(r) /\ Live(s)
    /\ action = "connection_deleted" => Values(r) = Values(s) /\ Live(r) /\ Exists(s) /\ ~Live(s)

OperationIsSound(e) ==
    /\ e.of = 0
    /\ e.action \in Edits \cup OnOneNote \cup OnOneLine \cup Others
    /\ e.action \in Others => e.notes = {}
    /\ e.action \in OnOneNote => \E n \in Notes : e.notes = {n}
    /\ e.action \in OnOneLine => e.notes = {} /\ \E l \in Lines : e.lines = {l}
    /\ e.action \notin OnOneLine => e.lines = {}
    /\ \A n \in e.notes : NoteOperation(e.action, e.before.note[n], e.after.note[n])
    /\ \A l \in e.lines : LineOperation(e.action, e.before.line[l], e.after.line[l])

(* A row of an operation once that is undone, and redone.                  *)
IsUndone(row, r, s) ==
    Exists(row) /\ IF Exists(r) THEN SameRow(row, r) ELSE ~Live(row) /\ Values(row) = Values(s)
IsRedone(row, s) == Exists(row) /\ SameRow(row, s)

RowsAreUndone(e, b) ==
    /\ \A n \in e.notes : IsUndone(b.note[n], e.before.note[n], e.after.note[n])
    /\ \A l \in e.lines : IsUndone(b.line[l], e.before.line[l], e.after.line[l])
RowsAreRedone(e, b) ==
    /\ \A n \in e.notes : IsRedone(b.note[n], e.after.note[n])
    /\ \A l \in e.lines : IsRedone(b.line[l], e.after.line[l])

(* A marker e in place k names an earlier operation, which it undoes or    *)
(* redoes exactly.                                                         *)
MarkerIsSound(k, e) ==
    /\ e.of \in 1..(k - 1)
    /\ log[e.of].action \notin Markers /\ log[e.of].actor = e.actor
    /\ log[e.of].notes = e.notes /\ log[e.of].lines = e.lines
    /\ e.action = "operation_undone" => RowsAreUndone(log[e.of], e.after)
    /\ e.action = "operation_redone" => RowsAreRedone(log[e.of], e.after)

EntryIsSound(k, e) ==
    /\ Sound(e.before) /\ Sound(e.after)
    /\ IF e.action \in Markers THEN MarkerIsSound(k, e) ELSE OperationIsSound(e)

LogIsSound == \A k \in DOMAIN log : EntryIsSound(k, log[k])

(* The rows on the board are never older than those in the log.            *)
RowIsNewest(r, s) == r.status # "purged" => s.version <= r.version
RowsAreNewest == \A k \in DOMAIN log :
    /\ \A n \in Notes : RowIsNewest(board.note[n], log[k].after.note[n])
    /\ \A l \in Lines : RowIsNewest(board.line[l], log[k].after.line[l])

(* An entry leaves its rows with versions that no entry before it had.     *)
NewerIn(e, old) ==
    /\ \A n \in e.notes : old.note[n].version < e.after.note[n].version
    /\ \A l \in e.lines : old.line[l].version < e.after.line[l].version
LogIsNewer == \A k \in DOMAIN log : \A j \in 1..(k - 1) : NewerIn(log[k], log[j].after)

BoardInv ==
    /\ log \in Seq(Entry) /\ Sound(board)
    /\ LogIsSound /\ RowsAreNewest /\ LogIsNewer /\ VersionIdentifiesRow

LEMMA InvariantGivesTypes == BoardInv => TypeOK /\ LiveLinesJoinLiveNotes
<1> SUFFICES ASSUME BoardInv PROVE TypeOK /\ LiveLinesJoinLiveNotes
  OBVIOUS
<1>1. \A i \in DOMAIN log : log[i] \in Entry
  BY DEF BoardInv
<1> QED
  BY <1>1 DEF BoardInv, Sound, TypeOK, LiveLinesJoinLiveNotes, NoteIsSound

LEMMA InvariantAtFirst == Init => BoardInv
<1> SUFFICES ASSUME Init PROVE BoardInv
  OBVIOUS
<1>1. log = <<>>
  BY DEF Init
<1>2. log \in Seq(Entry) /\ LogIsSound /\ RowsAreNewest /\ LogIsNewer /\ VersionIdentifiesRow
  BY <1>1 DEF LogIsSound, RowsAreNewest, LogIsNewer, VersionIdentifiesRow
<1>3. PICK text \in Texts, line \in [Lines -> {NoLine} \cup {NewLine(e) : e \in kSubset(2, Notes)}] :
       \E note \in [Notes -> {NoNote} \cup {NewNote(NoOne, s, text) : s \in Places}
                               \cup {[NewNote(NoOne, NoSection, text) EXCEPT
                                        !.status = "held", !.held_from = s] : s \in Places}] :
         /\ board = [note |-> note, line |-> line]
         /\ OneLinePerPair(board)
         /\ \A l \in Lines : \A n \in line[l].ends : Exists(note[n])
  BY DEF Init
<1> DEFINE First == {NoNote} \cup {NewNote(NoOne, s, text) : s \in Places}
                      \cup {[NewNote(NoOne, NoSection, text) EXCEPT
                                 !.status = "held", !.held_from = s] : s \in Places}
<1>9. PICK note \in [Notes -> First] :
         /\ board = [note |-> note, line |-> line]
         /\ OneLinePerPair(board)
         /\ \A l \in Lines : \A n \in line[l].ends : Exists(note[n])
  BY <1>3
<1>4. \A n \in Notes :
         /\ note[n] \in NoteRow /\ note[n].deleted = "no"
         /\ Exists(note[n]) => NoteIsSound(note[n])
         /\ note[n].status = "absent" => note[n].version = 0
  <2> TAKE n \in Notes
  <2>1. \/ note[n] = NoNote
        \/ \E s \in Places : note[n] = NewNote(NoOne, s, text)
        \/ \E s \in Places : note[n] = [NewNote(NoOne, NoSection, text) EXCEPT
                                            !.status = "held", !.held_from = s]
    <3>1. note[n] \in First
      BY <1>9
    <3> QED
      BY <3>1
  <2> HIDE DEF First
  <2>2. CASE note[n] = NoNote
    BY <2>2, NoNoteIsTyped
  <2>3. CASE \E s \in Places : note[n] = NewNote(NoOne, s, text)
    <3>1. NoOne \in Assignees
      BY DEF Assignees
    <3>2. PICK s \in Places : note[n] = NewNote(NoOne, s, text)
      BY <2>3
    <3> QED
      BY <3>1, <3>2, NewNoteIsSound DEF Live
  <2>4. CASE \E s \in Places : note[n] = [NewNote(NoOne, NoSection, text) EXCEPT
                                              !.status = "held", !.held_from = s]
    <3>1. PICK s \in Places : note[n] = [NewNote(NoOne, NoSection, text) EXCEPT
                                             !.status = "held", !.held_from = s]
      BY <2>4
    <3> DEFINE x == [NewNote(NoOne, NoSection, text) EXCEPT !.status = "held", !.held_from = s]
    <3>2. x \in NoteRow /\ x.deleted = "no" /\ NoteIsSound(x) /\ x.status # "absent"
      BY FirstHeldIsSound
    <3>3. note[n] = x
      BY <3>1
    <3> HIDE DEF x
    <3> QED
      BY <3>2, <3>3
  <2> QED
    BY <2>1, <2>2, <2>3, <2>4
<1> HIDE DEF First
<1>5. \A l \in Lines :
         /\ line[l] \in LineRow
         /\ Exists(line[l]) => Cardinality(line[l].ends) = 2
         /\ line[l].status = "absent" => line[l].version = 0
  <2> TAKE l \in Lines
  <2>1. line[l] = NoLine \/ \E e \in kSubset(2, Notes) : line[l] = NewLine(e)
    OBVIOUS
  <2>2. CASE line[l] = NoLine
    BY <2>2, NoLineIsTyped
  <2>3. CASE \E e \in kSubset(2, Notes) : line[l] = NewLine(e)
    BY <2>3, NewLineIsTyped
  <2> QED
    BY <2>1, <2>2, <2>3
<1>6. board \in Board /\ board.note = note /\ board.line = line
  <2>1. note \in [Notes -> NoteRow] /\ line \in [Lines -> LineRow]
    BY <1>4, <1>5, <1>9
  <2> QED
    BY <1>9, <2>1, IsBoard
<1>7. \A l \in Lines : \A n \in line[l].ends : Live(note[n])
  BY <1>4, <1>5, <1>9, LineIsTyped DEF Live
<1>8. Sound(board)
  BY <1>4, <1>5, <1>6, <1>7, <1>9 DEF Sound
<1> QED
  BY <1>2, <1>8 DEF BoardInv
-----------------------------------------------------------------------------
(* The log.                                                                *)

LEMMA RowStaysNewest ==
  ASSUME NEW r, NEW s, NEW old,
         r.version \in Nat, s.version \in Nat, old.version \in Nat,
         RowIsNewest(r, old), RowFollows(r, s)
  PROVE  RowIsNewest(s, old)
  BY DEF RowIsNewest, RowFollows, Exists

LEMMA RowStaysIdentified ==
  ASSUME NEW r, NEW s, NEW old,
         r.version \in Nat, s.version \in Nat, old.version \in Nat,
         RowIsNewest(r, old), RowFollows(r, s),
         Exists(r) /\ r.version = old.version => SameRow(r, old),
         Exists(s), s.version = old.version
  PROVE  SameRow(s, old)
<1>1. CASE s.status = "purged"
  BY <1>1 DEF Exists
<1>2. CASE s = r
  BY <1>2
<1>3. CASE r.status # "purged" /\ Exists(s) /\ r.version < s.version
  BY <1>3 DEF RowIsNewest
<1>4. CASE Exists(r) /\ Exists(s) /\ r.version = s.version /\ SameRow(r, s)
  BY <1>4 DEF SameRow
<1> QED
  BY <1>1, <1>2, <1>3, <1>4 DEF RowFollows

(* A step that changes no row but as Follows says, with or without an      *)
(* entry in the log.                                                       *)
LEMMA BoardMovesOn ==
  ASSUME BoardInv, Sound(board'), Follows(board, board'), log' = log
  PROVE  BoardInv'
<1>1. /\ \A n \in Notes : board.note[n] \in NoteRow /\ board'.note[n] \in NoteRow
      /\ \A l \in Lines : board.line[l] \in LineRow /\ board'.line[l] \in LineRow
  BY BoardIsTyped DEF BoardInv, Sound
<1>2. \A k \in DOMAIN log : /\ \A n \in Notes : log[k].after.note[n] \in NoteRow
                            /\ \A l \in Lines : log[k].after.line[l] \in LineRow
  BY BoardIsTyped DEF BoardInv, Sound, LogIsSound, EntryIsSound
<1>3. RowsAreNewest'
  <2> SUFFICES ASSUME NEW k \in DOMAIN log
               PROVE  /\ \A n \in Notes : RowIsNewest(board'.note[n], log[k].after.note[n])
                      /\ \A l \in Lines : RowIsNewest(board'.line[l], log[k].after.line[l])
    BY DEF RowsAreNewest
  <2>1. ASSUME NEW n \in Notes PROVE RowIsNewest(board'.note[n], log[k].after.note[n])
    BY <1>1, <1>2, <2>1, NoteIsTyped, RowStaysNewest DEF BoardInv, RowsAreNewest, Follows
  <2>2. ASSUME NEW l \in Lines PROVE RowIsNewest(board'.line[l], log[k].after.line[l])
    BY <1>1, <1>2, <2>2, LineIsTyped, RowStaysNewest DEF BoardInv, RowsAreNewest, Follows
  <2> QED
    BY <2>1, <2>2
<1>4. VersionIdentifiesRow'
  <2> SUFFICES ASSUME NEW k \in DOMAIN log
               PROVE  LET then == log[k].after IN
                 /\ \A n \in Notes :
                      Exists(board'.note[n]) /\ board'.note[n].version = then.note[n].version
                            => SameRow(board'.note[n], then.note[n])
                 /\ \A l \in Lines :
                      Exists(board'.line[l]) /\ board'.line[l].version = then.line[l].version
                            => SameRow(board'.line[l], then.line[l])
    BY DEF VersionIdentifiesRow
  <2>1. ASSUME NEW n \in Notes, Exists(board'.note[n]),
               board'.note[n].version = log[k].after.note[n].version
        PROVE  SameRow(board'.note[n], log[k].after.note[n])
    <3>1. /\ board.note[n].version \in Nat /\ board'.note[n].version \in Nat
          /\ log[k].after.note[n].version \in Nat
      BY <1>1, <1>2, NoteIsTyped
    <3>2. /\ RowIsNewest(board.note[n], log[k].after.note[n])
          /\ RowFollows(board.note[n], board'.note[n])
          /\ Exists(board.note[n]) /\ board.note[n].version = log[k].after.note[n].version
                => SameRow(board.note[n], log[k].after.note[n])
      BY DEF BoardInv, RowsAreNewest, Follows, VersionIdentifiesRow
    <3> QED
      BY <2>1, <3>1, <3>2, RowStaysIdentified
  <2>2. ASSUME NEW l \in Lines, Exists(board'.line[l]),
               board'.line[l].version = log[k].after.line[l].version
        PROVE  SameRow(board'.line[l], log[k].after.line[l])
    <3>1. /\ board.line[l].version \in Nat /\ board'.line[l].version \in Nat
          /\ log[k].after.line[l].version \in Nat
      BY <1>1, <1>2, LineIsTyped
    <3>2. /\ RowIsNewest(board.line[l], log[k].after.line[l])
          /\ RowFollows(board.line[l], board'.line[l])
          /\ Exists(board.line[l]) /\ board.line[l].version = log[k].after.line[l].version
                => SameRow(board.line[l], log[k].after.line[l])
      BY DEF BoardInv, RowsAreNewest, Follows, VersionIdentifiesRow
    <3> QED
      BY <2>2, <3>1, <3>2, RowStaysIdentified
  <2> QED
    BY <2>1, <2>2
<1>5. LogIsSound' /\ LogIsNewer'
  BY DEF BoardInv, LogIsSound, LogIsNewer, EntryIsSound, MarkerIsSound
<1> QED
  BY <1>3, <1>4, <1>5 DEF BoardInv

LEMMA LogGrows ==
  ASSUME BoardInv, Sound(board'), Follows(board, board'),
         NEW e \in Entry, log' = Append(log, e), e.before = board, e.after = board',
         Touched(board, board', e.notes, e.lines),
         IF e.action \in Markers THEN MarkerIsSound(Len(log) + 1, e) ELSE OperationIsSound(e)
  PROVE  BoardInv'
<1> DEFINE k == Len(log) + 1
<1>1. /\ log' \in Seq(Entry) /\ DOMAIN log = 1..Len(log) /\ Len(log) \in Nat
      /\ DOMAIN log' = 1..k /\ log'[k] = e /\ \A i \in DOMAIN log : log'[i] = log[i]
  BY DEF BoardInv
<1>2. /\ \A n \in Notes : board.note[n] \in NoteRow /\ board'.note[n] \in NoteRow
      /\ \A l \in Lines : board.line[l] \in LineRow /\ board'.line[l] \in LineRow
  BY BoardIsTyped DEF BoardInv, Sound
<1>3. \A i \in DOMAIN log : /\ \A n \in Notes : log[i].after.note[n] \in NoteRow
                            /\ \A l \in Lines : log[i].after.line[l] \in LineRow
  BY BoardIsTyped DEF BoardInv, Sound, LogIsSound, EntryIsSound
<1>4. /\ \A i \in DOMAIN log : \A n \in Notes :
           /\ RowIsNewest(board'.note[n], log[i].after.note[n])
           /\ Exists(board'.note[n]) /\ board'.note[n].version = log[i].after.note[n].version
                => SameRow(board'.note[n], log[i].after.note[n])
      /\ \A i \in DOMAIN log : \A l \in Lines :
           /\ RowIsNewest(board'.line[l], log[i].after.line[l])
           /\ Exists(board'.line[l]) /\ board'.line[l].version = log[i].after.line[l].version
                => SameRow(board'.line[l], log[i].after.line[l])
  <2>1. ASSUME NEW i \in DOMAIN log, NEW n \in Notes
        PROVE  /\ RowIsNewest(board'.note[n], log[i].after.note[n])
               /\ Exists(board'.note[n]) /\ board'.note[n].version = log[i].after.note[n].version
                    => SameRow(board'.note[n], log[i].after.note[n])
    <3>1. /\ board.note[n].version \in Nat /\ board'.note[n].version \in Nat
          /\ log[i].after.note[n].version \in Nat
      BY <1>2, <1>3, NoteIsTyped
    <3>2. /\ RowIsNewest(board.note[n], log[i].after.note[n])
          /\ RowFollows(board.note[n], board'.note[n])
          /\ Exists(board.note[n]) /\ board.note[n].version = log[i].after.note[n].version
                => SameRow(board.note[n], log[i].after.note[n])
      BY DEF BoardInv, RowsAreNewest, Follows, VersionIdentifiesRow
    <3> QED
      BY <3>1, <3>2, RowStaysIdentified, RowStaysNewest
  <2>2. ASSUME NEW i \in DOMAIN log, NEW l \in Lines
        PROVE  /\ RowIsNewest(board'.line[l], log[i].after.line[l])
               /\ Exists(board'.line[l]) /\ board'.line[l].version = log[i].after.line[l].version
                    => SameRow(board'.line[l], log[i].after.line[l])
    <3>1. /\ board.line[l].version \in Nat /\ board'.line[l].version \in Nat
          /\ log[i].after.line[l].version \in Nat
      BY <1>2, <1>3, LineIsTyped
    <3>2. /\ RowIsNewest(board.line[l], log[i].after.line[l])
          /\ RowFollows(board.line[l], board'.line[l])
          /\ Exists(board.line[l]) /\ board.line[l].version = log[i].after.line[l].version
                => SameRow(board.line[l], log[i].after.line[l])
      BY DEF BoardInv, RowsAreNewest, Follows, VersionIdentifiesRow
    <3> QED
      BY <3>1, <3>2, RowStaysIdentified, RowStaysNewest
  <2> QED
    BY <2>1, <2>2
<1>5. RowsAreNewest'
  <2>1. /\ \A n \in Notes : RowIsNewest(board'.note[n], e.after.note[n])
        /\ \A l \in Lines : RowIsNewest(board'.line[l], e.after.line[l])
    BY <1>2, NoteIsTyped, LineIsTyped DEF RowIsNewest
  <2> QED
    BY <1>1, <1>4, <2>1 DEF RowsAreNewest
<1>6. VersionIdentifiesRow'
  <2>1. /\ \A n \in Notes : SameRow(board'.note[n], e.after.note[n])
        /\ \A l \in Lines : SameRow(board'.line[l], e.after.line[l])
    BY DEF SameRow
  <2> QED
    BY <1>1, <1>4, <2>1 DEF VersionIdentifiesRow
<1>7. LogIsNewer'
  <2> SUFFICES ASSUME NEW i \in DOMAIN log', NEW j \in 1..(i - 1)
               PROVE  NewerIn(log'[i], log'[j].after)
    BY DEF LogIsNewer
  <2>1. CASE i \in DOMAIN log
    <3>1. j \in DOMAIN log
      BY <1>1, <2>1
    <3> QED
      BY <1>1, <2>1, <3>1 DEF BoardInv, LogIsNewer
  <2>2. CASE i = k
    <3>1. j \in DOMAIN log /\ log'[i] = e /\ log'[j] = log[j]
      BY <1>1, <2>2
    <3>2. ASSUME NEW n \in e.notes
          PROVE  log[j].after.note[n].version < e.after.note[n].version
      <4>1. n \in Notes
        BY DEF Entry
      <4>2. /\ log[j].after.note[n].version \in Nat /\ board.note[n].version \in Nat
            /\ board'.note[n].version \in Nat
        BY <1>2, <1>3, <3>1, <4>1, NoteIsTyped
      <4>3. log[j].after.note[n].version <= board.note[n].version
        BY <3>1, <4>1 DEF BoardInv, RowsAreNewest, RowIsNewest, Touched, RowIsTouched
      <4> QED
        BY <4>2, <4>3 DEF Touched, RowIsTouched
    <3>3. ASSUME NEW l \in e.lines
          PROVE  log[j].after.line[l].version < e.after.line[l].version
      <4>1. l \in Lines
        BY DEF Entry
      <4>2. /\ log[j].after.line[l].version \in Nat /\ board.line[l].version \in Nat
            /\ board'.line[l].version \in Nat
        BY <1>2, <1>3, <3>1, <4>1, LineIsTyped
      <4>3. log[j].after.line[l].version <= board.line[l].version
        BY <3>1, <4>1 DEF BoardInv, RowsAreNewest, RowIsNewest, Touched, RowIsTouched
      <4> QED
        BY <4>2, <4>3 DEF Touched, RowIsTouched
    <3> QED
      BY <3>1, <3>2, <3>3 DEF NewerIn
  <2> QED
    BY <1>1, <2>1, <2>2
<1>8. LogIsSound'
  <2> SUFFICES ASSUME NEW i \in DOMAIN log'
               PROVE  EntryIsSound(i, log[i])'
    BY DEF LogIsSound
  <2>1. CASE i \in DOMAIN log
    <3>1. log'[i] = log[i] /\ EntryIsSound(i, log[i])
      BY <1>1, <2>1 DEF BoardInv, LogIsSound
    <3>2. MarkerIsSound(i, log[i]) => MarkerIsSound(i, log[i])'
      <4> SUFFICES ASSUME MarkerIsSound(i, log[i]) PROVE MarkerIsSound(i, log[i])'
        OBVIOUS
      <4>1. log[i].of \in DOMAIN log
        BY <1>1, <2>1 DEF MarkerIsSound
      <4>2. log'[log'[i].of] = log[log[i].of]
        BY <1>1, <3>1, <4>1
      <4> QED
        BY <3>1, <4>2 DEF MarkerIsSound
    <3> QED
      BY <3>1, <3>2 DEF EntryIsSound
  <2>2. CASE i = k
    <3>1. log'[i] = e /\ Sound(e.before) /\ Sound(e.after)
      BY <1>1, <2>2 DEF BoardInv
    <3>2. MarkerIsSound(k, e) => MarkerIsSound(i, log[i])'
      <4> SUFFICES ASSUME MarkerIsSound(k, e) PROVE MarkerIsSound(i, log[i])'
        OBVIOUS
      <4>1. e.of \in DOMAIN log
        BY <1>1 DEF MarkerIsSound
      <4>2. log'[log'[i].of] = log[e.of]
        BY <1>1, <3>1, <4>1
      <4> QED
        BY <2>2, <3>1, <4>2 DEF MarkerIsSound
    <3> QED
      BY <3>1, <3>2 DEF EntryIsSound
  <2> QED
    BY <1>1, <2>1, <2>2
<1> QED
  BY <1>1, <1>5, <1>6, <1>7, <1>8 DEF BoardInv
-----------------------------------------------------------------------------
(* The requests.                                                           *)
NewEntry(u, action, notes, lines, of, c) ==
    [actor |-> u, action |-> action, notes |-> notes, lines |-> lines,
     of |-> of, before |-> board, after |-> c]

LEMMA NewEntryIs ==
  ASSUME board \in Board, NEW u \in Users, NEW action \in Actions, NEW notes \in SUBSET Notes,
         NEW lines \in SUBSET Lines, NEW of \in Nat, NEW c \in Board
  PROVE  LET e == NewEntry(u, action, notes, lines, of, c) IN
         /\ e \in Entry
         /\ e.actor = u /\ e.action = action /\ e.notes = notes /\ e.lines = lines
         /\ e.of = of /\ e.before = board /\ e.after = c
  BY DEF NewEntry, Entry

LEMMA CommitKeeps ==
  ASSUME BoardInv, NEW u \in Users, NEW action \in Actions, NEW notes \in SUBSET Notes,
         NEW lines \in SUBSET Lines, NEW c,
         Commit(u, action, notes, lines, 0, c), Sound(c), Follows(board, c),
         Touched(board, c, notes, lines), action \notin Markers,
         OperationIsSound(NewEntry(u, action, notes, lines, 0, c))
  PROVE  BoardInv'
<1> DEFINE e == NewEntry(u, action, notes, lines, 0, c)
<1>1. board' = c /\ log' = Append(log, e)
  BY DEF Commit, Record, NewEntry
<1>2. e \in Entry /\ e.action = action /\ e.notes = notes /\ e.lines = lines
      /\ e.before = board /\ e.after = c
  BY NewEntryIs DEF BoardInv, Sound
<1> HIDE DEF e
<1>3. Sound(board')
  BY <1>1
<1>4. Follows(board, board') /\ Touched(board, board', e.notes, e.lines)
  BY <1>1, <1>2
<1>5. OperationIsSound(e) /\ e.action \notin Markers
  BY <1>2 DEF e
<1> QED
  BY <1>1, <1>2, <1>3, <1>4, <1>5, LogGrows

LEMMA EditKeeps ==
  ASSUME BoardInv, NEW u \in Users, NEW action \in Edits, NEW notes \in SUBSET Notes,
         NEW c \in Board, c.line = board.line,
         \A n \in Notes \ notes : c.note[n] = board.note[n],
         \A n \in notes :
            /\ Live(board.note[n]) /\ Live(c.note[n]) /\ NoteIsSound(c.note[n])
            /\ board.note[n].version < c.note[n].version
            /\ NoteOperation(action, board.note[n], c.note[n]),
         action = "node_status_updated" => \E n \in Notes : notes = {n},
         Commit(u, action, notes, {}, 0, c)
  PROVE  BoardInv'
<1>1. Sound(c) /\ Follows(board, c) /\ Touched(board, c, notes, {})
  BY NotesAreWritten DEF BoardInv
<1>2. action \in Actions /\ action \notin Markers
  <2>1. Edits \cap Markers = {}
    BY DEF Edits, Markers
  <2> QED
    BY <2>1 DEF Reversible, Actions
<1>3. OperationIsSound(NewEntry(u, action, notes, {}, 0, c))
  <2>1. /\ action \in OnOneNote => action = "node_status_updated"
        /\ action \notin OnOneLine /\ action \notin Others
    BY OthersAreOthers DEF Edits, OnOneNote, OnOneLine
  <2> HIDE DEF NewEntry
  <2>2. LET e == NewEntry(u, action, notes, {}, 0, c) IN
         /\ e.action = action /\ e.notes = notes /\ e.lines = {}
         /\ e.of = 0 /\ e.before = board /\ e.after = c
    BY <1>2, NewEntryIs DEF BoardInv, Sound
  <2> QED
    BY <2>1, <2>2 DEF OperationIsSound
<1> QED
  BY <1>1, <1>2, <1>3, CommitKeeps

LEMMA NoteFieldwise ==
  ASSUME NEW r, NEW s, NEW F,
         "status" \in F \/ r.status = s.status, "section" \in F \/ r.section = s.section,
         "held_from" \in F \/ r.held_from = s.held_from, "text" \in F \/ r.text = s.text,
         "assignee" \in F \/ r.assignee = s.assignee, r.deleted = s.deleted
  PROVE  \A f \in NoteFields \ (F \cup {"version"}) : r[f] = s[f]
<1> SUFFICES ASSUME NEW f \in NoteFields, f \notin F, f # "version" PROVE r[f] = s[f]
  OBVIOUS
<1> QED
  BY DEF NoteFields

LEMMA NoteIsPut ==
  ASSUME NEW b \in Board, NEW n \in Notes, NEW x \in NoteRow
  PROVE  LET c == [b EXCEPT !.note[n] = x] IN
         /\ c \in Board /\ c.line = b.line /\ c.note[n] = x
         /\ \A m \in Notes \ {n} : c.note[m] = b.note[m]
  BY DEF Board

LEMMA NotesArePut ==
  ASSUME NEW b \in Board, NEW notes \in SUBSET Notes, NEW f \in [Notes -> NoteRow]
  PROVE  LET c == [b EXCEPT !.note = [n \in Notes |-> IF n \in notes THEN f[n] ELSE b.note[n]]] IN
         /\ c \in Board /\ c.line = b.line
         /\ \A n \in notes : c.note[n] = f[n]
         /\ \A m \in Notes \ notes : c.note[m] = b.note[m]
  BY DEF Board

LEMMA UpdateContentKeeps ==
  ASSUME BoardInv, NEW u \in Users, NEW n \in Notes, UpdateContent(u, n)
  PROVE  BoardInv'
<1> DEFINE r == board.note[n]
<1>1. PICK t \in Texts :
        /\ Live(r)
        /\ Commit(u, "node_content_updated", {n}, {}, 0,
              [board EXCEPT !.note[n] = [r EXCEPT !.text = t, !.version = @ + 1]])
  BY DEF UpdateContent
<1> DEFINE x == [r EXCEPT !.text = t, !.version = @ + 1]
           c == [board EXCEPT !.note[n] = x]
<1>2. board \in Board /\ r \in NoteRow /\ r.version + 1 \in Nat /\ r.version < r.version + 1
  BY BoardIsTyped, NoteIsTyped DEF BoardInv, Sound
<1> HIDE DEF r
<1>3. /\ x = [f \in NoteFields |-> x[f]]
      /\ x.status = r.status /\ x.section = r.section /\ x.held_from = r.held_from
      /\ x.text = t /\ x.assignee = r.assignee /\ x.deleted = r.deleted
      /\ x.version = r.version + 1
  BY <1>2 DEF NoteRow, NoteFields
<1>4. Commit(u, "node_content_updated", {n}, {}, 0, c)
  BY <1>1
<1> HIDE DEF x
<1>5. x \in NoteRow
  BY <1>2, <1>3, NoteIsTyped, IsNote
<1>6. Live(x) /\ NoteIsSound(x) /\ r.version < x.version
  <2>1. NoteIsSound(r)
    BY <1>1 DEF BoardInv, Sound, Live, r
  <2> QED
    BY <1>1, <1>2, <1>3, <2>1 DEF Live, Exists, NoteIsSound
<1>7. NoteOperation("node_content_updated", r, x)
  <2>1. Fields("node_content_updated") = {"text"}
    BY DEF Fields
  <2>2. \A f \in NoteFields \ (Fields("node_content_updated") \cup {"version"}) : r[f] = x[f]
    BY <1>3, <2>1, NoteFieldwise
  <2> QED
    BY <1>1, <1>6, <2>2 DEF NoteOperation
<1>8. /\ c \in Board /\ c.line = board.line /\ c.note[n] = x
      /\ \A m \in Notes \ {n} : c.note[m] = board.note[m]
  BY <1>2, <1>5, NoteIsPut
<1> HIDE DEF c
<1> QED
  BY <1>1, <1>4, <1>6, <1>7, <1>8, EditKeeps DEF Edits, r

LEMMA AssignKeeps ==
  ASSUME BoardInv, NEW u \in Users, NEW n \in Notes, Assign(u, n)
  PROVE  BoardInv'
<1> DEFINE r == board.note[n]
<1>1. PICK a \in Assignees :
        /\ Live(r)
        /\ Commit(u, "node_assignee_updated", {n}, {}, 0,
              [board EXCEPT !.note[n] = [r EXCEPT !.assignee = a, !.version = @ + 1]])
  BY DEF Assign
<1> DEFINE x == [r EXCEPT !.assignee = a, !.version = @ + 1]
           c == [board EXCEPT !.note[n] = x]
<1>2. board \in Board /\ r \in NoteRow /\ r.version + 1 \in Nat /\ r.version < r.version + 1
  BY BoardIsTyped, NoteIsTyped DEF BoardInv, Sound
<1> HIDE DEF r
<1>3. /\ x = [f \in NoteFields |-> x[f]]
      /\ x.status = r.status /\ x.section = r.section /\ x.held_from = r.held_from
      /\ x.text = r.text /\ x.assignee = a /\ x.deleted = r.deleted
      /\ x.version = r.version + 1
  BY <1>2 DEF NoteRow, NoteFields
<1>4. Commit(u, "node_assignee_updated", {n}, {}, 0, c)
  BY <1>1
<1> HIDE DEF x
<1>5. x \in NoteRow
  BY <1>2, <1>3, NoteIsTyped, IsNote
<1>6. Live(x) /\ NoteIsSound(x) /\ r.version < x.version
  <2>1. NoteIsSound(r)
    BY <1>1 DEF BoardInv, Sound, Live, r
  <2> QED
    BY <1>1, <1>2, <1>3, <2>1 DEF Live, Exists, NoteIsSound
<1>7. NoteOperation("node_assignee_updated", r, x)
  <2>1. Fields("node_assignee_updated") = {"assignee"}
    BY DEF Fields
  <2>2. \A f \in NoteFields \ (Fields("node_assignee_updated") \cup {"version"}) : r[f] = x[f]
    BY <1>3, <2>1, NoteFieldwise
  <2> QED
    BY <1>1, <1>6, <2>2 DEF NoteOperation
<1>8. /\ c \in Board /\ c.line = board.line /\ c.note[n] = x
      /\ \A m \in Notes \ {n} : c.note[m] = board.note[m]
  BY <1>2, <1>5, NoteIsPut
<1> HIDE DEF c
<1> QED
  BY <1>1, <1>4, <1>6, <1>7, <1>8, EditKeeps DEF Edits, r

(* A note that is moved, whichever request moves it.                       *)
LEMMA MovedIsSound ==
  ASSUME NEW r \in NoteRow, NEW p \in Places, NEW action \in {"node_moved", "nodes_moved"},
         Live(r), r.status # "held", NoteIsSound(r)
  PROVE  LET s == Moved(r, p) IN
         /\ s \in NoteRow /\ Live(s) /\ NoteIsSound(s) /\ r.version < s.version
         /\ NoteOperation(action, r, s)
<1> DEFINE s == Moved(r, p)
<1>1. /\ s = [f \in NoteFields |-> s[f]]
      /\ s.status = StatusIn(p) /\ s.section = p /\ s.held_from = r.held_from
      /\ s.text = r.text /\ s.assignee = r.assignee /\ s.deleted = r.deleted
      /\ s.version = r.version + 1
  BY DEF Moved, NoteRow, NoteFields
<1> HIDE DEF s
<1>2. StatusIn(p) \in {"default", "accepted"} /\ (StatusIn(p) = "accepted" <=> p # NoSection)
  BY DEF StatusIn
<1>3. r.version + 1 \in Nat /\ r.version < r.version + 1
  BY NoteIsTyped
<1>4. s \in NoteRow
  BY <1>1, <1>2, <1>3, NoteIsTyped, IsNote
<1>5. Live(s) /\ NoteIsSound(s) /\ r.version < s.version
  BY <1>1, <1>2, <1>3 DEF Live, Exists, NoteIsSound
<1>6. NoteOperation(action, r, s)
  <2>1. \A f \in NoteFields \ (Fields(action) \cup {"version"}) : r[f] = s[f]
    <3>1. Fields(action) = {"section", "status"}
      BY DEF Fields
    <3> QED
      BY <1>1, <3>1, NoteFieldwise
  <2> QED
    BY <1>5, <2>1 DEF NoteOperation
<1> QED
  BY <1>4, <1>5, <1>6 DEF s

LEMMA MoveKeeps ==
  ASSUME BoardInv, NEW u \in Users, NEW n \in Notes, Move(u, n)
  PROVE  BoardInv'
<1>1. PICK p \in Places :
        /\ Movable(n)
        /\ Commit(u, "node_moved", {n}, {}, 0, [board EXCEPT !.note[n] = Moved(@, p)])
  BY DEF Move
<1> DEFINE x == Moved(board.note[n], p)
           c == [board EXCEPT !.note[n] = x]
<1>2. /\ board \in Board /\ board.note[n] \in NoteRow /\ Live(board.note[n])
      /\ board.note[n].status # "held" /\ NoteIsSound(board.note[n])
  BY <1>1, BoardIsTyped DEF BoardInv, Sound, Movable, Live
<1>3. /\ x \in NoteRow /\ Live(x) /\ NoteIsSound(x) /\ board.note[n].version < x.version
      /\ NoteOperation("node_moved", board.note[n], x)
  <2> HIDE DEF x
  <2> QED
    BY <1>2, MovedIsSound DEF x
<1>4. Commit(u, "node_moved", {n}, {}, 0, c)
  BY <1>1
<1> HIDE DEF x
<1>5. /\ c \in Board /\ c.line = board.line /\ c.note[n] = x
      /\ \A m \in Notes \ {n} : c.note[m] = board.note[m]
  BY <1>2, <1>3, NoteIsPut
<1> HIDE DEF c
<1> QED
  BY <1>2, <1>3, <1>4, <1>5, EditKeeps DEF Edits

LEMMA MoveManyKeeps ==
  ASSUME BoardInv, NEW u \in Users, MoveMany(u)
  PROVE  BoardInv'
<1>1. PICK notes \in SUBSET Notes, p \in Places :
        /\ \A n \in notes : Movable(n)
        /\ Commit(u, "nodes_moved", notes, {}, 0,
             [board EXCEPT !.note = [n \in Notes |-> IF n \in notes THEN Moved(board.note[n], p)
                                                     ELSE board.note[n]]])
  BY DEF MoveMany, WithNotes
<1> DEFINE f == [n \in Notes |-> IF n \in notes THEN Moved(board.note[n], p) ELSE board.note[n]]
           c == [board EXCEPT !.note = [n \in Notes |-> IF n \in notes THEN f[n] ELSE board.note[n]]]
<1>2. board \in Board /\ \A n \in Notes : board.note[n] \in NoteRow
  BY BoardIsTyped DEF BoardInv, Sound
<1>3. \A n \in notes : LET x == Moved(board.note[n], p) IN
        /\ x \in NoteRow /\ Live(board.note[n]) /\ Live(x) /\ NoteIsSound(x)
        /\ board.note[n].version < x.version /\ NoteOperation("nodes_moved", board.note[n], x)
  <2> TAKE n \in notes
  <2>1. Live(board.note[n]) /\ board.note[n].status # "held" /\ NoteIsSound(board.note[n])
    BY <1>1 DEF BoardInv, Sound, Movable, Live
  <2> QED
    BY <1>2, <2>1, MovedIsSound
<1>4. f \in [Notes -> NoteRow] /\ \A n \in notes : f[n] = Moved(board.note[n], p)
  BY <1>2, <1>3
<1>5. [n \in Notes |-> IF n \in notes THEN f[n] ELSE board.note[n]] = f
  OBVIOUS
<1>6. Commit(u, "nodes_moved", notes, {}, 0, c)
  BY <1>1, <1>5
<1> HIDE DEF f
<1>7. /\ c \in Board /\ c.line = board.line /\ \A n \in notes : c.note[n] = f[n]
      /\ \A m \in Notes \ notes : c.note[m] = board.note[m]
  BY <1>2, <1>4, NotesArePut
<1> HIDE DEF c
<1> QED
  BY <1>3, <1>4, <1>6, <1>7, EditKeeps DEF Edits

LEMMA AutoLayoutKeeps ==
  ASSUME BoardInv, NEW u \in Users, AutoLayout(u)
  PROVE  BoardInv'
<1> DEFINE notes == {n \in Notes : Movable(n)}
           f == [n \in Notes |-> IF n \in notes THEN [board.note[n] EXCEPT !.version = @ + 1]
                                 ELSE board.note[n]]
           c == [board EXCEPT !.note = [n \in Notes |-> IF n \in notes THEN f[n] ELSE board.note[n]]]
<1>1. Commit(u, "auto_layout_applied", notes, {}, 0, [board EXCEPT !.note = f])
  BY DEF AutoLayout, WithNotes
<1>2. board \in Board /\ \A n \in Notes : board.note[n] \in NoteRow
  BY BoardIsTyped DEF BoardInv, Sound
<1>3. \A n \in notes : LET x == [board.note[n] EXCEPT !.version = @ + 1] IN
        /\ x \in NoteRow /\ Live(board.note[n]) /\ Live(x) /\ NoteIsSound(x)
        /\ board.note[n].version < x.version
        /\ NoteOperation("auto_layout_applied", board.note[n], x)
  <2> TAKE n \in notes
  <2> DEFINE r == board.note[n]
             x == [r EXCEPT !.version = @ + 1]
  <2>1. r \in NoteRow /\ Live(r) /\ NoteIsSound(r) /\ r.version < r.version + 1
    BY <1>2, NoteIsTyped DEF BoardInv, Sound, Movable, Live
  <2>2. /\ x \in NoteRow
        /\ x.status = r.status /\ x.section = r.section /\ x.held_from = r.held_from
        /\ x.text = r.text /\ x.assignee = r.assignee /\ x.deleted = r.deleted
        /\ x.version = r.version + 1
    BY <2>1 DEF NoteRow
  <2> HIDE DEF x, r
  <2>3. Live(x) /\ NoteIsSound(x) /\ r.version < x.version
    BY <2>1, <2>2 DEF Live, Exists, NoteIsSound
  <2>4. NoteOperation("auto_layout_applied", r, x)
    <3>1. \A g \in NoteFields \ (Fields("auto_layout_applied") \cup {"version"}) : r[g] = x[g]
      BY <2>2, NoteFieldwise
    <3> QED
      BY <2>1, <2>3, <3>1 DEF NoteOperation
  <2> QED
    BY <2>1, <2>2, <2>3, <2>4 DEF x, r
<1>4. f \in [Notes -> NoteRow]
      /\ \A n \in notes : f[n] = [board.note[n] EXCEPT !.version = @ + 1]
  BY <1>2, <1>3
<1>5. [n \in Notes |-> IF n \in notes THEN f[n] ELSE board.note[n]] = f
  OBVIOUS
<1>6. Commit(u, "auto_layout_applied", notes, {}, 0, c)
  BY <1>1, <1>5
<1>7. notes \in SUBSET Notes
  OBVIOUS
<1> HIDE DEF f, notes
<1>8. /\ c \in Board /\ c.line = board.line /\ \A n \in notes : c.note[n] = f[n]
      /\ \A m \in Notes \ notes : c.note[m] = board.note[m]
  BY <1>2, <1>4, <1>7, NotesArePut
<1> HIDE DEF c
<1>9. \A n \in notes :
        /\ Live(board.note[n]) /\ Live(c.note[n]) /\ NoteIsSound(c.note[n])
        /\ board.note[n].version < c.note[n].version
        /\ NoteOperation("auto_layout_applied", board.note[n], c.note[n])
  <2> TAKE n \in notes
  <2>1. c.note[n] = [board.note[n] EXCEPT !.version = @ + 1]
    BY <1>4, <1>8
  <2> QED
    BY <1>3, <2>1
<1>10. "auto_layout_applied" \in Edits
  BY DEF Edits
<1> QED
  BY <1>6, <1>7, <1>8, <1>9, <1>10, EditKeeps

LEMMA ReleaseKeeps ==
  ASSUME BoardInv, NEW u \in Users, NEW n \in Notes, Release(u, n)
  PROVE  BoardInv'
<1> DEFINE r == board.note[n]
           x == Released(r)
           c == [board EXCEPT !.note[n] = x]
<1>1. Live(r) /\ r.status = "held" /\ Commit(u, "node_status_updated", {n}, {}, 0, c)
  BY DEF Release
<1>2. board \in Board /\ r \in NoteRow
  BY BoardIsTyped DEF BoardInv, Sound
<1>3. /\ x = [f \in NoteFields |-> x[f]]
      /\ x.status = StatusIn(r.held_from) /\ x.section = r.held_from /\ x.held_from = NoSection
      /\ x.text = r.text /\ x.assignee = r.assignee /\ x.deleted = r.deleted
      /\ x.version = r.version + 1
  BY <1>2 DEF Released, NoteRow, NoteFields
<1>4. /\ StatusIn(r.held_from) \in {"default", "accepted"} /\ NoSection \in Places
      /\ StatusIn(r.held_from) = "accepted" <=> r.held_from # NoSection
  BY DEF StatusIn, Places
<1>5. r.version + 1 \in Nat /\ r.version < r.version + 1
  BY <1>2, NoteIsTyped
<1> HIDE DEF x, r
<1>6. x \in NoteRow
  BY <1>2, <1>3, <1>4, <1>5, NoteIsTyped, IsNote
<1>7. Live(x) /\ NoteIsSound(x) /\ r.version < x.version
  BY <1>1, <1>3, <1>4, <1>5 DEF Live, Exists, NoteIsSound
<1>8. NoteOperation("node_status_updated", r, x)
  <2>1. \A f \in NoteFields \ (Fields("node_status_updated") \cup {"version"}) : r[f] = x[f]
    <3>1. Fields("node_status_updated") = {"section", "status", "held_from"}
      BY DEF Fields
    <3> QED
      BY <1>3, <3>1, NoteFieldwise
  <2>2. x.status # "held"
    BY <1>3, <1>4
  <2> QED
    BY <1>1, <1>7, <2>1, <2>2 DEF NoteOperation
<1>9. /\ c \in Board /\ c.line = board.line /\ c.note[n] = x
      /\ \A m \in Notes \ {n} : c.note[m] = board.note[m]
  BY <1>2, <1>6, NoteIsPut
<1> HIDE DEF c
<1> QED
  BY <1>1, <1>7, <1>8, <1>9, EditKeeps DEF Edits, r

(* An operation on one note.                                               *)
OperationOn(n, action, c) == NoteOperation(action, board.note[n], c.note[n])

LEMMA NoteOperationKeeps ==
  ASSUME BoardInv, NEW u \in Users, NEW action \in OnOneNote, NEW n \in Notes, NEW c,
         Commit(u, action, {n}, {}, 0, c), Sound(c), Follows(board, c),
         Touched(board, c, {n}, {}), OperationOn(n, action, c)
  PROVE  BoardInv'
<1>1. action \in Actions /\ action \notin Markers /\ action \notin OnOneLine
      /\ action \in Edits \cup OnOneNote \cup OnOneLine
  BY DEF OnOneNote, OnOneLine, Actions, Reversible, Edits, Markers
<1>2. OperationIsSound(NewEntry(u, action, {n}, {}, 0, c))
  <2> DEFINE e == NewEntry(u, action, {n}, {}, 0, c)
  <2>1. /\ e.action = action /\ e.notes = {n} /\ e.lines = {}
        /\ e.of = 0 /\ e.before = board /\ e.after = c
    BY DEF NewEntry
  <2> HIDE DEF e
  <2> QED
    BY <1>1, <2>1, OthersAreOthers DEF OperationIsSound, OperationOn, e
<1> QED
  BY <1>1, <1>2, CommitKeeps

LEMMA LineOperationKeeps ==
  ASSUME BoardInv, NEW u \in Users, NEW action \in OnOneLine, NEW l \in Lines, NEW c,
         Commit(u, action, {}, {l}, 0, c), Sound(c), Follows(board, c),
         Touched(board, c, {}, {l}), LineOperation(action, board.line[l], c.line[l])
  PROVE  BoardInv'
<1>1. action \in Actions /\ action \notin Markers /\ action \notin OnOneNote
      /\ action \in Edits \cup OnOneNote \cup OnOneLine
  BY DEF OnOneNote, OnOneLine, Actions, Reversible, Edits, Markers
<1>2. OperationIsSound(NewEntry(u, action, {}, {l}, 0, c))
  <2> DEFINE e == NewEntry(u, action, {}, {l}, 0, c)
  <2>1. /\ e.action = action /\ e.notes = {} /\ e.lines = {l}
        /\ e.of = 0 /\ e.before = board /\ e.after = c
    BY DEF NewEntry
  <2> HIDE DEF e
  <2> QED
    BY <1>1, <2>1 DEF OperationIsSound, e
<1> QED
  BY <1>1, <1>2, CommitKeeps

LEMMA LineIsPut ==
  ASSUME NEW b \in Board, NEW l \in Lines, NEW x \in LineRow
  PROVE  LET c == [b EXCEPT !.line[l] = x] IN
         /\ c \in Board /\ c.note = b.note /\ c.line[l] = x
         /\ \A m \in Lines \ {l} : c.line[m] = b.line[m]
  BY DEF Board

LineIsRemoved(l, c) ==
    /\ Sound(c) /\ Follows(board, c) /\ Touched(board, c, {}, {l})
    /\ Values(c.line[l]) = Values(board.line[l]) /\ Exists(c.line[l]) /\ ~Live(c.line[l])

LEMMA RemovedLineIsSound ==
  ASSUME BoardInv, NEW l \in Lines, Live(board.line[l]), NEW c,
         c = [board EXCEPT !.line[l] = SetDeleted(board.line[l], "recent")], OneLinePerPair(c)
  PROVE  LineIsRemoved(l, c)
<1> DEFINE r == board.line[l]
           x == SetDeleted(r, "recent")
<1>1. board \in Board /\ r \in LineRow /\ Exists(r) /\ Cardinality(r.ends) = 2
  BY BoardIsTyped DEF BoardInv, Sound, Live
<1>2. /\ x \in LineRow /\ r.version < x.version /\ x.status = r.status
      /\ x.deleted = "recent" /\ x.ends = r.ends /\ Values(x) = Values(r)
  BY <1>1, LineIsDeleted, AgesAre
<1> HIDE DEF x
<1>3. /\ c \in Board /\ c.note = board.note /\ c.line[l] = x
      /\ \A m \in Lines \ {l} : c.line[m] = board.line[m]
  BY <1>1, <1>2, LineIsPut DEF x
<1>4. Exists(x) /\ ~Live(x) /\ r.status # "purged"
  BY <1>1, <1>2 DEF Exists, Live
<1>5. Sound(c) /\ Follows(board, c) /\ Touched(board, c, {}, {l})
  BY <1>1, <1>2, <1>3, <1>4, LineIsWritten DEF BoardInv
<1> QED
  BY <1>2, <1>3, <1>4, <1>5 DEF LineIsRemoved

LEMMA HoldKeeps ==
  ASSUME BoardInv, NEW u \in Users, NEW n \in Notes, Hold(u, n)
  PROVE  BoardInv'
<1> DEFINE r == board.note[n]
           c == Held(board, n)
           x == c.note[n]
<1>1. Live(r) /\ Commit(u, "node_status_updated", {n}, {}, 0, c) /\ OneLinePerPair(c)
  BY DEF Hold, Movable, Commit
<1>2. /\ Sound(c) /\ Follows(board, c) /\ Touched(board, c, {n}, {})
      /\ x.status = "held" /\ x.section = NoSection /\ x.held_from = r.section
      /\ x.text = r.text /\ x.assignee = r.assignee /\ x.deleted = r.deleted /\ Live(x)
  BY <1>1, HeldIsSound DEF BoardInv
<1> HIDE DEF c, x, r
<1>3. NoteOperation("node_status_updated", r, x)
  <2>1. Fields("node_status_updated") = {"section", "status", "held_from"}
    BY DEF Fields
  <2>2. \A f \in NoteFields \ (Fields("node_status_updated") \cup {"version"}) : r[f] = x[f]
    BY <1>2, <2>1, NoteFieldwise
  <2> QED
    BY <1>1, <1>2, <2>2 DEF NoteOperation
<1>4. OperationOn(n, "node_status_updated", c)
  BY <1>3 DEF OperationOn, r, x
<1> QED
  BY <1>1, <1>2, <1>4, NoteOperationKeeps DEF OnOneNote

LEMMA DeleteNoteKeeps ==
  ASSUME BoardInv, NEW u \in Users, NEW n \in Notes, DeleteNote(u, n)
  PROVE  BoardInv'
<1> DEFINE c == SoftDeleted(board, n)
<1>1. Live(board.note[n]) /\ Commit(u, "node_deleted", {n}, {}, 0, c) /\ OneLinePerPair(c)
  BY DEF DeleteNote, Commit
<1>2. /\ Sound(c) /\ Follows(board, c) /\ Touched(board, c, {n}, {})
      /\ Values(c.note[n]) = Values(board.note[n]) /\ Exists(c.note[n]) /\ ~Live(c.note[n])
  BY <1>1, SoftDeletedIsSound DEF BoardInv
<1> HIDE DEF c
<1>3. OperationOn(n, "node_deleted", c)
  BY <1>1, <1>2 DEF OperationOn, NoteOperation, Edits
<1> QED
  BY <1>1, <1>2, <1>3, NoteOperationKeeps DEF OnOneNote

LEMMA RestoreNoteKeeps ==
  ASSUME BoardInv, NEW u \in Users, NEW n \in Notes, RestoreNote(u, n)
  PROVE  BoardInv'
<1> DEFINE c == Restored(board, n)
<1>1. Restorable(board.note[n]) /\ Commit(u, "node_restored", {n}, {}, 0, c) /\ OneLinePerPair(c)
  BY DEF RestoreNote, Commit
<1>2. /\ Sound(c) /\ Follows(board, c) /\ Touched(board, c, {n}, {})
      /\ Values(c.note[n]) = Values(board.note[n]) /\ Live(c.note[n])
  BY <1>1, RestoredIsSound DEF BoardInv
<1> HIDE DEF c
<1>3. OperationOn(n, "node_restored", c)
  BY <1>1, <1>2 DEF OperationOn, NoteOperation, Edits, Restorable, Live
<1> QED
  BY <1>1, <1>2, <1>3, NoteOperationKeeps DEF OnOneNote

LEMMA CreateNoteKeeps ==
  ASSUME BoardInv, NEW u \in Users, NEW n \in Notes, CreateNote(u, n)
  PROVE  BoardInv'
<1>1. PICK s \in Places, t \in Texts :
        /\ board.note[n].status = "absent"
        /\ Commit(u, "node_created", {n}, {}, 0, [board EXCEPT !.note[n] = NewNote(u, s, t)])
  BY DEF CreateNote
<1> DEFINE x == NewNote(u, s, t)
           c == [board EXCEPT !.note[n] = x]
<1>2. x \in NoteRow /\ Live(x) /\ NoteIsSound(x) /\ x.version = 1
  <2>1. u \in Assignees
    BY DEF Assignees
  <2> HIDE DEF x
  <2> QED
    BY <2>1, NewNoteIsSound DEF x
<1>3. Commit(u, "node_created", {n}, {}, 0, c)
  BY <1>1
<1> HIDE DEF x
<1>4. board \in Board /\ board.note[n].version = 0
  BY <1>1 DEF BoardInv, Sound
<1>5. /\ c \in Board /\ c.line = board.line /\ c.note[n] = x
      /\ \A m \in Notes \ {n} : c.note[m] = board.note[m]
  BY <1>2, <1>4, NoteIsPut
<1> HIDE DEF c
<1>6. Sound(c) /\ Follows(board, c) /\ Touched(board, c, {n}, {})
  <2>1. \A m \in {n} : /\ board.note[m].status = "absent"
                       /\ Live(c.note[m]) /\ NoteIsSound(c.note[m])
                       /\ board.note[m].version < c.note[m].version
    BY <1>1, <1>2, <1>4, <1>5
  <2>2. {n} \in SUBSET Notes /\ Sound(board)
    BY DEF BoardInv
  <2> QED
    BY <1>5, <2>1, <2>2, NotesAreWritten
<1>7. OperationOn(n, "node_created", c)
  BY <1>1, <1>2, <1>5 DEF OperationOn, NoteOperation, Edits, Exists
<1> QED
  BY <1>3, <1>6, <1>7, NoteOperationKeeps DEF OnOneNote

LEMMA CreateConnectionKeeps ==
  ASSUME BoardInv, NEW u \in Users, NEW l \in Lines, CreateConnection(u, l)
  PROVE  BoardInv'
<1>1. PICK ends \in kSubset(2, Notes) :
        /\ board.line[l].status = "absent"
        /\ \A n \in ends : Live(board.note[n])
        /\ Commit(u, "connection_created", {}, {l}, 0, [board EXCEPT !.line[l] = NewLine(ends)])
  BY DEF CreateConnection
<1> DEFINE x == NewLine(ends)
           c == [board EXCEPT !.line[l] = x]
<1>2. /\ x \in LineRow /\ Live(x) /\ x.version = 1
      /\ x.ends = ends /\ Cardinality(ends) = 2
  BY NewLineIsTyped
<1>3. Commit(u, "connection_created", {}, {l}, 0, c) /\ OneLinePerPair(c)
  BY <1>1 DEF Commit
<1> HIDE DEF x
<1>4. board \in Board /\ board.line[l].version = 0
  BY <1>1 DEF BoardInv, Sound
<1>5. /\ c \in Board /\ c.note = board.note /\ c.line[l] = x
      /\ \A m \in Lines \ {l} : c.line[m] = board.line[m]
  BY <1>2, <1>4, LineIsPut
<1> HIDE DEF c
<1>6. Sound(c) /\ Follows(board, c) /\ Touched(board, c, {}, {l})
  <2>1. /\ board.line[l].status # "purged" /\ board.line[l].version < c.line[l].version
        /\ Exists(c.line[l]) /\ Cardinality(c.line[l].ends) = 2
        /\ \A n \in c.line[l].ends : Live(board.note[n])
    BY <1>1, <1>2, <1>4, <1>5 DEF Live
  <2>2. Sound(board)
    BY DEF BoardInv
  <2> QED
    BY <1>3, <1>5, <2>1, <2>2, LineIsWritten
<1>7. LineOperation("connection_created", board.line[l], c.line[l])
  BY <1>1, <1>2, <1>5 DEF LineOperation, Exists
<1> QED
  BY <1>3, <1>6, <1>7, LineOperationKeeps DEF OnOneLine

LEMMA DeleteConnectionKeeps ==
  ASSUME BoardInv, NEW u \in Users, NEW l \in Lines, DeleteConnection(u, l)
  PROVE  BoardInv'
<1> DEFINE x == SetDeleted(board.line[l], "recent")
           c == [board EXCEPT !.line[l] = x]
<1>1. /\ Live(board.line[l])
      /\ Commit(u, "connection_deleted", {}, {l}, 0, c) /\ OneLinePerPair(c)
  BY DEF DeleteConnection, Commit
<1>2. LineIsRemoved(l, c)
  BY <1>1, RemovedLineIsSound
<1> HIDE DEF c
<1>3. LineOperation("connection_deleted", board.line[l], c.line[l])
  BY <1>1, <1>2 DEF LineOperation, LineIsRemoved
<1> QED
  BY <1>1, <1>2, <1>3, LineOperationKeeps DEF OnOneLine, LineIsRemoved
-----------------------------------------------------------------------------
(* The retention of deleted rows.                                          *)

(* Rows expire or are removed for good.                                    *)
LEMMA RowsGo ==
  ASSUME BoardInv, board' \in Board, log' = log,
         \A n \in Notes : LET r == board.note[n] s == board'.note[n] IN
            \/ s = r
            \/ /\ ~Live(r) /\ ~Live(s) /\ RowFollows(r, s)
               /\ (Exists(s) => NoteIsSound(s)) /\ s.status # "absent",
         \A l \in Lines : LET r == board.line[l] s == board'.line[l] IN
            \/ s = r
            \/ /\ ~Live(s) /\ RowFollows(r, s)
               /\ (Exists(s) => Cardinality(s.ends) = 2) /\ s.status # "absent"
  PROVE  BoardInv'
<1>1. Follows(board, board')
  BY DEF Follows, RowFollows
<1>2. \A n \in Notes : Live(board.note[n]) => board'.note[n] = board.note[n]
  OBVIOUS
<1>3. \A l \in Lines : Live(board'.line[l]) =>
        board'.line[l] = board.line[l] /\ board.line[l].ends \in SUBSET Notes
  BY BoardIsTyped, LineIsTyped DEF BoardInv, Sound
<1>4. OneLinePerPair(board')
  BY <1>3 DEF BoardInv, Sound, OneLinePerPair
<1>5. \A n \in Notes : /\ Exists(board'.note[n]) => NoteIsSound(board'.note[n])
                       /\ board'.note[n].status = "absent" => board'.note[n].version = 0
  BY DEF BoardInv, Sound
<1>6. \A l \in Lines :
         /\ Exists(board'.line[l]) => Cardinality(board'.line[l].ends) = 2
         /\ board'.line[l].status = "absent" => board'.line[l].version = 0
  BY DEF BoardInv, Sound
<1>7. \A l \in Lines : Live(board'.line[l]) =>
        \A n \in board'.line[l].ends : Live(board'.note[n])
  BY <1>2, <1>3 DEF BoardInv, Sound
<1>8. Sound(board')
  BY <1>4, <1>5, <1>6, <1>7 DEF Sound
<1> QED
  BY <1>1, <1>8, BoardMovesOn

LEMMA ExpireKeeps == BoardInv /\ Expire => BoardInv'
<1> SUFFICES ASSUME BoardInv, Expire PROVE BoardInv'
  OBVIOUS
<1>1. /\ board \in Board /\ \A n \in Notes : board.note[n] \in NoteRow
      /\ \A l \in Lines : board.line[l] \in LineRow
  BY BoardIsTyped DEF BoardInv, Sound
<1>2. CASE \E n \in Notes : /\ Restorable(board.note[n])
                            /\ board' = [board EXCEPT !.note[n].deleted = "expired"]
  <2>1. PICK n \in Notes : /\ Restorable(board.note[n])
                           /\ board' = [board EXCEPT !.note[n] = [board.note[n] EXCEPT !.deleted = "expired"]]
    BY <1>2
  <2> DEFINE r == board.note[n]
             x == [r EXCEPT !.deleted = "expired"]
  <2>2. /\ x \in NoteRow /\ x.deleted = "expired" /\ x.status = r.status
        /\ x.section = r.section /\ x.held_from = r.held_from /\ x.text = r.text
        /\ x.assignee = r.assignee /\ x.version = r.version
    <3>1. r \in NoteRow
      BY <1>1
    <3> QED
      BY <3>1 DEF NoteRow, Ages
  <2>3. board' = [board EXCEPT !.note[n] = x]
    BY <2>1
  <2> HIDE DEF x
  <2>4. /\ board' \in Board /\ board'.line = board.line /\ board'.note[n] = x
        /\ \A m \in Notes \ {n} : board'.note[m] = board.note[m]
    BY <1>1, <2>2, <2>3, NoteIsPut
  <2>5. ~Live(r) /\ ~Live(x) /\ Exists(r) /\ Exists(x) /\ NoteIsSound(x)
    <3>1. NoteIsSound(r)
      BY <2>1 DEF BoardInv, Sound, Restorable
    <3> QED
      BY <2>1, <2>2, <3>1 DEF Restorable, Live, Exists, NoteIsSound
  <2>6. RowFollows(r, x)
    <3>1. Values(r) = Values(x)
      BY <1>1, <2>2, NoteValues
    <3> QED
      BY <2>2, <2>5, <3>1 DEF RowFollows, SameRow, Live
  <2> QED
    BY <2>4, <2>5, <2>6, RowsGo DEF Exists, Expire
<1>3. CASE \E l \in Lines : /\ Restorable(board.line[l])
                            /\ board' = [board EXCEPT !.line[l].deleted = "expired"]
  <2>1. PICK l \in Lines : /\ Restorable(board.line[l])
                           /\ board' = [board EXCEPT !.line[l] = [board.line[l] EXCEPT !.deleted = "expired"]]
    BY <1>3
  <2> DEFINE r == board.line[l]
             x == [r EXCEPT !.deleted = "expired"]
  <2>2. /\ x \in LineRow /\ x.deleted = "expired" /\ x.status = r.status
        /\ x.ends = r.ends /\ x.version = r.version
    <3>1. r \in LineRow
      BY <1>1
    <3> QED
      BY <3>1 DEF LineRow, Ages
  <2>3. board' = [board EXCEPT !.line[l] = x]
    BY <2>1
  <2> HIDE DEF x
  <2>4. /\ board' \in Board /\ board'.note = board.note /\ board'.line[l] = x
        /\ \A m \in Lines \ {l} : board'.line[m] = board.line[m]
    BY <1>1, <2>2, <2>3, LineIsPut
  <2>5. ~Live(r) /\ ~Live(x) /\ Exists(r) /\ Exists(x) /\ Cardinality(x.ends) = 2
    <3>1. Cardinality(r.ends) = 2
      BY <2>1 DEF BoardInv, Sound, Restorable
    <3> QED
      BY <2>1, <2>2, <3>1 DEF Restorable, Live, Exists
  <2>6. RowFollows(r, x)
    <3>1. Values(r) = Values(x)
      BY <1>1, <2>2, LineValues
    <3> QED
      BY <2>2, <2>5, <3>1 DEF RowFollows, SameRow, Live
  <2> QED
    BY <2>4, <2>5, <2>6, RowsGo DEF Exists, Expire
<1> QED
  BY <1>2, <1>3 DEF Expire

(* Notes given back are written without an entry.                          *)
LEMMA ReturnNotesKeeps == BoardInv /\ ReturnNotes => BoardInv'
<1> SUFFICES ASSUME BoardInv, ReturnNotes PROVE BoardInv'
  OBVIOUS
<1>1. board \in Board /\ Sound(board) /\ \A n \in Notes : board.note[n] \in NoteRow
  BY BoardIsTyped DEF BoardInv, Sound
<1>2. PICK notes \in SUBSET {n \in Notes : Live(board.note[n])}, author \in [Notes -> Users] :
        board' = [board EXCEPT !.note = [n \in Notes |->
           IF n \in notes
           THEN [board.note[n] EXCEPT !.assignee = author[n], !.version = @ + 1]
           ELSE board.note[n]]]
  BY DEF ReturnNotes
<1>3. ASSUME NEW r \in NoteRow, NEW a \in Assignees, Live(r), NoteIsSound(r)
      PROVE  LET x == [r EXCEPT !.assignee = a, !.version = @ + 1]
             IN  x \in NoteRow /\ Live(x) /\ NoteIsSound(x) /\ r.version < x.version
  <2> DEFINE x == [r EXCEPT !.assignee = a, !.version = @ + 1]
  <2>1. r.version + 1 \in Nat /\ r.version < r.version + 1
    BY NoteIsTyped
  <2>2. /\ x \in NoteRow /\ x.status = r.status /\ x.section = r.section
        /\ x.held_from = r.held_from /\ x.deleted = r.deleted /\ x.version = r.version + 1
    BY <2>1 DEF NoteRow
  <2> HIDE DEF x
  <2>3. Live(x) /\ NoteIsSound(x) /\ r.version < x.version
    BY <1>3, <2>1, <2>2 DEF Live, Exists, NoteIsSound
  <2> QED
    BY <2>2, <2>3 DEF x
<1> DEFINE f == [n \in Notes |-> IF n \in notes
                   THEN [board.note[n] EXCEPT !.assignee = author[n], !.version = @ + 1]
                   ELSE board.note[n]]
           c == [board EXCEPT !.note = [n \in Notes |-> IF n \in notes THEN f[n] ELSE board.note[n]]]
<1>4. \A n \in notes : /\ f[n] \in NoteRow /\ Live(board.note[n]) /\ Live(f[n])
                       /\ NoteIsSound(f[n]) /\ board.note[n].version < f[n].version
  <2> TAKE n \in notes
  <2>1. /\ board.note[n] \in NoteRow /\ author[n] \in Assignees
        /\ Live(board.note[n]) /\ NoteIsSound(board.note[n])
    BY <1>1 DEF Sound, Live, Assignees
  <2>2. f[n] = [board.note[n] EXCEPT !.assignee = author[n], !.version = @ + 1]
    OBVIOUS
  <2> HIDE DEF f
  <2>3. PICK old, a, x : /\ old = board.note[n] /\ a = author[n]
                         /\ x = [old EXCEPT !.assignee = a, !.version = @ + 1]
    OBVIOUS
  <2>4. x \in NoteRow /\ Live(x) /\ NoteIsSound(x) /\ old.version < x.version
    <3>1. old \in NoteRow /\ a \in Assignees /\ Live(old) /\ NoteIsSound(old)
      BY <2>1, <2>3
    <3> QED
      BY <1>3, <2>3, <3>1
  <2>5. f[n] = x
    BY <2>2, <2>3
  <2> QED
    BY <2>1, <2>3, <2>4, <2>5
<1>5. f \in [Notes -> NoteRow] /\ notes \in SUBSET Notes
  BY <1>1, <1>4
<1>6. [n \in Notes |-> IF n \in notes THEN f[n] ELSE board.note[n]] = f
  OBVIOUS
<1>7. board' = c
  BY <1>2, <1>6
<1> HIDE DEF f
<1>11. /\ c \in Board /\ c.line = board.line /\ \A n \in notes : c.note[n] = f[n]
       /\ \A m \in Notes \ notes : c.note[m] = board.note[m]
  BY <1>1, <1>5, NotesArePut
<1> HIDE DEF c
<1>8. \A n \in notes : /\ board.note[n].status = "absent" \/ Live(board.note[n])
                       /\ Live(board'.note[n]) /\ NoteIsSound(board'.note[n])
                       /\ board.note[n].version < board'.note[n].version
  BY <1>4, <1>7, <1>11
<1>9. Sound(c) /\ Follows(board, c)
  BY <1>1, <1>5, <1>7, <1>8, <1>11, NotesAreWritten
<1>10. log' = log
  BY DEF ReturnNotes
<1> QED
  BY <1>7, <1>9, <1>10, BoardMovesOn

(* An entry undo and redo pass over is about no row.                       *)
LEMMA LogOtherKeeps ==
  ASSUME BoardInv, NEW u \in Users, LogOther(u)
  PROVE  BoardInv'
<1>1. PICK action \in Others : Commit(u, action, {}, {}, 0, board)
  BY DEF LogOther
<1>2. /\ action \in Actions /\ action \notin Markers
      /\ action \notin Edits \cup OnOneNote \cup OnOneLine
  BY OthersAreOthers DEF Actions
<1>3. Sound(board) /\ board \in Board /\ Follows(board, board) /\ Touched(board, board, {}, {})
  BY DEF BoardInv, Sound, Follows, RowFollows, Touched
<1>4. OperationIsSound(NewEntry(u, action, {}, {}, 0, board))
  <2>1. LET e == NewEntry(u, action, {}, {}, 0, board) IN
         /\ e.action = action /\ e.notes = {} /\ e.lines = {} /\ e.of = 0
    BY <1>2, <1>3, NewEntryIs
  <2> HIDE DEF NewEntry
  <2> QED
    BY <1>2, <2>1 DEF OperationIsSound
<1> QED
  BY <1>1, <1>2, <1>3, <1>4, CommitKeeps

LEMMA PurgeKeeps == BoardInv /\ Purge => BoardInv'
<1> SUFFICES ASSUME BoardInv, Purge PROVE BoardInv'
  OBVIOUS
<1> DEFINE noNote == [NoNote EXCEPT !.status = "purged"]
           noLine == [NoLine EXCEPT !.status = "purged"]
<1>1. /\ board \in Board /\ \A n \in Notes : board.note[n] \in NoteRow
      /\ \A l \in Lines : board.line[l] \in LineRow
  BY BoardIsTyped DEF BoardInv, Sound
<1>2. PICK notes \in SUBSET {n \in Notes : board.note[n].deleted = "expired"},
           lines \in SUBSET {l \in Lines : board.line[l].deleted = "expired"} :
         board' = [note |-> [n \in Notes |-> IF n \in notes THEN noNote ELSE board.note[n]],
                   line |-> [l \in Lines |->
                     IF l \in lines \/ board.line[l].ends \cap notes # {}
                     THEN noLine ELSE board.line[l]]]
  BY DEF Purge
<1> DEFINE f == [n \in Notes |-> IF n \in notes THEN noNote ELSE board.note[n]]
           gone(l) == l \in lines \/ board.line[l].ends \cap notes # {}
           g == [l \in Lines |-> IF gone(l) THEN noLine ELSE board.line[l]]
<1>3. \A n \in notes : noNote \in NoteRow /\ noNote.status = "purged" /\ ~Live(board.note[n])
  <2> TAKE n \in notes
  <2>1. Texts # {}
    BY <1>1, NoteIsTyped
  <2>2. ~Live(board.note[n])
    BY DEF Live
  <2> QED
    BY <2>1, <2>2, NoNoteIsTyped
<1>4. noLine \in LineRow /\ noLine.status = "purged"
  BY NoLineIsTyped
<1> HIDE DEF noNote, noLine, gone
<1>5. f \in [Notes -> NoteRow]
  BY <1>1, <1>3
<1>6. g \in [Lines -> LineRow]
  BY <1>1, <1>4
<1>7. board' = [note |-> f, line |-> g]
  BY <1>2 DEF gone
<1>8. board' \in Board /\ board'.note = f /\ board'.line = g
  <2> HIDE DEF f, g
  <2> QED
    BY <1>5, <1>6, <1>7, IsBoard
<1>9. \A n \in Notes : LET r == board.note[n] s == board'.note[n] IN
         \/ s = r
         \/ /\ ~Live(r) /\ ~Live(s) /\ RowFollows(r, s)
            /\ (Exists(s) => NoteIsSound(s)) /\ s.status # "absent"
  BY <1>3, <1>8 DEF Live, Exists, RowFollows
<1>10. \A l \in Lines : LET r == board.line[l] s == board'.line[l] IN
         \/ s = r
         \/ /\ ~Live(s) /\ RowFollows(r, s)
            /\ (Exists(s) => Cardinality(s.ends) = 2) /\ s.status # "absent"
  BY <1>4, <1>8 DEF Live, Exists, RowFollows
<1>11. log' = log
  BY DEF Purge
<1> QED
  BY <1>8, <1>9, <1>10, <1>11, RowsGo
-----------------------------------------------------------------------------
(* What undo and redo find in the log.                                     *)

LEMMA LogIsTyped ==
  ASSUME BoardInv
  PROVE  /\ Len(log) \in Nat /\ DOMAIN log = 1..Len(log)
         /\ \A k \in DOMAIN log :
              /\ log[k] \in Entry /\ Sound(log[k].before) /\ Sound(log[k].after)
              /\ log[k].notes \in SUBSET Notes /\ log[k].lines \in SUBSET Lines
              /\ log[k].of \in Nat
              /\ log[k].action \in Markers => MarkerIsSound(k, log[k])
              /\ log[k].action \notin Markers => OperationIsSound(log[k]) /\ log[k].of = 0
<1>1. log \in Seq(Entry) /\ LogIsSound
  BY DEF BoardInv
<1>2. Len(log) \in Nat /\ DOMAIN log = 1..Len(log) /\ \A k \in DOMAIN log : log[k] \in Entry
  BY <1>1
<1>3. \A k \in DOMAIN log : /\ log[k].notes \in SUBSET Notes /\ log[k].lines \in SUBSET Lines
                            /\ log[k].of \in Nat
  BY <1>2 DEF Entry
<1> QED
  BY <1>1, <1>2, <1>3 DEF LogIsSound, EntryIsSound, OperationIsSound

(* m is the operation i, or the last of its markers.                       *)
LastWord(i, m) ==
    /\ i \in DOMAIN log /\ log[i].action \notin Markers /\ m \in DOMAIN log
    /\ m = i \/ log[m].of = i
    /\ \A k \in DOMAIN log : log[k].of = i => k <= m

LEMMA MarkersAreSeen ==
  ASSUME BoardInv, NEW u \in Users, NEW i \in OperationsOf(u)
  PROVE  /\ i \in DOMAIN log /\ log[i].action \notin Markers
         /\ MarkersOf(u, i) = {k \in DOMAIN log : log[k].of = i}
         /\ MarkersOf(u, i) \subseteq 0..Len(log)
         /\ \A k \in MarkersOf(u, i) : log[k].action \in Markers
<1>1. i \in DOMAIN log /\ log[i].action \notin Markers /\ i \in Recent(u)
  BY OthersAreOthers DEF OperationsOf, Recent
<1>2. Len(log) \in Nat /\ DOMAIN log = 1..Len(log)
  BY LogIsTyped
<1>3. ASSUME NEW k \in DOMAIN log, log[k].of = i
      PROVE  k \in Recent(u) /\ log[k].action \in Markers
  <2>1. log[k].action \in Markers
    BY <1>1, <1>2, <1>3, LogIsTyped
  <2>2. i < k /\ log[k].actor = u
    <3>1. MarkerIsSound(k, log[k])
      BY <2>1, LogIsTyped
    <3>2. log[i].actor = u
      BY <1>1 DEF Recent
    <3> QED
      BY <1>2, <1>3, <3>1, <3>2 DEF MarkerIsSound
  <2> DEFINE of(j) == {h \in j..Len(log) : log[h].actor = u}
  <2>3. IsFiniteSet(of(i)) /\ of(k) \subseteq of(i)
    <3>1. IsFiniteSet(i..Len(log))
      BY <1>1, <1>2, FS_Interval
    <3>2. of(i) \subseteq i..Len(log)
      OBVIOUS
    <3>3. of(k) \subseteq of(i)
      BY <1>1, <1>2, <2>2
    <3> QED
      BY <3>1, <3>2, <3>3, FS_Subset
  <2>4. Cardinality(of(k)) <= Cardinality(of(i)) /\ IsFiniteSet(of(k))
    BY <2>3, FS_Subset
  <2>5. Cardinality(of(k)) \in Nat /\ Cardinality(of(i)) \in Nat
    BY <2>3, <2>4, FS_CardinalityType
  <2>6. Cardinality(of(i)) <= Window
    BY <1>1 DEF Recent
  <2>7. Cardinality(of(k)) <= Window
    <3> HIDE DEF of
    <3> QED
      BY <2>4, <2>5, <2>6, WindowAssumption
  <2> QED
    BY <2>1, <2>2, <2>7 DEF Recent
<1>4. Recent(u) \subseteq DOMAIN log
  BY DEF Recent
<1>5. MarkersOf(u, i) = {k \in DOMAIN log : log[k].of = i}
  BY <1>3, <1>4 DEF MarkersOf
<1> QED
  BY <1>1, <1>2, <1>3, <1>5

LEMMA UndoFinds ==
  ASSUME BoardInv, NEW u \in Users, Undoable(u) # {}
  PROVE  LET i == Max(Undoable(u)) IN
         \E m : /\ LastWord(i, m) /\ LeftBy(u, i) = log[m].after /\ log[i].actor = u
                /\ m # i => log[m].action = "operation_redone"
<1> DEFINE i == Max(Undoable(u))
<1>1. Len(log) \in Nat /\ DOMAIN log = 1..Len(log)
  BY LogIsTyped
<1>2. Undoable(u) \subseteq 0..Len(log)
  BY <1>1 DEF Undoable, OperationsOf, Recent
<1>3. i \in Undoable(u)
  BY <1>1, <1>2, MaxIsThere
<1> HIDE DEF i
<1>4. i \in OperationsOf(u) /\ ~Undone(u, i) /\ log[i].actor = u
  BY <1>3 DEF Undoable, OperationsOf, Recent
<1>5. /\ i \in DOMAIN log /\ log[i].action \notin Markers
      /\ MarkersOf(u, i) = {k \in DOMAIN log : log[k].of = i}
      /\ MarkersOf(u, i) \subseteq 0..Len(log)
      /\ \A k \in MarkersOf(u, i) : log[k].action \in Markers
  BY <1>4, MarkersAreSeen
<1> DEFINE redone == {k \in MarkersOf(u, i) : log[k].action = "operation_redone"}
<1>6. CASE MarkersOf(u, i) = {}
  <2>1. LastWord(i, i)
    BY <1>5, <1>6 DEF LastWord
  <2>2. LeftBy(u, i) = log[i].after
    BY <1>6 DEF LeftBy
  <2> QED
    BY <1>4, <2>1, <2>2 DEF i
<1>7. CASE MarkersOf(u, i) # {}
  <2> DEFINE m == LastMark(u, i)
  <2>1. m \in MarkersOf(u, i) /\ \A k \in MarkersOf(u, i) : k <= m
    BY <1>1, <1>5, <1>7, MaxIsThere DEF LastMark
  <2> HIDE DEF m
  <2>2. log[m].action = "operation_redone"
    BY <1>4, <1>5, <1>7, <2>1 DEF Undone, Markers, m
  <2>3. m \in redone /\ redone \subseteq 0..Len(log)
    BY <1>5, <2>1, <2>2
  <2>4. Max(redone) \in redone /\ m <= Max(redone)
    <3> HIDE DEF redone
    <3> QED
      BY <1>1, <2>3, MaxIsThere
  <2>5. Max(redone) <= m
    BY <2>1, <2>4
  <2>6. Max(redone) = m
    <3>1. Max(redone) \in 0..Len(log) /\ m \in 0..Len(log)
      BY <2>3, <2>4
    <3> HIDE DEF redone
    <3> QED
      BY <1>1, <2>4, <2>5, <3>1
  <2>7. LeftBy(u, i) = log[m].after
    BY <2>3, <2>6 DEF LeftBy
  <2>8. LastWord(i, m)
    BY <1>5, <2>1 DEF LastWord
  <2> QED
    BY <1>4, <2>2, <2>7, <2>8 DEF i
<1> QED
  BY <1>6, <1>7

LEMMA RedoFinds ==
  ASSUME BoardInv, NEW u \in Users, NEW i \in Redoable(u)
  PROVE  /\ LastWord(i, LastMark(u, i)) /\ log[i].actor = u
         /\ LastMark(u, i) # i /\ log[LastMark(u, i)].action = "operation_undone"
<1>1. Len(log) \in Nat /\ DOMAIN log = 1..Len(log)
  BY LogIsTyped
<1>2. i \in OperationsOf(u) /\ Undone(u, i) /\ log[i].actor = u
  BY DEF Redoable, OperationsOf, Recent
<1>3. /\ i \in DOMAIN log /\ log[i].action \notin Markers
      /\ MarkersOf(u, i) = {k \in DOMAIN log : log[k].of = i}
      /\ MarkersOf(u, i) \subseteq 0..Len(log)
  BY <1>2, MarkersAreSeen
<1>4. MarkersOf(u, i) # {} /\ log[LastMark(u, i)].action = "operation_undone"
  BY <1>2 DEF Undone
<1>5. LastMark(u, i) \in MarkersOf(u, i) /\ \A k \in MarkersOf(u, i) : k <= LastMark(u, i)
  BY <1>1, <1>3, <1>4, MaxIsThere DEF LastMark
<1>6. LastMark(u, i) # i
  BY <1>3, <1>4 DEF Markers
<1> QED
  BY <1>2, <1>3, <1>4, <1>5, <1>6 DEF LastWord

(* The rows are as the last word left them, for their versions are.        *)
LEMMA RowsAreAsLeft ==
  ASSUME BoardInv, NEW i, NEW m, LastWord(i, m), StillCurrent(log[i], log[m].after)
  PROVE  /\ \A n \in log[i].notes :
              Exists(board.note[n]) /\ SameRow(board.note[n], log[m].after.note[n])
         /\ \A l \in log[i].lines :
              Exists(board.line[l]) /\ SameRow(board.line[l], log[m].after.line[l])
<1>1. log[i].notes \in SUBSET Notes /\ log[i].lines \in SUBSET Lines
  BY LogIsTyped DEF LastWord
<1> QED
  BY <1>1 DEF BoardInv, VersionIdentifiesRow, StillCurrent, LastWord

LEMMA UndoIsReady ==
  ASSUME BoardInv, NEW i, NEW m, LastWord(i, m), StillCurrent(log[i], log[m].after),
         m # i => log[m].action = "operation_redone"
  PROVE  RowsAreRedone(log[i], board)
<1>1. CASE m = i
  BY <1>1, RowsAreAsLeft DEF RowsAreRedone, IsRedone
<1>2. CASE m # i
  <2>1. RowsAreRedone(log[i], log[m].after)
    <3>1. MarkerIsSound(m, log[m]) /\ log[m].of = i
      BY <1>2, LogIsTyped DEF LastWord, Markers
    <3> QED
      BY <1>2, <3>1 DEF MarkerIsSound
  <2> QED
    BY <2>1, RowsAreAsLeft DEF RowsAreRedone, IsRedone, SameRow
<1> QED
  BY <1>1, <1>2

LEMMA RedoIsReady ==
  ASSUME BoardInv, NEW i, NEW m, LastWord(i, m), StillCurrent(log[i], log[m].after),
         m # i, log[m].action = "operation_undone"
  PROVE  RowsAreUndone(log[i], board)
<1>1. RowsAreUndone(log[i], log[m].after)
  <2>1. MarkerIsSound(m, log[m]) /\ log[m].of = i
    BY LogIsTyped DEF LastWord, Markers
  <2> QED
    BY <2>1 DEF MarkerIsSound
<1> QED
  BY <1>1, RowsAreAsLeft DEF RowsAreUndone, IsUndone, SameRow

(* Nothing was done to the rows since the last word.                       *)
LEMMA NothingWasDone ==
  ASSUME BoardInv, NEW i, NEW m, LastWord(i, m), StillCurrent(log[i], log[m].after),
         NEW k \in (m + 1)..Len(log)
  PROVE  log[k].notes \cap log[i].notes = {} /\ log[k].lines \cap log[i].lines = {}
<1>1. Len(log) \in Nat /\ DOMAIN log = 1..Len(log) /\ m \in DOMAIN log /\ i \in DOMAIN log
  BY LogIsTyped DEF LastWord
<1>2. k \in DOMAIN log /\ m \in 1..(k - 1)
  BY <1>1
<1>3. NewerIn(log[k], log[m].after)
  BY <1>2 DEF BoardInv, LogIsNewer
<1>4. /\ log[i].notes \in SUBSET Notes /\ log[i].lines \in SUBSET Lines
      /\ board \in Board /\ log[k].after \in Board
  BY <1>1, <1>2, LogIsTyped DEF BoardInv, Sound
<1>5. ASSUME NEW n \in log[k].notes \cap log[i].notes PROVE FALSE
  <2>1. Exists(board.note[n]) /\ board.note[n].version = log[m].after.note[n].version
    BY DEF StillCurrent
  <2>2. log[m].after.note[n].version < log[k].after.note[n].version
    BY <1>3 DEF NewerIn
  <2>3. log[k].after.note[n].version <= board.note[n].version
    BY <1>2, <1>4, <2>1 DEF BoardInv, RowsAreNewest, RowIsNewest, Exists
  <2>4. board.note[n].version \in Nat /\ log[k].after.note[n].version \in Nat
    BY <1>4, BoardIsTyped, NoteIsTyped
  <2> QED
    BY <2>1, <2>2, <2>3, <2>4
<1>6. ASSUME NEW l \in log[k].lines \cap log[i].lines PROVE FALSE
  <2>1. Exists(board.line[l]) /\ board.line[l].version = log[m].after.line[l].version
    BY DEF StillCurrent
  <2>2. log[m].after.line[l].version < log[k].after.line[l].version
    BY <1>3 DEF NewerIn
  <2>3. log[k].after.line[l].version <= board.line[l].version
    BY <1>2, <1>4, <2>1 DEF BoardInv, RowsAreNewest, RowIsNewest, Exists
  <2>4. board.line[l].version \in Nat /\ log[k].after.line[l].version \in Nat
    BY <1>4, BoardIsTyped, LineIsTyped
  <2> QED
    BY <2>1, <2>2, <2>3, <2>4
<1> QED
  BY <1>5, <1>6
-----------------------------------------------------------------------------
(* What undo and redo do.                                                  *)

PutRow(r, s, action) ==
    [f \in DOMAIN r |-> CASE f = "version" -> r.version + 1
                          [] f \in Fields(action) -> s[f]
                          [] OTHER -> r[f]]

(* A row whose fields of the operation are put back is the row it was.     *)
LEMMA RowIsPutBack ==
  ASSUME NEW r \in NoteRow, NEW s \in NoteRow, NEW action \in Edits,
         \A f \in NoteFields \ (Fields(action) \cup {"version", "deleted"}) : r[f] = s[f],
         Live(r), Live(s), NoteIsSound(s)
  PROVE  LET x == PutRow(r, s, action) IN
         /\ x \in NoteRow /\ Live(x) /\ NoteIsSound(x) /\ r.version < x.version
         /\ Values(x) = Values(s)
<1> DEFINE F == Fields(action)
           x == PutRow(r, s, action)
<1>1. F \subseteq {"text", "assignee", "section", "status", "held_from"}
  BY DEF Fields, Edits
<1>2. "version" \notin F /\ "deleted" \notin F
  BY <1>1
<1>3. DOMAIN r = NoteFields
  BY NoteIsTyped
<1>4. x = [f \in DOMAIN r |-> CASE f = "version" -> r.version + 1
                                 [] f \in F -> s[f]
                                 [] OTHER -> r[f]]
  BY DEF PutRow
<1> HIDE DEF F, x
<1>5. x = [f \in NoteFields |-> x[f]] /\ x.version = r.version + 1 /\ x.deleted = r.deleted
  BY <1>2, <1>3, <1>4 DEF NoteFields
<1>6. \A f \in {"text", "assignee", "section", "status", "held_from"} : x[f] = s[f]
  <2> TAKE f \in {"text", "assignee", "section", "status", "held_from"}
  <2>1. f \in NoteFields /\ f # "version" /\ f # "deleted"
    BY DEF NoteFields
  <2>2. CASE f \in F
    BY <1>3, <1>4, <2>1, <2>2
  <2>3. CASE f \notin F
    BY <1>3, <1>4, <2>1, <2>3 DEF F
  <2> QED
    BY <2>2, <2>3
<1>7. r.version + 1 \in Nat /\ r.version < r.version + 1
  BY NoteIsTyped
<1>8. x \in NoteRow
  BY <1>5, <1>6, <1>7, NoteIsTyped, IsNote
<1>9. Live(x) /\ NoteIsSound(x) /\ r.version < x.version
  BY <1>5, <1>6, <1>7 DEF Live, Exists, NoteIsSound
<1>10. Values(x) = Values(s)
  BY <1>6, <1>8, NoteValues
<1> QED
  BY <1>8, <1>9, <1>10 DEF x, F

LEMMA PutBackIsExact ==
  ASSUME BoardInv, NEW e, e.notes \in SUBSET Notes, e.lines = {},
         NEW from, Sound(from), PutBack(e, from),
         \A n \in e.notes :
            /\ Live(from.note[n])
            /\ \A f \in NoteFields \ (Fields(e.action) \cup {"version", "deleted"}) :
                  board.note[n][f] = from.note[n][f]
  PROVE  /\ Sound(board') /\ Follows(board, board')
         /\ Touched(board, board', e.notes, e.lines)
         /\ \A n \in e.notes : Live(board'.note[n]) /\ Values(board'.note[n]) = Values(from.note[n])
<1> DEFINE new(n) == PutRow(board.note[n], from.note[n], e.action)
           f == [n \in Notes |-> IF n \in e.notes THEN new(n) ELSE board.note[n]]
<1>1. /\ board \in Board /\ \A n \in Notes : board.note[n] \in NoteRow
      /\ \A n \in Notes : from.note[n] \in NoteRow
  BY BoardIsTyped DEF BoardInv, Sound
<1>2. e.action \in Edits /\ \A n \in e.notes : Live(board.note[n])
  BY DEF PutBack
<1>3. \A n \in e.notes : /\ new(n) \in NoteRow /\ Live(new(n)) /\ NoteIsSound(new(n))
                         /\ board.note[n].version < new(n).version
                         /\ Values(new(n)) = Values(from.note[n])
  <2> TAKE n \in e.notes
  <2>1. NoteIsSound(from.note[n]) /\ Live(from.note[n]) /\ Live(board.note[n])
    BY <1>2 DEF Sound, Live
  <2>2. board.note[n] \in NoteRow /\ from.note[n] \in NoteRow
    BY <1>1
  <2> QED
    BY <1>2, <2>1, <2>2, RowIsPutBack
<1>4. board' = [board EXCEPT !.note = f]
  BY DEF PutBack, Rewritten, PutRow
<1> HIDE DEF new
<1>5. f \in [Notes -> NoteRow] /\ \A n \in e.notes : f[n] = new(n)
  BY <1>1, <1>3
<1>6. [n \in Notes |-> IF n \in e.notes THEN f[n] ELSE board.note[n]] = f
  OBVIOUS
<1>7. board' = [board EXCEPT !.note = [n \in Notes |-> IF n \in e.notes THEN f[n] ELSE board.note[n]]]
  BY <1>4, <1>6
<1> HIDE DEF f
<1>8. /\ board' \in Board /\ board'.line = board.line
      /\ \A n \in e.notes : board'.note[n] = f[n]
      /\ \A m \in Notes \ e.notes : board'.note[m] = board.note[m]
  BY <1>1, <1>5, <1>7, NotesArePut
<1>9. \A n \in e.notes : /\ Live(board.note[n]) /\ Live(board'.note[n]) /\ NoteIsSound(board'.note[n])
                         /\ board.note[n].version < board'.note[n].version
                         /\ Values(board'.note[n]) = Values(from.note[n])
  BY <1>2, <1>3, <1>5, <1>8
<1>10. Sound(board') /\ Follows(board, board') /\ Touched(board, board', e.notes, {})
  BY <1>8, <1>9, NotesAreWritten DEF BoardInv
<1> QED
  BY <1>9, <1>10

LEMMA RedrawnLineIsSound ==
  ASSUME BoardInv, NEW l \in Lines, Exists(board.line[l]), RedrawLine(l), OneLinePerPair(board')
  PROVE  /\ Sound(board') /\ Follows(board, board') /\ Touched(board, board', {}, {l})
         /\ Values(board'.line[l]) = Values(board.line[l]) /\ Live(board'.line[l])
<1> DEFINE r == board.line[l]
           x == SetDeleted(r, "no")
<1>1. board \in Board /\ r \in LineRow /\ Cardinality(r.ends) = 2
  BY BoardIsTyped DEF BoardInv, Sound
<1>2. /\ x \in LineRow /\ r.version < x.version /\ x.status = r.status
      /\ x.deleted = "no" /\ x.ends = r.ends /\ Values(x) = Values(r)
  BY <1>1, LineIsDeleted, AgesAre
<1>3. board' = [board EXCEPT !.line[l] = x] /\ \A n \in r.ends : Live(board.note[n])
  BY DEF RedrawLine
<1> HIDE DEF x
<1>4. /\ board' \in Board /\ board'.note = board.note /\ board'.line[l] = x
      /\ \A m \in Lines \ {l} : board'.line[m] = board.line[m]
  BY <1>1, <1>2, <1>3, LineIsPut
<1>5. Exists(x) /\ Live(x) /\ r.status # "purged"
  BY <1>1, <1>2 DEF Exists, Live
<1>6. Sound(board') /\ Follows(board, board') /\ Touched(board, board', {}, {l})
  <2>1. Sound(board)
    BY DEF BoardInv
  <2> QED
    BY <1>1, <1>2, <1>3, <1>4, <1>5, <2>1, LineIsWritten
<1> QED
  BY <1>2, <1>4, <1>5, <1>6

LEMMA RemoveLineIsSound ==
  ASSUME BoardInv, NEW l \in Lines, RemoveLine(l), OneLinePerPair(board')
  PROVE  LineIsRemoved(l, board')
  BY RemovedLineIsSound DEF RemoveLine

(* The actions are told apart.                                             *)
LEMMA ActionsDiffer ==
  /\ OnOneLine \cap (Edits \cup OnOneNote) = {} /\ OnOneNote \cap Edits = {"node_status_updated"}
  /\ OnOneLine = {"connection_created", "connection_deleted"}
  /\ {"node_created", "node_deleted", "node_restored"} \subseteq OnOneNote \ Edits
  /\ "node_status_updated" \in Edits \cap OnOneNote
  BY DEF Edits, OnOneNote, OnOneLine

LEMMA RevertedIsExact ==
  ASSUME BoardInv, NEW e, e.notes \in SUBSET Notes, Sound(e.before), Sound(e.after),
         OperationIsSound(e), RowsAreRedone(e, board), Reverted(e), OneLinePerPair(board')
  PROVE  /\ Sound(board') /\ Follows(board, board')
         /\ Touched(board, board', e.notes, e.lines) /\ RowsAreUndone(e, board')
<1>1. CASE e.action = "node_created" \/ e.action = "node_restored"
  <2>1. PICK n \in Notes : e.notes = {n}
    BY <1>1, ActionsDiffer DEF OperationIsSound
  <2>2. e.lines = {} /\ NoteOperation(e.action, e.before.note[n], e.after.note[n])
    BY <1>1, <2>1, ActionsDiffer DEF OperationIsSound
  <2>3. Live(board.note[n]) /\ board' = SoftDeleted(board, n)
    BY <1>1, <2>1, ActionsDiffer DEF Reverted, TakeAway, PutBack
  <2>4. /\ Sound(board') /\ Follows(board, board') /\ Touched(board, board', {n}, {})
        /\ Values(board'.note[n]) = Values(board.note[n])
        /\ Exists(board'.note[n]) /\ ~Live(board'.note[n])
    BY <2>3, SoftDeletedIsSound DEF BoardInv
  <2>5. Values(board.note[n]) = Values(e.after.note[n])
    BY <2>1 DEF RowsAreRedone, IsRedone, SameRow
  <2>6. IsUndone(board'.note[n], e.before.note[n], e.after.note[n])
    BY <1>1, <2>2, <2>4, <2>5 DEF IsUndone, NoteOperation, SameRow, Live
  <2> QED
    BY <2>1, <2>2, <2>4, <2>6 DEF RowsAreUndone
<1>2. CASE e.action = "node_deleted"
  <2>1. PICK n \in Notes : e.notes = {n}
    BY <1>2, ActionsDiffer DEF OperationIsSound
  <2>2. e.lines = {} /\ NoteOperation(e.action, e.before.note[n], e.after.note[n])
    BY <1>2, <2>1, ActionsDiffer DEF OperationIsSound
  <2>3. Restorable(board.note[n]) /\ board' = Restored(board, n)
    BY <1>2, <2>1, ActionsDiffer DEF Reverted, BringBack, PutBack
  <2>4. /\ Sound(board') /\ Follows(board, board') /\ Touched(board, board', {n}, {})
        /\ Values(board'.note[n]) = Values(board.note[n]) /\ Live(board'.note[n])
    BY <2>3, RestoredIsSound DEF BoardInv
  <2>5. Values(board.note[n]) = Values(e.after.note[n])
    BY <2>1 DEF RowsAreRedone, IsRedone, SameRow
  <2>6. IsUndone(board'.note[n], e.before.note[n], e.after.note[n])
    BY <1>2, <2>2, <2>4, <2>5 DEF IsUndone, NoteOperation, SameRow, Live
  <2> QED
    BY <2>1, <2>2, <2>4, <2>6 DEF RowsAreUndone
<1>3. CASE e.action \in Edits
  <2>1. PutBack(e, e.before)
    BY <1>3, ActionsDiffer DEF Reverted
  <2>2. e.lines = {} /\ \A n \in e.notes : NoteOperation(e.action, e.before.note[n], e.after.note[n])
    BY <1>3, ActionsDiffer DEF OperationIsSound
  <2>3. ASSUME NEW n \in e.notes
        PROVE  /\ Live(e.before.note[n])
               /\ \A f \in NoteFields \ (Fields(e.action) \cup {"version", "deleted"}) :
                     board.note[n][f] = e.before.note[n][f]
    <3>1. /\ Live(e.before.note[n])
          /\ \A f \in NoteFields \ (Fields(e.action) \cup {"version"}) :
                e.before.note[n][f] = e.after.note[n][f]
      BY <1>3, <2>2 DEF NoteOperation
    <3>2. Values(board.note[n]) = Values(e.after.note[n])
      BY DEF RowsAreRedone, IsRedone, SameRow
    <3>3. \A f \in NoteFields \ {"version", "deleted"} : board.note[n][f] = e.after.note[n][f]
      <4>1. board.note[n] \in NoteRow /\ e.after.note[n] \in NoteRow
        BY BoardIsTyped DEF BoardInv, Sound
      <4> QED
        BY <3>2, <4>1, NoteValues DEF NoteFields
    <3> QED
      BY <3>1, <3>3
  <2>4. /\ Sound(board') /\ Follows(board, board')
        /\ Touched(board, board', e.notes, e.lines)
        /\ \A n \in e.notes : Live(board'.note[n])
                              /\ Values(board'.note[n]) = Values(e.before.note[n])
    <3>1. PICK from : from = e.before
      OBVIOUS
    <3>2. Sound(from) /\ PutBack(e, from)
      BY <2>1, <3>1
    <3>3. \A n \in e.notes :
            /\ Live(from.note[n])
            /\ \A f \in NoteFields \ (Fields(e.action) \cup {"version", "deleted"}) :
                  board.note[n][f] = from.note[n][f]
      BY <2>3, <3>1
    <3>4. /\ Sound(board') /\ Follows(board, board')
          /\ Touched(board, board', e.notes, e.lines)
          /\ \A n \in e.notes : Live(board'.note[n]) /\ Values(board'.note[n]) = Values(from.note[n])
      BY <2>2, <3>2, <3>3, PutBackIsExact
    <3> QED
      BY <3>1, <3>4
  <2>5. RowsAreUndone(e, board')
    BY <2>2, <2>3, <2>4 DEF RowsAreUndone, IsUndone, SameRow, Live
  <2> QED
    BY <2>4, <2>5
<1>4. CASE e.action = "connection_created"
  <2>1. PICK l \in Lines : e.lines = {l} /\ e.notes = {}
    BY <1>4, ActionsDiffer DEF OperationIsSound
  <2>2. LineOperation(e.action, e.before.line[l], e.after.line[l])
    BY <2>1 DEF OperationIsSound
  <2>3. RemoveLine(l)
    BY <1>4, <2>1, ActionsDiffer DEF Reverted, PutBack
  <2>4. LineIsRemoved(l, board')
    BY <2>3, RemoveLineIsSound
  <2>5. Values(board.line[l]) = Values(e.after.line[l])
    BY <2>1 DEF RowsAreRedone, IsRedone, SameRow
  <2>6. IsUndone(board'.line[l], e.before.line[l], e.after.line[l])
    BY <1>4, <2>2, <2>4, <2>5 DEF IsUndone, LineOperation, LineIsRemoved
  <2> QED
    BY <2>1, <2>4, <2>6 DEF RowsAreUndone, LineIsRemoved
<1>5. CASE e.action = "connection_deleted"
  <2>1. PICK l \in Lines : e.lines = {l} /\ e.notes = {}
    BY <1>5, ActionsDiffer DEF OperationIsSound
  <2>2. LineOperation(e.action, e.before.line[l], e.after.line[l])
    BY <2>1 DEF OperationIsSound
  <2>3. RedrawLine(l)
    BY <1>5, <2>1, ActionsDiffer DEF Reverted, PutBack
  <2>4. Exists(board.line[l]) /\ Values(board.line[l]) = Values(e.after.line[l])
    BY <2>1 DEF RowsAreRedone, IsRedone, SameRow
  <2>5. /\ Sound(board') /\ Follows(board, board') /\ Touched(board, board', {}, {l})
        /\ Values(board'.line[l]) = Values(board.line[l]) /\ Live(board'.line[l])
    BY <2>3, <2>4, RedrawnLineIsSound
  <2>6. IsUndone(board'.line[l], e.before.line[l], e.after.line[l])
    BY <1>5, <2>2, <2>4, <2>5 DEF IsUndone, LineOperation, SameRow, Live
  <2> QED
    BY <2>1, <2>5, <2>6 DEF RowsAreUndone
<1> QED
  BY <1>1, <1>2, <1>3, <1>4, <1>5 DEF Reverted, PutBack

LEMMA ReappliedIsExact ==
  ASSUME BoardInv, NEW e, e.notes \in SUBSET Notes, Sound(e.before), Sound(e.after),
         OperationIsSound(e), RowsAreUndone(e, board), Reapplied(e), OneLinePerPair(board')
  PROVE  /\ Sound(board') /\ Follows(board, board')
         /\ Touched(board, board', e.notes, e.lines) /\ RowsAreRedone(e, board')
<1>1. CASE e.action = "node_created" \/ e.action = "node_restored"
  <2>1. PICK n \in Notes : e.notes = {n}
    BY <1>1, ActionsDiffer DEF OperationIsSound
  <2>2. e.lines = {} /\ NoteOperation(e.action, e.before.note[n], e.after.note[n])
    BY <1>1, <2>1, ActionsDiffer DEF OperationIsSound
  <2>3. Restorable(board.note[n]) /\ board' = Restored(board, n)
    BY <1>1, <2>1, ActionsDiffer DEF Reapplied, BringBack, PutBack, IsHolding
  <2>4. /\ Sound(board') /\ Follows(board, board') /\ Touched(board, board', {n}, {})
        /\ Values(board'.note[n]) = Values(board.note[n]) /\ Live(board'.note[n])
    BY <2>3, RestoredIsSound DEF BoardInv
  <2>5. Values(board.note[n]) = Values(e.after.note[n])
    BY <1>1, <2>1, <2>2 DEF RowsAreUndone, IsUndone, SameRow, NoteOperation
  <2>6. IsRedone(board'.note[n], e.after.note[n])
    BY <1>1, <2>2, <2>4, <2>5 DEF IsRedone, NoteOperation, SameRow, Live
  <2> QED
    BY <2>1, <2>2, <2>4, <2>6 DEF RowsAreRedone
<1>2. CASE e.action = "node_deleted"
  <2>1. PICK n \in Notes : e.notes = {n}
    BY <1>2, ActionsDiffer DEF OperationIsSound
  <2>2. e.lines = {} /\ NoteOperation(e.action, e.before.note[n], e.after.note[n])
    BY <1>2, <2>1, ActionsDiffer DEF OperationIsSound
  <2>3. Live(board.note[n]) /\ board' = SoftDeleted(board, n)
    BY <1>2, <2>1, ActionsDiffer DEF Reapplied, TakeAway, PutBack, IsHolding
  <2>4. /\ Sound(board') /\ Follows(board, board') /\ Touched(board, board', {n}, {})
        /\ Values(board'.note[n]) = Values(board.note[n])
        /\ Exists(board'.note[n]) /\ ~Live(board'.note[n])
    BY <2>3, SoftDeletedIsSound DEF BoardInv
  <2>5. Values(board.note[n]) = Values(e.after.note[n])
    BY <1>2, <2>1, <2>2 DEF RowsAreUndone, IsUndone, SameRow, NoteOperation, Live
  <2>6. IsRedone(board'.note[n], e.after.note[n])
    BY <1>2, <2>2, <2>4, <2>5 DEF IsRedone, NoteOperation, SameRow, Live
  <2> QED
    BY <2>1, <2>2, <2>4, <2>6 DEF RowsAreRedone
<1>3. ASSUME e.action \in Edits
      PROVE  /\ e.lines = {}
             /\ \A n \in e.notes :
                  /\ Live(e.after.note[n])
                  /\ NoteOperation(e.action, e.before.note[n], e.after.note[n])
                  /\ Values(board.note[n]) = Values(e.before.note[n])
                  /\ board.note[n] \in NoteRow /\ e.before.note[n] \in NoteRow
                  /\ e.after.note[n] \in NoteRow
                  /\ \A f \in NoteFields \ (Fields(e.action) \cup {"version", "deleted"}) :
                        board.note[n][f] = e.after.note[n][f]
  <2>1. e.lines = {} /\ \A n \in e.notes : NoteOperation(e.action, e.before.note[n], e.after.note[n])
    BY <1>3, ActionsDiffer DEF OperationIsSound
  <2>2. ASSUME NEW n \in e.notes
        PROVE  /\ Live(e.after.note[n])
               /\ Values(board.note[n]) = Values(e.before.note[n])
               /\ board.note[n] \in NoteRow /\ e.before.note[n] \in NoteRow
               /\ e.after.note[n] \in NoteRow
               /\ \A f \in NoteFields \ (Fields(e.action) \cup {"version", "deleted"}) :
                     board.note[n][f] = e.after.note[n][f]
    <3>1. /\ Live(e.before.note[n]) /\ Live(e.after.note[n])
          /\ \A f \in NoteFields \ (Fields(e.action) \cup {"version"}) :
                e.before.note[n][f] = e.after.note[n][f]
      BY <1>3, <2>1 DEF NoteOperation
    <3>2. Values(board.note[n]) = Values(e.before.note[n])
      BY <3>1 DEF RowsAreUndone, IsUndone, SameRow, Live
    <3>3. /\ board.note[n] \in NoteRow /\ e.before.note[n] \in NoteRow
          /\ e.after.note[n] \in NoteRow
      BY BoardIsTyped DEF BoardInv, Sound
    <3>4. \A f \in NoteFields \ {"version", "deleted"} : board.note[n][f] = e.before.note[n][f]
      BY <3>2, <3>3, NoteValues DEF NoteFields
    <3> QED
      BY <3>1, <3>2, <3>3, <3>4
  <2> QED
    BY <2>1, <2>2
<1>4. CASE e.action \in Edits /\ ~IsHolding(e)
  <2>1. PutBack(e, e.after)
    BY <1>4, ActionsDiffer DEF Reapplied
  <2>2. /\ Sound(board') /\ Follows(board, board')
        /\ Touched(board, board', e.notes, e.lines)
        /\ \A n \in e.notes : Live(board'.note[n])
                              /\ Values(board'.note[n]) = Values(e.after.note[n])
    BY <1>3, <1>4, <2>1, PutBackIsExact
  <2>3. RowsAreRedone(e, board')
    BY <1>3, <1>4, <2>2 DEF RowsAreRedone, IsRedone, SameRow, Live
  <2> QED
    BY <2>2, <2>3
<1>5. CASE e.action \in Edits /\ IsHolding(e)
  <2>1. e.action = "node_status_updated" /\ HeldIn(e.after, e)
    BY <1>5 DEF IsHolding
  <2>2. PICK n \in Notes : e.notes = {n}
    BY <2>1, ActionsDiffer DEF OperationIsSound
  <2>3. Live(board.note[n]) /\ board' = Held(board, n)
    BY <1>5, <2>1, <2>2, ActionsDiffer DEF Reapplied
  <2> DEFINE r == board.note[n]
             s == e.after.note[n]
             x == board'.note[n]
  <2>4. /\ Sound(board') /\ Follows(board, board') /\ Touched(board, board', {n}, {})
        /\ x.status = "held" /\ x.section = NoSection /\ x.held_from = r.section
        /\ x.text = r.text /\ x.assignee = r.assignee /\ Live(x) /\ x \in NoteRow
    <3>1. /\ Sound(board') /\ Follows(board, board') /\ Touched(board, board', {n}, {})
          /\ x.status = "held" /\ x.section = NoSection /\ x.held_from = r.section
          /\ x.text = r.text /\ x.assignee = r.assignee /\ Live(x)
      BY <2>3, HeldIsSound DEF BoardInv
    <3>2. x \in NoteRow
      BY <3>1, BoardIsTyped DEF Sound
    <3> QED
      BY <3>1, <3>2
  <2>5. /\ s.status = "held" /\ s.section = NoSection /\ s.held_from = r.section
        /\ s.text = r.text /\ s.assignee = r.assignee
    <3>1. s.status = "held"
      BY <2>1, <2>2 DEF HeldIn
    <3>2. r.section = e.before.note[n].section
      BY <1>3, <1>5, <2>2, NoteValues
    <3>3. s.section = NoSection /\ s.held_from = e.before.note[n].section
      BY <1>3, <1>5, <2>1, <2>2, <3>1 DEF NoteOperation
    <3>4. s.text = r.text /\ s.assignee = r.assignee
      <4>1. Fields(e.action) = {"section", "status", "held_from"}
        BY <2>1 DEF Fields
      <4> QED
        BY <1>3, <1>5, <2>2, <4>1 DEF NoteFields
    <3> QED
      BY <3>1, <3>2, <3>3, <3>4
  <2>6. IsRedone(x, s)
    <3>1. Values(x) = Values(s)
      BY <1>3, <1>5, <2>2, <2>4, <2>5, NoteValues
    <3> QED
      BY <1>3, <1>5, <2>2, <2>4, <3>1 DEF IsRedone, SameRow, Live
  <2> QED
    BY <1>3, <1>5, <2>2, <2>4, <2>6 DEF RowsAreRedone
<1>6. CASE e.action = "connection_created"
  <2>1. PICK l \in Lines : e.lines = {l} /\ e.notes = {}
    BY <1>6, ActionsDiffer DEF OperationIsSound
  <2>2. LineOperation(e.action, e.before.line[l], e.after.line[l])
    BY <2>1 DEF OperationIsSound
  <2>3. RedrawLine(l)
    BY <1>6, <2>1, ActionsDiffer DEF Reapplied, PutBack, IsHolding
  <2>4. Exists(board.line[l]) /\ Values(board.line[l]) = Values(e.after.line[l])
    BY <1>6, <2>1, <2>2 DEF RowsAreUndone, IsUndone, LineOperation
  <2>5. /\ Sound(board') /\ Follows(board, board') /\ Touched(board, board', {}, {l})
        /\ Values(board'.line[l]) = Values(board.line[l]) /\ Live(board'.line[l])
    BY <2>3, <2>4, RedrawnLineIsSound
  <2>6. IsRedone(board'.line[l], e.after.line[l])
    BY <1>6, <2>2, <2>4, <2>5 DEF IsRedone, LineOperation, SameRow, Live
  <2> QED
    BY <2>1, <2>5, <2>6 DEF RowsAreRedone
<1>7. CASE e.action = "connection_deleted"
  <2>1. PICK l \in Lines : e.lines = {l} /\ e.notes = {}
    BY <1>7, ActionsDiffer DEF OperationIsSound
  <2>2. LineOperation(e.action, e.before.line[l], e.after.line[l])
    BY <2>1 DEF OperationIsSound
  <2>3. RemoveLine(l)
    BY <1>7, <2>1, ActionsDiffer DEF Reapplied, PutBack, IsHolding
  <2>4. LineIsRemoved(l, board')
    BY <2>3, RemoveLineIsSound
  <2>5. Values(board.line[l]) = Values(e.after.line[l])
    BY <1>7, <2>1, <2>2 DEF RowsAreUndone, IsUndone, SameRow, LineOperation, Live
  <2>6. IsRedone(board'.line[l], e.after.line[l])
    BY <1>7, <2>2, <2>4, <2>5 DEF IsRedone, LineOperation, LineIsRemoved, SameRow, Live
  <2> QED
    BY <2>1, <2>4, <2>6 DEF RowsAreRedone, LineIsRemoved
<1> QED
  BY <1>1, <1>2, <1>4, <1>5, <1>6, <1>7 DEF Reapplied, PutBack, IsHolding, Edits

LEMMA MarkerKeeps ==
  ASSUME BoardInv, NEW u \in Users, NEW action \in Markers, NEW i \in DOMAIN log,
         log[i].action \notin Markers, log[i].actor = u,
         Record(u, action, log[i].notes, log[i].lines, i),
         Sound(board'), Follows(board, board'),
         Touched(board, board', log[i].notes, log[i].lines),
         action = "operation_undone" => RowsAreUndone(log[i], board'),
         action = "operation_redone" => RowsAreRedone(log[i], board')
  PROVE  BoardInv'
<1> DEFINE e == NewEntry(u, action, log[i].notes, log[i].lines, i, board')
<1>1. log' = Append(log, e)
  BY DEF Record, NewEntry
<1>2. /\ Len(log) \in Nat /\ i \in 1..Len(log)
      /\ log[i].notes \in SUBSET Notes /\ log[i].lines \in SUBSET Lines
  BY LogIsTyped
<1>3. /\ e \in Entry /\ e.actor = u /\ e.action = action /\ e.of = i
      /\ e.notes = log[i].notes /\ e.lines = log[i].lines /\ e.before = board /\ e.after = board'
  <2>1. board \in Board /\ board' \in Board /\ i \in Nat /\ action \in Actions
    BY <1>2 DEF BoardInv, Sound, Actions
  <2> HIDE DEF e
  <2> QED
    BY <1>2, <2>1, NewEntryIs DEF e
<1> HIDE DEF e
<1>4. MarkerIsSound(Len(log) + 1, e)
  BY <1>2, <1>3 DEF MarkerIsSound
<1> QED
  BY <1>1, <1>3, <1>4, LogGrows

LEMMA UndoKeeps ==
  ASSUME BoardInv, NEW u \in Users, UndoLast(u)
  PROVE  BoardInv'
<1> DEFINE i == Max(Undoable(u))
<1>1. /\ Undoable(u) # {} /\ StillCurrent(log[i], LeftBy(u, i)) /\ Reverted(log[i])
      /\ OneLinePerPair(board') /\ Record(u, "operation_undone", log[i].notes, log[i].lines, i)
  BY DEF UndoLast
<1>2. PICK m : /\ LastWord(i, m) /\ LeftBy(u, i) = log[m].after /\ log[i].actor = u
               /\ m # i => log[m].action = "operation_redone"
  BY <1>1, UndoFinds
<1> HIDE DEF i
<1>3. i \in DOMAIN log /\ log[i].action \notin Markers
  BY <1>2 DEF LastWord
<1>4. RowsAreRedone(log[i], board)
  BY <1>1, <1>2, UndoIsReady
<1>5. /\ Sound(board') /\ Follows(board, board')
      /\ Touched(board, board', log[i].notes, log[i].lines) /\ RowsAreUndone(log[i], board')
  BY <1>1, <1>3, <1>4, LogIsTyped, RevertedIsExact
<1> QED
  BY <1>1, <1>2, <1>3, <1>5, MarkerKeeps DEF Markers

LEMMA RedoKeeps ==
  ASSUME BoardInv, NEW u \in Users, RedoLast(u)
  PROVE  BoardInv'
<1>1. PICK i \in Redoable(u) :
        /\ StillCurrent(log[i], log[LastMark(u, i)].after) /\ Reapplied(log[i])
        /\ OneLinePerPair(board') /\ Record(u, "operation_redone", log[i].notes, log[i].lines, i)
  BY DEF RedoLast
<1> DEFINE m == LastMark(u, i)
<1>2. LastWord(i, m) /\ log[i].actor = u /\ m # i /\ log[m].action = "operation_undone"
  BY RedoFinds
<1>3. i \in DOMAIN log /\ log[i].action \notin Markers
  BY <1>2 DEF LastWord
<1>4. RowsAreUndone(log[i], board)
  BY <1>1, <1>2, RedoIsReady
<1>5. /\ Sound(board') /\ Follows(board, board')
      /\ Touched(board, board', log[i].notes, log[i].lines) /\ RowsAreRedone(log[i], board')
  BY <1>1, <1>3, <1>4, LogIsTyped, ReappliedIsExact
<1> QED
  BY <1>1, <1>2, <1>3, <1>5, MarkerKeeps DEF Markers
-----------------------------------------------------------------------------
LEMMA InvariantIsKept == BoardInv /\ [Next]_vars => BoardInv'
<1> SUFFICES ASSUME BoardInv, [Next]_vars PROVE BoardInv'
  OBVIOUS
<1>1. CASE UNCHANGED vars
  <2>1. board' = board /\ log' = log
    BY <1>1 DEF vars
  <2>2. Follows(board, board')
    BY <2>1 DEF Follows, RowFollows
  <2>3. Sound(board')
    BY <2>1 DEF BoardInv
  <2> QED
    BY <2>1, <2>2, <2>3, BoardMovesOn
<1>2. ASSUME NEW u \in Users, NEW n \in Notes, OnNote(u, n) PROVE BoardInv'
  BY <1>2, CreateNoteKeeps, UpdateContentKeeps, AssignKeeps, MoveKeeps, HoldKeeps, ReleaseKeeps,
     DeleteNoteKeeps, RestoreNoteKeeps DEF OnNote
<1>3. ASSUME NEW u \in Users, NEW l \in Lines, OnLine(u, l) PROVE BoardInv'
  BY <1>3, CreateConnectionKeeps, DeleteConnectionKeeps DEF OnLine
<1>4. ASSUME NEW u \in Users, OnCanvas(u) PROVE BoardInv'
  BY <1>4, MoveManyKeeps, AutoLayoutKeeps DEF OnCanvas
<1>5. ASSUME NEW u \in Users, ReplayLast(u) PROVE BoardInv'
  BY <1>5, UndoKeeps, RedoKeeps DEF ReplayLast
<1>6. CASE ReturnNotes \/ Expire \/ Purge
  BY <1>6, ReturnNotesKeeps, ExpireKeeps, PurgeKeeps
<1>7. ASSUME NEW u \in Users, LogOther(u) PROVE BoardInv'
  BY <1>7, LogOtherKeeps
<1> QED
  BY <1>1, <1>2, <1>3, <1>4, <1>5, <1>6, <1>7 DEF Next

LEMMA InvariantHolds == Spec => []BoardInv
<1> QED
  BY InvariantAtFirst, InvariantIsKept, PTL DEF Spec

(* Notes, lines and the log keep their types, and status, section and the  *)
(* section a note was held from agree, as the constraints of tables        *)
(* brainstorm_nodes and brainstorm_connections demand.                     *)
THEOREM BoardTypes == Spec => []TypeOK
<1> QED
  BY InvariantGivesTypes, InvariantHolds, PTL

(* Whatever is deleted, restored, held, purged, undone and redone, no live *)
(* line dangles (BrainstormNode.soft_delete, restore and hold).            *)
THEOREM NoLineDangles == Spec => []LiveLinesJoinLiveNotes
<1> QED
  BY InvariantGivesTypes, InvariantHolds, PTL

(* Two rows with one version are the same row: what undo, redo and every   *)
(* request that carries a version rely on.                                 *)
THEOREM VersionsTellRowsApart == Spec => []VersionIdentifiesRow
<1>1. BoardInv => VersionIdentifiesRow
  BY DEF BoardInv
<1> QED
  BY <1>1, InvariantHolds, PTL

(* The last word on an operation is its last marker, if it has one.        *)
LEMMA LastWordIsLast ==
  ASSUME BoardInv, NEW i, NEW m, LastWord(i, m)
  PROVE  LET marks == {k \in DOMAIN log : log[k].of = i}
         IN  m = IF marks = {} THEN i ELSE Max(marks)
<1> DEFINE marks == {k \in DOMAIN log : log[k].of = i}
<1>1. Len(log) \in Nat /\ DOMAIN log = 1..Len(log) /\ i \in 1..Len(log) /\ m \in 1..Len(log)
  BY LogIsTyped DEF LastWord
<1>2. \A k \in marks : k <= m
  BY DEF LastWord
<1>3. CASE m = i
  <2>1. ASSUME NEW k \in marks PROVE FALSE
    <3>1. k \in DOMAIN log /\ log[k].of = i /\ i # 0
      BY <1>1
    <3>2. MarkerIsSound(k, log[k])
      BY <3>1, LogIsTyped
    <3>3. i \in 1..(k - 1)
      BY <3>1, <3>2 DEF MarkerIsSound
    <3>4. k <= i
      BY <1>2, <1>3
    <3> QED
      BY <1>1, <3>1, <3>3, <3>4
  <2> QED
    BY <1>3, <2>1
<1>4. CASE m # i
  <2>1. m \in marks /\ marks \subseteq 0..Len(log)
    BY <1>1, <1>4 DEF LastWord
  <2> HIDE DEF marks
  <2>2. Max(marks) \in marks /\ m <= Max(marks)
    BY <1>1, <2>1, MaxIsThere
  <2>3. Max(marks) <= m /\ Max(marks) \in 0..Len(log)
    BY <1>2, <2>1, <2>2
  <2>4. Max(marks) = m
    BY <1>1, <2>2, <2>3
  <2> QED
    BY <2>1, <2>4 DEF marks
<1> QED
  BY <1>3, <1>4

(* A step that adds to the log adds one entry, of the board it leaves, and *)
(* an entry that names an operation finds its rows as the last word left.  *)
LEMMA StepIsLogged ==
  ASSUME BoardInv, [Next]_vars
  PROVE  \/ log' = log
         \/ \E e : log' = Append(log, e) /\ e.after = board' /\ e.of = 0
         \/ \E e, m : /\ log' = Append(log, e) /\ e.after = board'
                      /\ LastWord(e.of, m) /\ StillCurrent(log[e.of], log[m].after)
<1>1. ASSUME NEW u, NEW action, NEW notes, NEW lines, NEW of, Record(u, action, notes, lines, of)
      PROVE  \E e : log' = Append(log, e) /\ e.after = board' /\ e.of = of
  <2> DEFINE e == NewEntry(u, action, notes, lines, of, board')
  <2>1. log' = Append(log, e) /\ e.after = board' /\ e.of = of
    BY <1>1 DEF Record, NewEntry
  <2> HIDE DEF e
  <2> QED
    BY <2>1
<1>2. ASSUME NEW u, NEW action, NEW notes, NEW lines, NEW c, Commit(u, action, notes, lines, 0, c)
      PROVE  \E e : log' = Append(log, e) /\ e.after = board' /\ e.of = 0
  BY <1>1, <1>2 DEF Commit
<1>3. CASE UNCHANGED vars \/ ReturnNotes \/ Expire \/ Purge
  BY <1>3 DEF vars, ReturnNotes, Expire, Purge
<1>4. ASSUME NEW u \in Users, NEW n \in Notes, OnNote(u, n)
      PROVE  \E e : log' = Append(log, e) /\ e.after = board' /\ e.of = 0
  BY <1>2, <1>4 DEF OnNote, CreateNote, UpdateContent, Assign, Move, Hold, Release, DeleteNote,
     RestoreNote
<1>5. ASSUME NEW u \in Users, NEW l \in Lines, OnLine(u, l)
      PROVE  \E e : log' = Append(log, e) /\ e.after = board' /\ e.of = 0
  BY <1>2, <1>5 DEF OnLine, CreateConnection, DeleteConnection
<1>6. ASSUME NEW u \in Users, OnCanvas(u)
      PROVE  \E e : log' = Append(log, e) /\ e.after = board' /\ e.of = 0
  BY <1>2, <1>6 DEF OnCanvas, MoveMany, AutoLayout
<1>7. ASSUME NEW u \in Users, UndoLast(u)
      PROVE  \E e, m : /\ log' = Append(log, e) /\ e.after = board'
                       /\ LastWord(e.of, m) /\ StillCurrent(log[e.of], log[m].after)
  <2> DEFINE i == Max(Undoable(u))
  <2>1. /\ Undoable(u) # {} /\ StillCurrent(log[i], LeftBy(u, i))
        /\ Record(u, "operation_undone", log[i].notes, log[i].lines, i)
    BY <1>7 DEF UndoLast
  <2>2. PICK m : LastWord(i, m) /\ LeftBy(u, i) = log[m].after
    BY <2>1, UndoFinds
  <2> HIDE DEF i
  <2>3. PICK e : log' = Append(log, e) /\ e.after = board' /\ e.of = i
    BY <1>1, <2>1
  <2> QED
    BY <2>1, <2>2, <2>3
<1>8. ASSUME NEW u \in Users, RedoLast(u)
      PROVE  \E e, m : /\ log' = Append(log, e) /\ e.after = board'
                       /\ LastWord(e.of, m) /\ StillCurrent(log[e.of], log[m].after)
  <2>1. PICK i \in Redoable(u) :
          /\ StillCurrent(log[i], log[LastMark(u, i)].after)
          /\ Record(u, "operation_redone", log[i].notes, log[i].lines, i)
    BY <1>8 DEF RedoLast
  <2>2. LastWord(i, LastMark(u, i))
    BY RedoFinds
  <2>3. PICK e : log' = Append(log, e) /\ e.after = board' /\ e.of = i
    BY <1>1, <2>1
  <2> QED
    BY <2>1, <2>2, <2>3
<1>9. ASSUME NEW u \in Users, LogOther(u)
      PROVE  \E e : log' = Append(log, e) /\ e.after = board' /\ e.of = 0
  BY <1>2, <1>9 DEF LogOther
<1> QED
  BY <1>3, <1>4, <1>5, <1>6, <1>7, <1>8, <1>9 DEF Next, ReplayLast

(* Undo leaves the rows an entry names as they were before the operation,  *)
(* and redo as it left them, whatever was undone and redone in between     *)
(* (_undo_node_change, _redo_node_change and the same for lines).          *)
THEOREM UndoAndRedoPutRowsBack == Spec => ReplayPutsRowsBack
<1> DEFINE Exact ==
      /\ Replays("operation_undone") =>
           LET e == log[Replayed]
               back(now, before) == IF Exists(before) THEN SameRow(now, before) ELSE ~Live(now)
           IN  /\ \A n \in e.notes : back(board'.note[n], e.before.note[n])
               /\ \A l \in e.lines : back(board'.line[l], e.before.line[l])
      /\ Replays("operation_redone") =>
           LET e == log[Replayed]
           IN  /\ \A n \in e.notes : SameRow(board'.note[n], e.after.note[n])
               /\ \A l \in e.lines : SameRow(board'.line[l], e.after.line[l])
<1>1. ASSUME BoardInv, BoardInv', [Next]_vars PROVE Exact
  <2>1. CASE log' = log
    <3>1. Replayed = 0
      <4>1. Len(log) \in Nat
        BY <1>1, LogIsTyped
      <4> QED
        BY <2>1, <4>1 DEF Replayed
    <3> QED
      BY <3>1 DEF Replays
  <2>2. ASSUME NEW e, log' = Append(log, e), e.after = board' PROVE Exact
    <3>1. PICK k \in Nat : k = Len(log) + 1
      BY <1>1, LogIsTyped
    <3>2. /\ DOMAIN log = 1..Len(log) /\ Len(log') = k /\ Len(log) \in Nat
          /\ log'[k] = e /\ k \in DOMAIN log' /\ \A i \in DOMAIN log : log'[i] = log[i]
      BY <1>1, <2>2, <3>1 DEF BoardInv
    <3>3. Replayed = e.of /\ \A action : Replays(action) => e.action = action
      BY <3>1, <3>2 DEF Replayed, Replays
    <3>4. EntryIsSound(k, log[k])'
      BY <1>1, <3>2 DEF BoardInv, LogIsSound
    <3>5. CASE e.action \in Markers
      <4>1. MarkerIsSound(k, log[k])'
        BY <3>2, <3>4, <3>5 DEF EntryIsSound
      <4>2. e.of \in DOMAIN log /\ log'[e.of] = log[e.of]
        BY <3>1, <3>2, <4>1 DEF MarkerIsSound
      <4>3. /\ e.action = "operation_undone" => RowsAreUndone(log[e.of], board')
            /\ e.action = "operation_redone" => RowsAreRedone(log[e.of], board')
        BY <2>2, <3>2, <4>1, <4>2 DEF MarkerIsSound
      <4> QED
        BY <3>3, <4>3 DEF RowsAreUndone, RowsAreRedone, IsUndone, IsRedone
    <3> QED
      BY <3>3, <3>5 DEF Markers
  <2> QED
    BY <1>1, <2>1, <2>2, StepIsLogged
<1> QED
  BY <1>1, InvariantHolds, PTL DEF Spec, ReplayPutsRowsBack, UndoRestoresRows, RedoReappliesRows

(* Undo and redo overwrite nobody's work: between the operation, or its    *)
(* last undo or redo, and this one no entry is about its rows, and they    *)
(* are as they were left, whoever else may write without an entry (the     *)
(* version comparisons of undo_last and redo_last).                        *)
THEOREM UndoAndRedoOverwriteNothing == Spec => ReplayOverwritesNothing
<1> DEFINE Nothing == Replayed # 0 =>
      LET e == log[Replayed]
          marks == {k \in DOMAIN log : log[k].of = Replayed}
          since == IF marks = {} THEN Replayed ELSE Max(marks)
      IN  /\ \A k \in (since + 1)..Len(log) :
                log[k].notes \cap e.notes = {} /\ log[k].lines \cap e.lines = {}
          /\ \A n \in e.notes : SameRow(board.note[n], log[since].after.note[n])
          /\ \A l \in e.lines : SameRow(board.line[l], log[since].after.line[l])
<1>1. ASSUME BoardInv, [Next]_vars PROVE Nothing
  <2>1. log \in Seq(Entry) /\ Len(log) \in Nat
    BY <1>1, LogIsTyped DEF BoardInv
  <2>2. ASSUME NEW e, log' = Append(log, e) PROVE Replayed = e.of
    BY <2>1, <2>2 DEF Replayed
  <2>3. log' = log => Replayed = 0
    BY <2>1 DEF Replayed
  <2>4. ASSUME NEW e, NEW m, log' = Append(log, e),
               LastWord(e.of, m), StillCurrent(log[e.of], log[m].after)
        PROVE  Nothing
    <3>1. LET marks == {k \in DOMAIN log : log[k].of = e.of}
          IN  m = IF marks = {} THEN e.of ELSE Max(marks)
      BY <1>1, <2>4, LastWordIsLast
    <3>2. \A k \in (m + 1)..Len(log) :
             log[k].notes \cap log[e.of].notes = {} /\ log[k].lines \cap log[e.of].lines = {}
      BY <1>1, <2>4, NothingWasDone
    <3>3. Replayed = e.of
      BY <2>2, <2>4
    <3>4. /\ \A n \in log[e.of].notes : SameRow(board.note[n], log[m].after.note[n])
          /\ \A l \in log[e.of].lines : SameRow(board.line[l], log[m].after.line[l])
      BY <1>1, <2>4, RowsAreAsLeft
    <3> QED
      BY <3>1, <3>2, <3>3, <3>4
  <2> QED
    BY <1>1, <2>2, <2>3, <2>4, StepIsLogged
<1> QED
  BY <1>1, InvariantHolds, PTL DEF Spec, ReplayOverwritesNothing
-----------------------------------------------------------------------------
(* What becomes of lines.                                                  *)

(* A line keeps its ends until it is gone for good, and then it stays so.  *)
LineGoesOn(r, s) ==
    /\ r.status = "purged" => s.status = "purged"
    /\ Exists(r) => s.status = "purged" \/ (Exists(s) /\ s.ends = r.ends)
LinesGoOn(b, c) == \A l \in Lines : LineGoesOn(b.line[l], c.line[l])

LinesStay(b, c) == \A l \in Lines : c.line[l] = b.line[l]
LinesGo(b, c, n) == \A l \in Lines :
    IF l \in LinesAt(b, n)
    THEN Restorable(c.line[l]) /\ c.line[l].ends = b.line[l].ends
    ELSE c.line[l] = b.line[l]
LinesComeBack(b, c, n) == \A l \in Lines :
    IF /\ Exists(b.line[l]) /\ b.line[l].deleted # "no" /\ n \in b.line[l].ends
       /\ \A end \in b.line[l].ends : Live(c.note[end])
    THEN Live(c.line[l]) /\ c.line[l].ends = b.line[l].ends
    ELSE c.line[l] = b.line[l]
LinesAreRemoved(b, c, n) == \A l \in Lines :
    IF Exists(b.line[l]) /\ n \in b.line[l].ends
    THEN c.line[l].status = "purged"
    ELSE c.line[l] = b.line[l]
LineChanges(b, c, l) ==
    LineGoesOn(b.line[l], c.line[l]) /\ \A m \in Lines \ {l} : c.line[m] = b.line[m]

LEMMA LinesThatGoOn ==
  ASSUME NEW b, NEW c
  PROVE  /\ LinesStay(b, c) => LinesGoOn(b, c)
         /\ \A n \in Notes : LinesGo(b, c, n) => LinesGoOn(b, c)
         /\ \A n \in Notes : LinesComeBack(b, c, n) => LinesGoOn(b, c)
         /\ \A n \in Notes : LinesAreRemoved(b, c, n) => LinesGoOn(b, c)
         /\ \A l \in Lines : LineChanges(b, c, l) => LinesGoOn(b, c)
<1>1. \A r : LineGoesOn(r, r)
  BY DEF LineGoesOn
<1>2. LinesStay(b, c) => LinesGoOn(b, c)
  BY <1>1 DEF LinesStay, LinesGoOn
<1>3. ASSUME NEW n \in Notes, LinesGo(b, c, n) PROVE LinesGoOn(b, c)
  BY <1>1, <1>3 DEF LinesGo, LinesGoOn, LinesAt, Live, Restorable, Exists, LineGoesOn
<1>4. ASSUME NEW n \in Notes, LinesComeBack(b, c, n) PROVE LinesGoOn(b, c)
  <2> SUFFICES ASSUME NEW l \in Lines PROVE LineGoesOn(b.line[l], c.line[l])
    BY DEF LinesGoOn
  <2>1. \/ c.line[l] = b.line[l]
        \/ Exists(b.line[l]) /\ Live(c.line[l]) /\ c.line[l].ends = b.line[l].ends
    BY <1>4 DEF LinesComeBack
  <2> QED
    BY <1>1, <2>1 DEF Live, Exists, LineGoesOn
<1>5. ASSUME NEW n \in Notes, LinesAreRemoved(b, c, n) PROVE LinesGoOn(b, c)
  BY <1>1, <1>5 DEF LinesAreRemoved, LinesGoOn, LineGoesOn
<1>6. ASSUME NEW l \in Lines, LineChanges(b, c, l) PROVE LinesGoOn(b, c)
  BY <1>1, <1>6 DEF LineChanges, LinesGoOn
<1> QED
  BY <1>2, <1>3, <1>4, <1>5, <1>6

LEMMA LinesGoWithTheirNote ==
  ASSUME NEW b, Sound(b), NEW n \in Notes
  PROVE  LinesGo(b, SoftDeleted(b, n), n)
<1> DEFINE c == SoftDeleted(b, n)
<1>1. \A l \in Lines : b.line[l] \in LineRow
  BY BoardIsTyped DEF Sound
<1>2. \A l \in Lines : c.line[l] = IF l \in LinesAt(b, n)
                         THEN SetDeleted(b.line[l], "recent") ELSE b.line[l]
  BY DEF SoftDeleted
<1> HIDE DEF c
<1>3. ASSUME NEW l \in Lines, l \in LinesAt(b, n)
      PROVE  Restorable(c.line[l]) /\ c.line[l].ends = b.line[l].ends
  <2>1. PICK r \in LineRow : r = b.line[l]
    BY <1>1
  <2>2. PICK s : s = SetDeleted(r, "recent")
    OBVIOUS
  <2>3. s.status = r.status /\ s.deleted = "recent" /\ s.ends = r.ends
    BY <2>2, LineIsDeleted, AgesAre
  <2>4. c.line[l] = s
    BY <1>2, <1>3, <2>1, <2>2
  <2> QED
    BY <1>3, <2>1, <2>3, <2>4 DEF LinesAt, Live, Exists, Restorable
<1> QED
  BY <1>2, <1>3 DEF LinesGo, c

LEMMA LinesComeWithTheirNote ==
  ASSUME NEW b, Sound(b), NEW n \in Notes
  PROVE  LinesComeBack(b, Restored(b, n), n)
<1> DEFINE c == Restored(b, n)
           note == [b.note EXCEPT ![n] = SetDeleted(@, "no")]
           back(l) == /\ Exists(b.line[l]) /\ b.line[l].deleted # "no" /\ n \in b.line[l].ends
                      /\ \A end \in b.line[l].ends : Live(note[end])
<1>1. \A l \in Lines : b.line[l] \in LineRow
  BY BoardIsTyped DEF Sound
<1>2. /\ c.note = note
      /\ \A l \in Lines : c.line[l] = IF back(l) THEN SetDeleted(b.line[l], "no") ELSE b.line[l]
  BY DEF Restored
<1>3. \A l \in Lines : back(l) <=>
         /\ Exists(b.line[l]) /\ b.line[l].deleted # "no" /\ n \in b.line[l].ends
         /\ \A end \in b.line[l].ends : Live(c.note[end])
  BY <1>2
<1>4. \A l \in Lines : back(l) => Exists(b.line[l])
  OBVIOUS
<1> HIDE DEF c, back, note
<1>5. ASSUME NEW l \in Lines, back(l)
      PROVE  Live(c.line[l]) /\ c.line[l].ends = b.line[l].ends
  <2>1. PICK r \in LineRow : r = b.line[l]
    BY <1>1
  <2>2. PICK s : s = SetDeleted(r, "no")
    OBVIOUS
  <2>3. s.status = r.status /\ s.deleted = "no" /\ s.ends = r.ends
    BY <2>2, LineIsDeleted, AgesAre
  <2>4. c.line[l] = s
    BY <1>2, <1>5, <2>1, <2>2
  <2> QED
    BY <1>4, <1>5, <2>1, <2>3, <2>4 DEF Live, Exists
<1>6. LinesComeBack(b, c, n)
  <2> SUFFICES ASSUME NEW l \in Lines
               PROVE  IF back(l) THEN Live(c.line[l]) /\ c.line[l].ends = b.line[l].ends
                                 ELSE c.line[l] = b.line[l]
    BY <1>3 DEF LinesComeBack
  <2> QED
    BY <1>2, <1>5
<1> QED
  BY <1>6 DEF c

LEMMA LinesFallWithTheirNote ==
  ASSUME NEW b, NEW n \in Notes
  PROVE  LinesAreRemoved(b, Held(b, n), n)
<1>1. \A l \in Lines : Held(b, n).line[l] =
         IF Exists(b.line[l]) /\ n \in b.line[l].ends
         THEN [NoLine EXCEPT !.status = "purged"] ELSE b.line[l]
  BY DEF Held
<1> QED
  BY <1>1, NoLineIsTyped DEF LinesAreRemoved

LEMMA LineIsRewritten ==
  ASSUME NEW b, Sound(b), NEW l \in Lines, NEW d \in Ages
  PROVE  LineChanges(b, [b EXCEPT !.line[l] = SetDeleted(b.line[l], d)], l)
<1>1. PICK r \in LineRow : r = b.line[l]
  BY BoardIsTyped DEF Sound
<1>2. PICK x : x = SetDeleted(r, d)
  OBVIOUS
<1>3. x \in LineRow /\ x.status = r.status /\ x.ends = r.ends
  BY <1>2, LineIsDeleted
<1>4. PICK c : c = [b EXCEPT !.line[l] = x]
  OBVIOUS
<1>5. c.line[l] = x /\ \A m \in Lines \ {l} : c.line[m] = b.line[m]
  BY <1>3, <1>4, LineIsPut DEF Sound
<1>6. LineChanges(b, c, l)
  BY <1>1, <1>3, <1>5 DEF LineChanges, LineGoesOn, Exists
<1> QED
  BY <1>1, <1>2, <1>4, <1>6

(* What undoing or redoing an operation comes to.                          *)
NoteGoes(e) == \E n \in Notes : e.notes = {n} /\ e.lines = {} /\ TakeAway(n)
NoteComes(e) == \E n \in Notes : e.notes = {n} /\ e.lines = {} /\ BringBack(n)
NoteIsHeldAgain(e) == \E n \in Notes :
    e.notes = {n} /\ e.lines = {} /\ Live(board.note[n]) /\ board' = Held(board, n)
NotesArePutBack(e) ==
    /\ \A n \in e.notes : Live(board.note[n]) /\ Live(board'.note[n])
    /\ LinesStay(board, board')
LineIsReplayed(e) == \E l \in Lines :
    e.notes = {} /\ e.lines = {l} /\ LineChanges(board, board', l)

LEMMA PutBackKeepsLines ==
  ASSUME BoardInv, NEW e, NEW from, PutBack(e, from)
  PROVE  LinesStay(board, board')
<1>1. board'.line = board.line
  <2>1. PICK f : board' = [board EXCEPT !.note = f]
    BY DEF PutBack, Rewritten
  <2>2. board = [note |-> board.note, line |-> board.line]
    BY DEF BoardInv, Sound, Board
  <2> QED
    BY <2>1, <2>2
<1> QED
  BY <1>1 DEF LinesStay

LEMMA LinesAreReplayed ==
  ASSUME BoardInv, NEW l \in Lines, RemoveLine(l) \/ RedrawLine(l)
  PROVE  LineChanges(board, board', l)
  BY LineIsRewritten, AgesAre DEF BoardInv, RemoveLine, RedrawLine

LEMMA UndoComesTo ==
  ASSUME BoardInv, NEW e, e.notes \in SUBSET Notes, Sound(e.before), Sound(e.after),
         OperationIsSound(e), RowsAreRedone(e, board), Reverted(e), OneLinePerPair(board')
  PROVE  /\ e.action = "node_deleted" => NoteComes(e)
         /\ IsHolding(e) => NotesArePutBack(e)
         /\ NoteComes(e) \/ NoteGoes(e) \/ NotesArePutBack(e) \/ LineIsReplayed(e)
<1>1. RowsAreUndone(e, board')
  BY RevertedIsExact
<1>2. ASSUME e.action \in OnOneNote PROVE \E n \in Notes : e.notes = {n}
  BY <1>2 DEF OperationIsSound
<1>3. CASE e.action = "node_created" \/ e.action = "node_restored"
  <2>1. PICK n \in Notes : e.notes = {n}
    BY <1>2, <1>3, ActionsDiffer
  <2>2. e.lines = {} /\ TakeAway(n)
    BY <1>3, <2>1, ActionsDiffer DEF OperationIsSound, Reverted, PutBack
  <2> QED
    BY <1>3, <2>1, <2>2, ActionsDiffer DEF NoteGoes, IsHolding
<1>4. CASE e.action = "node_deleted"
  <2>1. PICK n \in Notes : e.notes = {n}
    BY <1>2, <1>4, ActionsDiffer
  <2>2. e.lines = {} /\ BringBack(n)
    BY <1>4, <2>1, ActionsDiffer DEF OperationIsSound, Reverted, PutBack
  <2> QED
    BY <1>4, <2>1, <2>2, ActionsDiffer DEF NoteComes, IsHolding
<1>5. CASE e.action \in Edits
  <2>1. PutBack(e, e.before) /\ e.action # "node_deleted"
    BY <1>5, ActionsDiffer DEF Reverted
  <2>2. \A n \in e.notes : Live(e.before.note[n])
    BY <1>5 DEF OperationIsSound, NoteOperation
  <2>3. \A n \in e.notes : Live(board.note[n]) /\ Live(board'.note[n])
    BY <1>1, <2>1, <2>2 DEF PutBack, RowsAreUndone, IsUndone, SameRow, Live
  <2>4. LinesStay(board, board')
    BY <2>1, PutBackKeepsLines
  <2> QED
    BY <2>1, <2>3, <2>4 DEF NotesArePutBack
<1>6. CASE e.action \in OnOneLine
  <2>1. PICK l \in Lines : e.lines = {l} /\ e.notes = {}
    BY <1>6 DEF OperationIsSound
  <2>2. RemoveLine(l) \/ RedrawLine(l)
    BY <1>6, <2>1, ActionsDiffer DEF Reverted, PutBack
  <2>3. LineChanges(board, board', l)
    BY <2>2, LinesAreReplayed
  <2> QED
    BY <1>6, <2>1, <2>3, ActionsDiffer DEF LineIsReplayed, IsHolding
<1> QED
  BY <1>3, <1>4, <1>5, <1>6, ActionsDiffer DEF Reverted, PutBack

LEMMA RedoComesTo ==
  ASSUME BoardInv, NEW e, e.notes \in SUBSET Notes, Sound(e.before), Sound(e.after),
         OperationIsSound(e), RowsAreUndone(e, board), Reapplied(e), OneLinePerPair(board')
  PROVE  \/ IsHolding(e) /\ NoteIsHeldAgain(e)
         \/ /\ ~IsHolding(e)
            /\ NoteComes(e) \/ NoteGoes(e) \/ NotesArePutBack(e) \/ LineIsReplayed(e)
<1>1. RowsAreRedone(e, board')
  BY ReappliedIsExact
<1>2. ASSUME e.action \in OnOneNote PROVE e.lines = {} /\ \E n \in Notes : e.notes = {n}
  BY <1>2, ActionsDiffer DEF OperationIsSound
<1>3. CASE e.action = "node_created" \/ e.action = "node_restored"
  <2>1. PICK n \in Notes : e.notes = {n}
    BY <1>2, <1>3, ActionsDiffer
  <2>2. e.lines = {} /\ BringBack(n)
    BY <1>2, <1>3, <2>1, ActionsDiffer DEF Reapplied, PutBack, IsHolding
  <2> QED
    BY <1>3, <2>1, <2>2, ActionsDiffer DEF NoteComes, IsHolding
<1>4. CASE e.action = "node_deleted"
  <2>1. PICK n \in Notes : e.notes = {n}
    BY <1>2, <1>4, ActionsDiffer
  <2>2. e.lines = {} /\ TakeAway(n)
    BY <1>2, <1>4, <2>1, ActionsDiffer DEF Reapplied, PutBack, IsHolding
  <2> QED
    BY <1>4, <2>1, <2>2, ActionsDiffer DEF NoteGoes, IsHolding
<1>5. CASE IsHolding(e)
  <2>1. e.action = "node_status_updated"
    BY <1>5 DEF IsHolding
  <2>2. PICK n \in Notes : e.notes = {n}
    BY <1>2, <2>1, ActionsDiffer
  <2>3. e.lines = {} /\ Live(board.note[n]) /\ board' = Held(board, n)
    BY <1>2, <1>5, <2>1, <2>2, ActionsDiffer DEF Reapplied
  <2> QED
    BY <1>5, <2>2, <2>3 DEF NoteIsHeldAgain
<1>6. CASE e.action \in Edits /\ ~IsHolding(e)
  <2>1. PutBack(e, e.after)
    BY <1>6, ActionsDiffer DEF Reapplied
  <2>2. \A n \in e.notes : Live(e.after.note[n])
    BY <1>6 DEF OperationIsSound, NoteOperation
  <2>3. \A n \in e.notes : Live(board.note[n]) /\ Live(board'.note[n])
    BY <1>1, <2>1, <2>2 DEF PutBack, RowsAreRedone, IsRedone, SameRow, Live
  <2>4. LinesStay(board, board')
    BY <2>1, PutBackKeepsLines
  <2> QED
    BY <1>6, <2>3, <2>4 DEF NotesArePutBack
<1>7. CASE e.action \in OnOneLine
  <2>1. PICK l \in Lines : e.lines = {l} /\ e.notes = {}
    BY <1>7 DEF OperationIsSound
  <2>2. RemoveLine(l) \/ RedrawLine(l)
    BY <1>7, <2>1, ActionsDiffer DEF Reapplied, PutBack, IsHolding
  <2>3. LineChanges(board, board', l)
    BY <2>2, LinesAreReplayed
  <2> QED
    BY <1>7, <2>1, <2>3, ActionsDiffer DEF LineIsReplayed, IsHolding
<1> QED
  BY <1>3, <1>4, <1>5, <1>6, <1>7, ActionsDiffer DEF Reapplied, PutBack, IsHolding

(* A hold left no line at its note.                                        *)
HoldRemovesLines(e) == IsHolding(e) => \A n \in e.notes : \A l \in Lines :
    Exists(e.before.line[l]) /\ n \in e.before.line[l].ends => e.after.line[l].status = "purged"

LinesInv == \A k \in DOMAIN log :
    /\ LinesGoOn(log[k].before, board) /\ LinesGoOn(log[k].after, board)
    /\ HoldRemovesLines(log[k])

(* What a step adds to the log.                                            *)
IsLogged == \/ log' = log
            \/ \E e : /\ log' = Append(log, e) /\ e.before = board /\ e.after = board'
                      /\ HoldRemovesLines(e)

LEMMA EntryIsLogged ==
  ASSUME NEW u, NEW action, NEW notes, NEW lines, NEW of, Record(u, action, notes, lines, of),
         action # "node_status_updated"
  PROVE  IsLogged
<1> DEFINE e == NewEntry(u, action, notes, lines, of, board')
<1>1. log' = Append(log, e)
  BY DEF Record, NewEntry
<1>2. e.before = board /\ e.after = board' /\ e.action # "node_status_updated"
  BY DEF NewEntry
<1> HIDE DEF e
<1> QED
  BY <1>1, <1>2 DEF IsLogged, HoldRemovesLines, IsHolding

LEMMA HoldIsLogged ==
  ASSUME BoardInv, NEW u \in Users, NEW n \in Notes, Hold(u, n)
  PROVE  IsLogged /\ LinesGoOn(board, board')
<1>1. board' = Held(board, n) /\ Record(u, "node_status_updated", {n}, {}, 0)
  BY DEF Hold, Commit
<1>2. LinesAreRemoved(board, board', n)
  BY <1>1, LinesFallWithTheirNote
<1> DEFINE e == NewEntry(u, "node_status_updated", {n}, {}, 0, board')
<1>3. log' = Append(log, e)
  BY <1>1 DEF Record, NewEntry
<1>4. e.before = board /\ e.after = board' /\ e.notes = {n}
  BY DEF NewEntry
<1> HIDE DEF e
<1>5. HoldRemovesLines(e)
  BY <1>2, <1>4 DEF HoldRemovesLines, LinesAreRemoved
<1>6. LinesGoOn(board, board')
  BY <1>2, LinesThatGoOn
<1> QED
  BY <1>3, <1>4, <1>5, <1>6 DEF IsLogged

LEMMA NoteChangesStay ==
  ASSUME BoardInv, NEW n, NEW x, board' = [board EXCEPT !.note[n] = x]
  PROVE  LinesGoOn(board, board')
<1>1. board'.line = board.line
  <2>1. board = [note |-> board.note, line |-> board.line]
    BY DEF BoardInv, Sound, Board
  <2> QED
    BY <2>1
<1> QED
  BY <1>1, LinesThatGoOn DEF LinesStay

LEMMA ReleaseIsLogged ==
  ASSUME BoardInv, NEW u \in Users, NEW n \in Notes, Release(u, n)
  PROVE  IsLogged /\ LinesGoOn(board, board')
<1>1. /\ board' = [board EXCEPT !.note[n] = Released(board.note[n])]
      /\ Record(u, "node_status_updated", {n}, {}, 0)
  BY DEF Release, Commit
<1>2. board'.note[n].status # "held"
  <2>1. PICK r \in NoteRow : r = board.note[n]
    BY BoardIsTyped DEF BoardInv, Sound
  <2>2. PICK x : x = Released(r)
    OBVIOUS
  <2>3. x.status = StatusIn(r.held_from)
    BY <2>1, <2>2 DEF Released, NoteRow
  <2>4. board'.note[n] = x
    BY <1>1, <2>1, <2>2 DEF BoardInv, Sound, Board
  <2> QED
    BY <2>3, <2>4 DEF StatusIn
<1> DEFINE e == NewEntry(u, "node_status_updated", {n}, {}, 0, board')
<1>3. log' = Append(log, e)
  BY <1>1 DEF Record, NewEntry
<1>4. e.before = board /\ e.after = board' /\ e.notes = {n}
  BY DEF NewEntry
<1> HIDE DEF e
<1>5. HoldRemovesLines(e)
  BY <1>2, <1>4 DEF HoldRemovesLines, IsHolding, HeldIn
<1>6. LinesGoOn(board, board')
  BY <1>1, NoteChangesStay
<1> QED
  BY <1>3, <1>4, <1>5, <1>6 DEF IsLogged

LEMMA NoteStepMovesLines ==
  ASSUME BoardInv, NEW u \in Users, NEW n \in Notes, OnNote(u, n)
  PROVE  IsLogged /\ LinesGoOn(board, board')
<1>1. ASSUME NEW action, NEW c, Commit(u, action, {n}, {}, 0, c), action # "node_status_updated"
      PROVE  board' = c /\ IsLogged
  BY <1>1, EntryIsLogged DEF Commit
<1>2. ASSUME NEW action, NEW x, action # "node_status_updated",
             Commit(u, action, {n}, {}, 0, [board EXCEPT !.note[n] = x])
      PROVE  IsLogged /\ LinesGoOn(board, board')
  BY <1>1, <1>2, NoteChangesStay
<1>3. CASE CreateNote(u, n)
  BY <1>2, <1>3 DEF CreateNote
<1>4. CASE UpdateContent(u, n)
  BY <1>2, <1>4 DEF UpdateContent
<1>5. CASE Assign(u, n)
  BY <1>2, <1>5 DEF Assign
<1>6. CASE Move(u, n)
  BY <1>2, <1>6 DEF Move
<1>7. CASE DeleteNote(u, n)
  <2>1. IsLogged /\ board' = SoftDeleted(board, n)
    BY <1>1, <1>7 DEF DeleteNote
  <2>2. LinesGo(board, board', n)
    BY <2>1, LinesGoWithTheirNote DEF BoardInv
  <2> QED
    BY <2>1, <2>2, LinesThatGoOn
<1>8. CASE RestoreNote(u, n)
  <2>1. IsLogged /\ board' = Restored(board, n)
    BY <1>1, <1>8 DEF RestoreNote
  <2>2. LinesComeBack(board, board', n)
    BY <2>1, LinesComeWithTheirNote DEF BoardInv
  <2> QED
    BY <2>1, <2>2, LinesThatGoOn
<1> QED
  BY <1>3, <1>4, <1>5, <1>6, <1>7, <1>8, HoldIsLogged, ReleaseIsLogged DEF OnNote

LEMMA LineStepMovesLines ==
  ASSUME BoardInv, NEW u \in Users, NEW l \in Lines, OnLine(u, l)
  PROVE  IsLogged /\ LinesGoOn(board, board')
<1>1. CASE CreateConnection(u, l)
  <2>1. PICK ends \in kSubset(2, Notes) :
          /\ board.line[l].status = "absent"
          /\ Commit(u, "connection_created", {}, {l}, 0, [board EXCEPT !.line[l] = NewLine(ends)])
    BY <1>1 DEF CreateConnection
  <2>2. PICK x \in LineRow : x = NewLine(ends)
    BY NewLineIsTyped
  <2>3. board' = [board EXCEPT !.line[l] = x] /\ IsLogged
    BY <2>1, <2>2, EntryIsLogged DEF Commit
  <2>4. \A m \in Lines \ {l} : board'.line[m] = board.line[m]
    BY <2>2, <2>3, LineIsPut DEF BoardInv, Sound
  <2>5. LineChanges(board, board', l)
    BY <2>1, <2>4 DEF LineChanges, LineGoesOn, Exists
  <2> QED
    BY <2>3, <2>5, LinesThatGoOn
<1>2. CASE DeleteConnection(u, l)
  <2>1. board' = [board EXCEPT !.line[l] = SetDeleted(board.line[l], "recent")] /\ IsLogged
    BY <1>2, EntryIsLogged DEF DeleteConnection, Commit
  <2>2. LineChanges(board, board', l)
    BY <2>1, LineIsRewritten, AgesAre DEF BoardInv
  <2> QED
    BY <2>1, <2>2, LinesThatGoOn
<1> QED
  BY <1>1, <1>2 DEF OnLine

LEMMA SilentStepMovesLines ==
  ASSUME BoardInv, ReturnNotes \/ Expire \/ Purge
  PROVE  IsLogged /\ LinesGoOn(board, board')
<1>1. log' = log
  BY DEF ReturnNotes, Expire, Purge
<1>2. board = [note |-> board.note, line |-> board.line]
  BY DEF BoardInv, Sound, Board
<1>3. CASE ReturnNotes
  <2>1. PICK f : board' = [board EXCEPT !.note = f]
    BY <1>3 DEF ReturnNotes
  <2>2. board'.line = board.line
    BY <1>2, <2>1
  <2> QED
    BY <1>1, <2>2, LinesThatGoOn DEF LinesStay, IsLogged
<1>4. CASE Expire
  <2>1. CASE \E n \in Notes : board' = [board EXCEPT !.note[n].deleted = "expired"]
    <3>1. PICK n \in Notes : board' = [board EXCEPT !.note[n].deleted = "expired"]
      BY <2>1
    <3>2. board'.line = board.line
      BY <1>2, <3>1
    <3> QED
      BY <1>1, <3>2, LinesThatGoOn DEF LinesStay, IsLogged
  <2>2. CASE \E l \in Lines : board' = [board EXCEPT !.line[l].deleted = "expired"]
    <3>1. PICK l \in Lines : board' = [board EXCEPT !.line[l].deleted = "expired"]
      BY <2>2
    <3>2. PICK r \in LineRow : r = board.line[l]
      BY BoardIsTyped DEF BoardInv, Sound
    <3>3. PICK x : x = [r EXCEPT !.deleted = "expired"]
      OBVIOUS
    <3>4. x \in LineRow /\ x.status = r.status /\ x.ends = r.ends
      BY <3>2, <3>3 DEF LineRow, Ages
    <3>5. board' = [board EXCEPT !.line[l] = x]
      BY <3>1, <3>2, <3>3
    <3>6. board'.line[l] = x /\ \A m \in Lines \ {l} : board'.line[m] = board.line[m]
      BY <3>4, <3>5, LineIsPut DEF BoardInv, Sound
    <3>7. LineChanges(board, board', l)
      BY <3>2, <3>4, <3>6 DEF LineChanges, LineGoesOn, Exists
    <3> QED
      BY <1>1, <3>7, LinesThatGoOn DEF IsLogged
  <2> QED
    BY <1>4, <2>1, <2>2 DEF Expire
<1>5. CASE Purge
  <2>1. PICK notes \in SUBSET {n \in Notes : board.note[n].deleted = "expired"},
             lines \in SUBSET {l \in Lines : board.line[l].deleted = "expired"} :
           LET gone(l) == l \in lines \/ board.line[l].ends \cap notes # {} IN
           board' = [note |-> [n \in Notes |-> IF n \in notes
                                 THEN [NoNote EXCEPT !.status = "purged"] ELSE board.note[n]],
                     line |-> [l \in Lines |-> IF gone(l)
                                 THEN [NoLine EXCEPT !.status = "purged"] ELSE board.line[l]]]
    BY <1>5 DEF Purge
  <2> DEFINE gone(l) == l \in lines \/ board.line[l].ends \cap notes # {}
             g == [l \in Lines |-> IF gone(l)
                     THEN [NoLine EXCEPT !.status = "purged"] ELSE board.line[l]]
  <2>2. board'.line = g
    BY <2>1
  <2>3. LinesGoOn(board, board')
    <3> SUFFICES ASSUME NEW l \in Lines PROVE LineGoesOn(board.line[l], board'.line[l])
      BY DEF LinesGoOn
    <3>1. board'.line[l] = board.line[l] \/ board'.line[l] = [NoLine EXCEPT !.status = "purged"]
      BY <2>2
    <3> QED
      BY <3>1, NoLineIsTyped DEF LineGoesOn
  <2> QED
    BY <1>1, <2>3 DEF IsLogged
<1> QED
  BY <1>3, <1>4, <1>5

(* The operation a step replays, and how.                                  *)
IsReplayed(e) ==
    /\ e.notes \in SUBSET Notes /\ Sound(e.before) /\ Sound(e.after) /\ OperationIsSound(e)
    /\ OneLinePerPair(board') /\ Sound(board')
IsUndoOf(e) == IsReplayed(e) /\ RowsAreRedone(e, board) /\ Reverted(e)
IsRedoOf(e) == IsReplayed(e) /\ RowsAreUndone(e, board) /\ Reapplied(e)

LEMMA UndoReplays ==
  ASSUME BoardInv, BoardInv', NEW u \in Users, UndoLast(u)
  PROVE  \E i \in DOMAIN log : IsUndoOf(log[i]) /\ Record(u, "operation_undone", log[i].notes, log[i].lines, i)
<1> DEFINE i == Max(Undoable(u))
<1>1. /\ Undoable(u) # {} /\ StillCurrent(log[i], LeftBy(u, i)) /\ Reverted(log[i])
      /\ OneLinePerPair(board') /\ Record(u, "operation_undone", log[i].notes, log[i].lines, i)
  BY DEF UndoLast
<1>2. PICK m : /\ LastWord(i, m) /\ LeftBy(u, i) = log[m].after /\ log[i].actor = u
               /\ m # i => log[m].action = "operation_redone"
  BY <1>1, UndoFinds
<1> HIDE DEF i
<1>3. i \in DOMAIN log /\ log[i].action \notin Markers
  BY <1>2 DEF LastWord
<1>4. RowsAreRedone(log[i], board)
  BY <1>1, <1>2, UndoIsReady
<1>5. Sound(board')
  BY DEF BoardInv
<1>6. IsUndoOf(log[i])
  BY <1>1, <1>3, <1>4, <1>5, LogIsTyped DEF IsUndoOf, IsReplayed
<1> QED
  BY <1>1, <1>3, <1>6

LEMMA RedoReplays ==
  ASSUME BoardInv, BoardInv', NEW u \in Users, RedoLast(u)
  PROVE  \E i \in DOMAIN log : IsRedoOf(log[i]) /\ Record(u, "operation_redone", log[i].notes, log[i].lines, i)
<1>1. PICK i \in Redoable(u) :
        /\ StillCurrent(log[i], log[LastMark(u, i)].after) /\ Reapplied(log[i])
        /\ OneLinePerPair(board') /\ Record(u, "operation_redone", log[i].notes, log[i].lines, i)
  BY DEF RedoLast
<1> DEFINE m == LastMark(u, i)
<1>2. LastWord(i, m) /\ log[i].actor = u /\ m # i /\ log[m].action = "operation_undone"
  BY RedoFinds
<1>3. i \in DOMAIN log /\ log[i].action \notin Markers
  BY <1>2 DEF LastWord
<1>4. RowsAreUndone(log[i], board)
  BY <1>1, <1>2, RedoIsReady
<1>5. Sound(board')
  BY DEF BoardInv
<1>6. IsRedoOf(log[i])
  BY <1>1, <1>3, <1>4, <1>5, LogIsTyped DEF IsRedoOf, IsReplayed
<1> QED
  BY <1>1, <1>3, <1>6

LEMMA ReplayMovesLines ==
  ASSUME BoardInv, NEW e, IsUndoOf(e) \/ IsRedoOf(e)
  PROVE  LinesGoOn(board, board')
<1>1. NoteComes(e) \/ NoteGoes(e) \/ NotesArePutBack(e) \/ LineIsReplayed(e) \/ NoteIsHeldAgain(e)
  BY UndoComesTo, RedoComesTo DEF IsUndoOf, IsRedoOf, IsReplayed
<1>2. CASE NoteComes(e)
  <2>1. PICK n \in Notes : board' = Restored(board, n)
    BY <1>2 DEF NoteComes, BringBack
  <2>2. LinesComeBack(board, board', n)
    BY <2>1, LinesComeWithTheirNote DEF BoardInv
  <2> QED
    BY <2>2, LinesThatGoOn
<1>3. CASE NoteGoes(e)
  <2>1. PICK n \in Notes : board' = SoftDeleted(board, n)
    BY <1>3 DEF NoteGoes, TakeAway
  <2>2. LinesGo(board, board', n)
    BY <2>1, LinesGoWithTheirNote DEF BoardInv
  <2> QED
    BY <2>2, LinesThatGoOn
<1>4. CASE NoteIsHeldAgain(e)
  <2>1. PICK n \in Notes : board' = Held(board, n)
    BY <1>4 DEF NoteIsHeldAgain
  <2>2. LinesAreRemoved(board, board', n)
    BY <2>1, LinesFallWithTheirNote
  <2> QED
    BY <2>2, LinesThatGoOn
<1> QED
  BY <1>1, <1>2, <1>3, <1>4, LinesThatGoOn DEF NotesArePutBack, LineIsReplayed

LEMMA StepMovesLines ==
  ASSUME BoardInv, BoardInv', [Next]_vars
  PROVE  IsLogged /\ LinesGoOn(board, board')
<1>1. ASSUME NEW u \in Users, ReplayLast(u) PROVE IsLogged /\ LinesGoOn(board, board')
  BY <1>1, UndoReplays, RedoReplays, ReplayMovesLines, EntryIsLogged DEF ReplayLast
<1>2. ASSUME NEW u \in Users, OnCanvas(u) PROVE IsLogged /\ LinesGoOn(board, board')
  <2>1. IsLogged
    BY <1>2, EntryIsLogged DEF OnCanvas, MoveMany, AutoLayout, Commit
  <2>2. PICK f : board' = [board EXCEPT !.note = f]
    BY <1>2 DEF OnCanvas, MoveMany, AutoLayout, Commit, WithNotes
  <2>3. board'.line = board.line
    <3>1. board = [note |-> board.note, line |-> board.line]
      BY DEF BoardInv, Sound, Board
    <3> QED
      BY <2>2, <3>1
  <2> QED
    BY <2>1, <2>3, LinesThatGoOn DEF LinesStay
<1>3. ASSUME NEW u \in Users, LogOther(u) PROVE IsLogged /\ LinesGoOn(board, board')
  <2>1. IsLogged /\ board' = board
    <3>1. PICK action \in Others : Commit(u, action, {}, {}, 0, board)
      BY <1>3 DEF LogOther
    <3>2. action # "node_status_updated"
      BY OthersAreOthers DEF Edits
    <3> QED
      BY <3>1, <3>2, EntryIsLogged DEF Commit
  <2> QED
    BY <2>1, LinesThatGoOn DEF LinesStay
<1>4. CASE UNCHANGED vars
  BY <1>4, LinesThatGoOn DEF vars, IsLogged, LinesStay
<1> QED
  BY <1>1, <1>2, <1>3, <1>4, NoteStepMovesLines, LineStepMovesLines, SilentStepMovesLines DEF Next

LEMMA LinesKeepGoing ==
  ASSUME BoardInv, BoardInv', LinesInv, [Next]_vars
  PROVE  LinesInv'
<1>1. IsLogged /\ LinesGoOn(board, board')
  BY StepMovesLines
<1>2. \A c : LinesGoOn(c, board) => LinesGoOn(c, board')
  BY <1>1 DEF LinesGoOn, LineGoesOn
<1>3. log \in Seq(Entry) /\ Len(log) \in Nat
  BY LogIsTyped DEF BoardInv
<1>4. CASE log' = log
  BY <1>2, <1>4 DEF LinesInv, HoldRemovesLines
<1>5. ASSUME NEW e, log' = Append(log, e), e.before = board, e.after = board', HoldRemovesLines(e)
      PROVE  LinesInv'
  <2>1. /\ DOMAIN log' = DOMAIN log \cup {Len(log) + 1} /\ log'[Len(log) + 1] = e
        /\ \A k \in DOMAIN log : log'[k] = log[k]
    BY <1>3, <1>5
  <2>2. LinesGoOn(board', board')
    BY LinesThatGoOn DEF LinesStay
  <2> SUFFICES ASSUME NEW k \in DOMAIN log'
               PROVE  /\ LinesGoOn(log'[k].before, board') /\ LinesGoOn(log'[k].after, board')
                      /\ HoldRemovesLines(log'[k])
    BY DEF LinesInv, HoldRemovesLines
  <2> QED
    BY <1>1, <1>2, <1>5, <2>1, <2>2 DEF LinesInv
<1> QED
  BY <1>1, <1>4, <1>5 DEF IsLogged

LEMMA LinesHold == Spec => [](BoardInv /\ LinesInv)
<1>1. Init => LinesInv
  <2>1. Init => log = <<>>
    BY DEF Init
  <2> QED
    BY <2>1 DEF LinesInv
<1>2. BoardInv /\ BoardInv' /\ LinesInv /\ [Next]_vars => LinesInv'
  BY LinesKeepGoing
<1> QED
  BY <1>1, <1>2, InvariantHolds, PTL DEF Spec

(* What LinesGoWithNotes and UndoBringsLinesBack say of the step that      *)
(* replays entry e.                                                        *)
LinesMind(e, held) ==
    LET back == {n \in e.notes : ~Live(board.note[n]) /\ Live(board'.note[n])}
        gone == {n \in e.notes : Live(board.note[n]) /\ ~Live(board'.note[n])}
    IN  \A l \in Lines \ e.lines :
          LET old == board.line[l]
              new == board'.line[l]
              meets(S) == old.ends \cap S # {}
          IN  /\ Exists(old) /\ meets(back) =>
                   (Live(new) <=> \A n \in old.ends : Live(board'.note[n]))
              /\ Live(old) /\ meets(gone) => Restorable(new)
              /\ Exists(old) /\ meets(held) => new.status = "purged"
              /\ ~meets(back \cup gone \cup held) => new = old
LinesAreBack(e) == \A n \in e.notes : \A l \in LinesAt(e.before, n) :
    /\ e.action = "node_deleted" =>
         (Live(board'.line[l]) <=>
             /\ Exists(board.line[l])
             /\ \A end \in e.before.line[l].ends : Live(board'.note[end]))
    /\ IsHolding(e) => ~Exists(board'.line[l])

(* A line at a note that is not there is not there either.                 *)
LEMMA NoLineAtDeletedNote ==
  ASSUME BoardInv, NEW n \in Notes, ~Live(board.note[n]), NEW l \in Lines,
         n \in board.line[l].ends, Exists(board.line[l])
  PROVE  board.line[l].deleted # "no" /\ ~Live(board.line[l])
  BY DEF BoardInv, Sound, Live

LEMMA NoteThatComes ==
  ASSUME BoardInv, NEW n \in Notes, BringBack(n), OneLinePerPair(board')
  PROVE  ~Live(board.note[n]) /\ Live(board'.note[n]) /\ LinesComeBack(board, board', n)
<1>1. Restorable(board.note[n]) /\ board' = Restored(board, n) /\ Sound(board)
  BY DEF BringBack, BoardInv
<1>2. Live(board'.note[n])
  BY <1>1, RestoredIsSound
<1>3. LinesComeBack(board, board', n)
  BY <1>1, LinesComeWithTheirNote
<1> QED
  BY <1>1, <1>2, <1>3 DEF Restorable, Live

LEMMA NoteThatGoes ==
  ASSUME BoardInv, NEW n \in Notes, TakeAway(n), OneLinePerPair(board')
  PROVE  Live(board.note[n]) /\ ~Live(board'.note[n]) /\ LinesGo(board, board', n)
<1>1. Live(board.note[n]) /\ board' = SoftDeleted(board, n) /\ Sound(board)
  BY DEF TakeAway, BoardInv
<1>2. ~Live(board'.note[n])
  BY <1>1, SoftDeletedIsSound
<1>3. LinesGo(board, board', n)
  BY <1>1, LinesGoWithTheirNote
<1> QED
  BY <1>1, <1>2, <1>3

LEMMA LinesMindNotes ==
  ASSUME BoardInv, NEW e, OneLinePerPair(board'),
         NoteComes(e) \/ NoteGoes(e) \/ NotesArePutBack(e) \/ LineIsReplayed(e)
  PROVE  LinesMind(e, {})
<1>1. CASE NoteComes(e)
  <2>1. PICK n \in Notes : e.notes = {n} /\ e.lines = {} /\ BringBack(n)
    BY <1>1 DEF NoteComes
  <2>2. ~Live(board.note[n]) /\ Live(board'.note[n]) /\ LinesComeBack(board, board', n)
    BY <2>1, NoteThatComes
  <2>3. ASSUME NEW l \in Lines, Exists(board.line[l]), n \in board.line[l].ends
        PROVE  Live(board'.line[l]) <=> \A m \in board.line[l].ends : Live(board'.note[m])
    <3>1. board.line[l].deleted # "no" /\ ~Live(board.line[l])
      BY <2>2, <2>3, NoLineAtDeletedNote
    <3>2. CASE \A m \in board.line[l].ends : Live(board'.note[m])
      BY <2>2, <2>3, <3>1, <3>2 DEF LinesComeBack
    <3>3. CASE ~\A m \in board.line[l].ends : Live(board'.note[m])
      BY <2>2, <2>3, <3>1, <3>3 DEF LinesComeBack
    <3> QED
      BY <3>2, <3>3
  <2>4. \A l \in Lines : n \notin board.line[l].ends => board'.line[l] = board.line[l]
    BY <2>2 DEF LinesComeBack
  <2>5. /\ {m \in e.notes : ~Live(board.note[m]) /\ Live(board'.note[m])} = {n}
        /\ {m \in e.notes : Live(board.note[m]) /\ ~Live(board'.note[m])} = {}
    BY <2>1, <2>2
  <2> QED
    BY <2>3, <2>4, <2>5 DEF LinesMind
<1>2. CASE NoteGoes(e)
  <2>1. PICK n \in Notes : e.notes = {n} /\ e.lines = {} /\ TakeAway(n)
    BY <1>2 DEF NoteGoes
  <2>2. Live(board.note[n]) /\ ~Live(board'.note[n]) /\ LinesGo(board, board', n)
    BY <2>1, NoteThatGoes
  <2>3. ASSUME NEW l \in Lines
        PROVE  /\ Live(board.line[l]) /\ n \in board.line[l].ends => Restorable(board'.line[l])
               /\ n \notin board.line[l].ends => board'.line[l] = board.line[l]
    BY <2>2 DEF LinesGo, LinesAt
  <2>4. /\ {m \in e.notes : ~Live(board.note[m]) /\ Live(board'.note[m])} = {}
        /\ {m \in e.notes : Live(board.note[m]) /\ ~Live(board'.note[m])} = {n}
    BY <2>1, <2>2
  <2> QED
    BY <2>3, <2>4 DEF LinesMind
<1>3. CASE NotesArePutBack(e)
  <2>1. /\ {m \in e.notes : ~Live(board.note[m]) /\ Live(board'.note[m])} = {}
        /\ {m \in e.notes : Live(board.note[m]) /\ ~Live(board'.note[m])} = {}
    BY <1>3 DEF NotesArePutBack
  <2>2. \A l \in Lines : board'.line[l] = board.line[l]
    BY <1>3 DEF NotesArePutBack, LinesStay
  <2> QED
    BY <2>1, <2>2 DEF LinesMind
<1>4. CASE LineIsReplayed(e)
  <2>1. e.notes = {} /\ \A l \in Lines \ e.lines : board'.line[l] = board.line[l]
    BY <1>4 DEF LineIsReplayed, LineChanges
  <2>2. /\ {m \in e.notes : ~Live(board.note[m]) /\ Live(board'.note[m])} = {}
        /\ {m \in e.notes : Live(board.note[m]) /\ ~Live(board'.note[m])} = {}
    BY <2>1
  <2> QED
    BY <2>1, <2>2 DEF LinesMind
<1> QED
  BY <1>1, <1>2, <1>3, <1>4

LEMMA LinesMindHolds ==
  ASSUME BoardInv, NEW e, OneLinePerPair(board'), NoteIsHeldAgain(e)
  PROVE  LinesMind(e, e.notes)
<1>1. PICK n \in Notes : /\ e.notes = {n} /\ e.lines = {}
                         /\ Live(board.note[n]) /\ board' = Held(board, n)
  BY DEF NoteIsHeldAgain
<1>2. Live(board'.note[n])
  BY <1>1, HeldIsSound DEF BoardInv
<1>3. LinesAreRemoved(board, board', n)
  BY <1>1, LinesFallWithTheirNote
<1>4. /\ {m \in e.notes : ~Live(board.note[m]) /\ Live(board'.note[m])} = {}
      /\ {m \in e.notes : Live(board.note[m]) /\ ~Live(board'.note[m])} = {}
  BY <1>1, <1>2
<1>5. ASSUME NEW l \in Lines
      PROVE  /\ Exists(board.line[l]) /\ n \in board.line[l].ends => board'.line[l].status = "purged"
             /\ n \notin board.line[l].ends => board'.line[l] = board.line[l]
  BY <1>3 DEF LinesAreRemoved
<1> QED
  BY <1>1, <1>4, <1>5 DEF LinesMind

LEMMA LinesComeBackByUndo ==
  ASSUME BoardInv, NEW i \in DOMAIN log, IsUndoOf(log[i]), LinesInv
  PROVE  LinesAreBack(log[i])
<1> DEFINE e == log[i]
<1>1. LinesGoOn(e.before, board) /\ LinesGoOn(e.after, board) /\ HoldRemovesLines(e)
  BY DEF LinesInv
<1>2. /\ e.action = "node_deleted" => NoteComes(e)
      /\ IsHolding(e) => NotesArePutBack(e)
      /\ OneLinePerPair(board') /\ e.notes \in SUBSET Notes
  BY UndoComesTo DEF IsUndoOf, IsReplayed
<1> HIDE DEF e
<1>3. ASSUME NEW n \in e.notes, NEW l \in LinesAt(e.before, n), e.action = "node_deleted"
      PROVE  Live(board'.line[l]) <=>
                /\ Exists(board.line[l])
                /\ \A end \in e.before.line[l].ends : Live(board'.note[end])
  <2>1. l \in Lines /\ Exists(e.before.line[l]) /\ n \in e.before.line[l].ends /\ n \in Notes
    BY <1>2 DEF LinesAt, Live
  <2>2. e.notes = {n} /\ BringBack(n)
    BY <1>2, <1>3 DEF NoteComes
  <2>3. ~Live(board.note[n]) /\ LinesComeBack(board, board', n)
    BY <1>2, <2>1, <2>2, NoteThatComes
  <2>4. CASE Exists(board.line[l])
    <3>1. board.line[l].ends = e.before.line[l].ends
      BY <1>1, <2>1, <2>4 DEF LinesGoOn, LineGoesOn, Exists
    <3>2. board.line[l].deleted # "no" /\ ~Live(board.line[l])
      BY <2>1, <2>3, <2>4, <3>1, NoLineAtDeletedNote
    <3>3. CASE \A end \in board.line[l].ends : Live(board'.note[end])
      BY <2>1, <2>3, <2>4, <3>1, <3>2, <3>3 DEF LinesComeBack
    <3>4. CASE ~\A end \in board.line[l].ends : Live(board'.note[end])
      BY <2>1, <2>3, <2>4, <3>1, <3>2, <3>4 DEF LinesComeBack
    <3> QED
      BY <3>3, <3>4
  <2>5. CASE ~Exists(board.line[l])
    <3>1. board'.line[l] = board.line[l]
      BY <2>1, <2>3, <2>5 DEF LinesComeBack
    <3> QED
      BY <2>5, <3>1 DEF Live
  <2> QED
    BY <2>4, <2>5
<1>4. ASSUME NEW n \in e.notes, NEW l \in LinesAt(e.before, n), IsHolding(e)
      PROVE  ~Exists(board'.line[l])
  <2>1. l \in Lines /\ Exists(e.before.line[l]) /\ n \in e.before.line[l].ends
    BY DEF LinesAt, Live
  <2>2. e.after.line[l].status = "purged"
    BY <1>1, <1>4, <2>1 DEF HoldRemovesLines
  <2>3. board.line[l].status = "purged"
    BY <1>1, <2>1, <2>2 DEF LinesGoOn, LineGoesOn
  <2>4. board'.line[l] = board.line[l]
    BY <1>2, <1>4, <2>1 DEF NotesArePutBack, LinesStay
  <2> QED
    BY <2>3, <2>4 DEF Exists
<1> QED
  BY <1>3, <1>4 DEF LinesAreBack, e

(* A step that names an operation in the log undoes or redoes it.          *)
LEMMA StepReplays ==
  ASSUME BoardInv, BoardInv', [Next]_vars
  PROVE  \/ Replayed = 0
         \/ /\ Replayed \in DOMAIN log
            /\ \/ IsUndoOf(log[Replayed]) /\ ~Replays("operation_redone")
               \/ /\ IsRedoOf(log[Replayed])
                  /\ Replays("operation_redone") /\ ~Replays("operation_undone")
<1>1. log \in Seq(Entry) /\ Len(log) \in Nat
  BY LogIsTyped DEF BoardInv
<1>2. ASSUME NEW u, NEW action, NEW notes, NEW lines, NEW of, Record(u, action, notes, lines, of)
      PROVE  Replayed = of /\ \A a : Replays(a) <=> of # 0 /\ a = action
  <2> DEFINE e == NewEntry(u, action, notes, lines, of, board')
  <2>1. log' = Append(log, e) /\ e.of = of /\ e.action = action
    BY <1>2 DEF Record, NewEntry
  <2> HIDE DEF e
  <2>2. Len(log') = Len(log) + 1 /\ log'[Len(log')] = e
    BY <1>1, <2>1
  <2> QED
    BY <1>1, <2>1, <2>2 DEF Replayed, Replays
<1>3. ASSUME log' = log PROVE Replayed = 0
  BY <1>1, <1>3 DEF Replayed
<1>4. ASSUME NEW u, NEW action, NEW notes, NEW lines, NEW c, Commit(u, action, notes, lines, 0, c)
      PROVE  Replayed = 0
  BY <1>2, <1>4 DEF Commit
<1>5. ASSUME NEW u \in Users, UndoLast(u)
      PROVE  /\ Replayed \in DOMAIN log
             /\ IsUndoOf(log[Replayed]) /\ ~Replays("operation_redone")
  <2>1. PICK i \in DOMAIN log : /\ IsUndoOf(log[i])
                                /\ Record(u, "operation_undone", log[i].notes, log[i].lines, i)
    BY <1>5, UndoReplays
  <2>2. Replayed = i /\ \A a : Replays(a) <=> i # 0 /\ a = "operation_undone"
    BY <1>2, <2>1
  <2> QED
    BY <2>1, <2>2
<1>6. ASSUME NEW u \in Users, RedoLast(u)
      PROVE  /\ Replayed \in DOMAIN log
             /\ IsRedoOf(log[Replayed])
             /\ Replays("operation_redone") /\ ~Replays("operation_undone")
  <2>1. PICK i \in DOMAIN log : /\ IsRedoOf(log[i])
                                /\ Record(u, "operation_redone", log[i].notes, log[i].lines, i)
    BY <1>6, RedoReplays
  <2>2. Replayed = i /\ \A a : Replays(a) <=> i # 0 /\ a = "operation_redone"
    BY <1>2, <2>1
  <2>3. i # 0
    BY <1>1
  <2> QED
    BY <2>1, <2>2, <2>3
<1>7. CASE UNCHANGED vars \/ ReturnNotes \/ Expire \/ Purge
  BY <1>3, <1>7 DEF vars, ReturnNotes, Expire, Purge
<1>8. ASSUME NEW u \in Users, NEW n \in Notes, OnNote(u, n) PROVE Replayed = 0
  BY <1>4, <1>8 DEF OnNote, CreateNote, UpdateContent, Assign, Move, Hold, Release, DeleteNote,
     RestoreNote
<1>9. ASSUME NEW u \in Users, NEW l \in Lines, OnLine(u, l) PROVE Replayed = 0
  BY <1>4, <1>9 DEF OnLine, CreateConnection, DeleteConnection
<1>10. ASSUME NEW u \in Users, OnCanvas(u) \/ LogOther(u) PROVE Replayed = 0
  BY <1>4, <1>10 DEF OnCanvas, MoveMany, AutoLayout, LogOther
<1> QED
  BY <1>5, <1>6, <1>7, <1>8, <1>9, <1>10 DEF Next, ReplayLast

(* Undo and redo take lines along with the note they belong to, remove     *)
(* them for good when it is held again, bring back what is left of them    *)
(* when it returns, and touch no other line (soft_delete, restore and hold *)
(* of BrainstormNode, called by undo_last and redo_last).                  *)
THEOREM UndoAndRedoMindTheLines == Spec => ReplayMindsLines
<1> DEFINE Removed == IF Replays("operation_redone") /\ IsHolding(log[Replayed])
                      THEN log[Replayed].notes ELSE {}
           Mind == Replayed # 0 => LinesMind(log[Replayed], Removed)
           Back == Replays("operation_undone") => LinesAreBack(log[Replayed])
<1>1. ASSUME BoardInv, BoardInv', LinesInv, [Next]_vars PROVE Mind /\ Back
  <2>1. CASE Replayed = 0
    BY <2>1 DEF Replays
  <2>2. CASE Replayed \in DOMAIN log /\ IsUndoOf(log[Replayed]) /\ ~Replays("operation_redone")
    <3>1. PICK e : e = log[Replayed]
      OBVIOUS
    <3>2. OneLinePerPair(board') /\ LinesMind(e, {})
      BY <1>1, <2>2, <3>1, UndoComesTo, LinesMindNotes DEF IsUndoOf, IsReplayed
    <3>3. LinesAreBack(log[Replayed])
      BY <1>1, <2>2, LinesComeBackByUndo
    <3> QED
      BY <2>2, <3>1, <3>2, <3>3
  <2>3. CASE /\ Replayed \in DOMAIN log /\ IsRedoOf(log[Replayed])
             /\ Replays("operation_redone") /\ ~Replays("operation_undone")
    <3>1. PICK e : e = log[Replayed]
      OBVIOUS
    <3>2. /\ OneLinePerPair(board')
          /\ \/ IsHolding(e) /\ NoteIsHeldAgain(e)
             \/ /\ ~IsHolding(e)
                /\ NoteComes(e) \/ NoteGoes(e) \/ NotesArePutBack(e) \/ LineIsReplayed(e)
      BY <1>1, <2>3, <3>1, RedoComesTo DEF IsRedoOf, IsReplayed
    <3> QED
      BY <1>1, <2>3, <3>1, <3>2, LinesMindNotes, LinesMindHolds
  <2> QED
    BY <1>1, <2>1, <2>2, <2>3, StepReplays
<1> QED
  BY <1>1, LinesHold, InvariantHolds, PTL
     DEF Spec, ReplayMindsLines, LinesGoWithNotes, UndoBringsLinesBack, LinesMind, LinesAreBack
-----------------------------------------------------------------------------
(* The members of a set of numbers in order.                               *)
IsAscending(s, S) ==
    /\ s \in [1..Cardinality(S) -> S]
    /\ \A i, k \in DOMAIN s : i < k => s[i] < s[k]

LEMMA FiniteIsCounted ==
  ASSUME NEW m \in Nat, NEW S \in SUBSET (0..m)
  PROVE  IsFiniteSet(S) /\ Cardinality(S) \in Nat /\ (Cardinality(S) = 0 <=> S = {})
<1>1. IsFiniteSet(0..m)
  BY FS_Interval
<1>2. IsFiniteSet(S)
  BY <1>1, FS_Subset
<1> QED
  BY <1>2, FS_CardinalityType, FS_EmptySet

(* The least of a set of numbers.                                          *)
LEMMA LeastIsThere ==
  ASSUME NEW S \in SUBSET Nat, S # {}
  PROVE  \E x \in S : \A y \in S : x <= y
<1>1. PICK x \in S : \A y \in S : ~(<<y, x>> \in OpToRel(<, Nat))
  BY NatLessThanWellFounded, WFMin
<1>2. \A y \in S : ~(y < x)
  BY <1>1 DEF OpToRel
<1>3. \A y \in S : x <= y
  <2> TAKE y \in S
  <2>1. x \in Nat /\ y \in Nat /\ ~(y < x)
    BY <1>2
  <2> QED
    BY <2>1
<1> QED
  BY <1>3

(* With its largest member last.                                           *)
LEMMA LargestGoesLast ==
  ASSUME NEW m \in Nat, NEW S \in SUBSET (0..m), NEW x \in S, \A y \in S : y <= x,
         NEW t, IsAscending(t, S \ {x})
  PROVE  \E s : IsAscending(s, S)
<1> DEFINE c == Cardinality(S)
           s == [i \in 1..c |-> IF i = c THEN x ELSE t[i]]
<1>1. IsFiniteSet(S) /\ c \in Nat /\ c # 0
  BY FiniteIsCounted
<1>2. Cardinality(S \ {x}) = c - 1
  BY <1>1, FS_RemoveElement
<1>3. t \in [1..(c - 1) -> S \ {x}] /\ \A i, k \in 1..(c - 1) : i < k => t[i] < t[k]
  BY <1>2 DEF IsAscending
<1> HIDE DEF c
<1>4. \A i \in 1..c : i # c => i \in 1..(c - 1)
  BY <1>1
<1>5. s \in [1..c -> S]
  BY <1>3, <1>4
<1>6. \A y \in S \ {x} : y < x
  <2> TAKE y \in S \ {x}
  <2>1. y \in 0..m /\ x \in 0..m /\ y <= x /\ y # x
    OBVIOUS
  <2> QED
    BY <2>1
<1>7. ASSUME NEW i \in 1..c, NEW k \in 1..c, i < k PROVE s[i] < s[k]
  <2>1. i \in 1..(c - 1) /\ i # c
    BY <1>1, <1>7
  <2>2. CASE k = c
    BY <1>3, <1>6, <2>1, <2>2
  <2>3. CASE k # c
    BY <1>3, <1>4, <1>7, <2>1, <2>3
  <2> QED
    BY <2>2, <2>3
<1> QED
  BY <1>5, <1>7 DEF IsAscending, c

LEMMA AscendingExists ==
  ASSUME NEW m \in Nat, NEW S \in SUBSET (0..m)
  PROVE  \E s : IsAscending(s, S)
<1> DEFINE Bad == {c \in Nat : \E T \in SUBSET (0..m) :
                       Cardinality(T) = c /\ ~ \E s : IsAscending(s, T)}
<1>1. SUFFICES ASSUME Bad # {} PROVE FALSE
  BY FiniteIsCounted
<1>2. PICK c \in Bad : \A d \in Bad : c <= d
  <2> HIDE DEF Bad
  <2>1. Bad \subseteq Nat
    BY DEF Bad
  <2> QED
    BY <1>1, <2>1, LeastIsThere
<1>3. PICK T \in SUBSET (0..m) : Cardinality(T) = c /\ ~ \E s : IsAscending(s, T)
  OBVIOUS
<1>4. CASE T = {}
  <2> DEFINE s == [i \in 1..0 |-> i]
  <2>1. s \in [1..0 -> {}] /\ DOMAIN s = {}
    OBVIOUS
  <2>2. Cardinality(T) = 0
    BY <1>4, FiniteIsCounted
  <2>3. IsAscending(s, T)
    <3> HIDE DEF s
    <3> QED
      BY <1>4, <2>1, <2>2 DEF IsAscending
  <2> QED
    BY <1>3, <2>3
<1>5. CASE T # {}
  <2>1. Max(T) \in T /\ \A y \in T : y <= Max(T)
    BY <1>5, MaxIsThere
  <2>2. IsFiniteSet(T) /\ c \in Nat /\ Cardinality(T \ {Max(T)}) = c - 1
    BY <1>3, <2>1, FiniteIsCounted, FS_RemoveElement
  <2>3. T \ {Max(T)} \in SUBSET (0..m) /\ c - 1 \in Nat
    BY <2>2, FiniteIsCounted
  <2>4. c - 1 \notin Bad
    <3> HIDE DEF Bad
    <3> QED
      BY <1>2, <2>2, <2>3
  <2>5. PICK t : IsAscending(t, T \ {Max(T)})
    BY <2>2, <2>3, <2>4
  <2> QED
    BY <1>3, <2>1, <2>5, LargestGoesLast
<1> QED
  BY <1>4, <1>5

LEMMA AscendingIsThere ==
  ASSUME NEW m \in Nat, NEW S \in SUBSET (0..m)
  PROVE  IsAscending(Ascending(S), S)
<1>1. PICK s : IsAscending(s, S)
  BY AscendingExists
<1> QED
  BY <1>1 DEF IsAscending, Ascending

(* A set has one such sequence, and it holds every member.                 *)
LEMMA AscendingIsOnto ==
  ASSUME NEW m \in Nat, NEW S \in SUBSET (0..m), NEW s, IsAscending(s, S)
  PROVE  \A x \in S : \E i \in 1..Cardinality(S) : s[i] = x
<1> DEFINE c == Cardinality(S)
<1>1. IsFiniteSet(S) /\ c \in Nat
  BY FiniteIsCounted
<1>2. s \in [1..c -> S] /\ \A i, k \in 1..c : i < k => s[i] < s[k]
  BY DEF IsAscending
<1> HIDE DEF c
<1>3. IsFiniteSet(1..c) /\ Cardinality(1..c) = c
  BY <1>1, FS_Interval
<1>4. ASSUME NEW i \in 1..c, NEW k \in 1..c, s[i] = s[k] PROVE i = k
  <2>1. s[i] \in 0..m
    BY <1>2
  <2>2. ~(i < k) /\ ~(k < i)
    BY <1>2, <1>4, <2>1
  <2> QED
    BY <1>1, <2>2
<1>5. s \in Injection(1..c, S)
  BY <1>2, <1>4 DEF Injection, IsInjective
<1>6. s \in Surjection(1..c, S)
  BY <1>1, <1>3, <1>5, FS_Injection DEF c
<1> QED
  BY <1>6 DEF Surjection, c

LEMMA AscendingIsOne ==
  ASSUME NEW m \in Nat, NEW S \in SUBSET (0..m), NEW s, NEW t,
         IsAscending(s, S), IsAscending(t, S)
  PROVE  s = t
<1> DEFINE c == Cardinality(S)
           D == {i \in 1..c : s[i] # t[i]}
<1>1. c \in Nat
  BY FiniteIsCounted
<1>2. /\ s \in [1..c -> S] /\ \A i, k \in 1..c : i < k => s[i] < s[k]
      /\ t \in [1..c -> S] /\ \A i, k \in 1..c : i < k => t[i] < t[k]
  BY DEF IsAscending
<1>3. /\ \A x \in S : \E i \in 1..c : s[i] = x
      /\ \A x \in S : \E i \in 1..c : t[i] = x
  BY AscendingIsOnto
<1> HIDE DEF c
<1>4. SUFFICES ASSUME D # {} PROVE FALSE
  <2>1. ASSUME D = {} PROVE s = t
    <3>1. \A i \in 1..c : s[i] = t[i]
      BY <2>1
    <3>2. s = [i \in 1..c |-> s[i]] /\ t = [i \in 1..c |-> t[i]]
      BY <1>2
    <3> HIDE DEF D
    <3> QED
      BY <3>1, <3>2
  <2> QED
    BY <2>1
<1>5. D \in SUBSET Nat
  BY <1>1
<1>6. PICK i \in D : \A k \in D : i <= k
  <2> HIDE DEF D
  <2> QED
    BY <1>4, <1>5, LeastIsThere
<1>7. i \in 1..c /\ s[i] # t[i] /\ \A k \in 1..c : k < i => s[k] = t[k]
  <2>1. i \in 1..c /\ s[i] # t[i]
    OBVIOUS
  <2>2. ASSUME NEW k \in 1..c, k < i PROVE s[k] = t[k]
    <3>1. ~(i <= k)
      BY <2>1, <2>2
    <3> QED
      BY <1>6, <3>1
  <2> QED
    BY <2>1, <2>2
<1> HIDE DEF D
<1>8. PICK j \in 1..c : t[j] = s[i]
  BY <1>2, <1>3, <1>7
<1>9. PICK k \in 1..c : s[k] = t[i]
  BY <1>2, <1>3, <1>7
<1>10. s[i] \in 0..m /\ s[k] \in 0..m /\ t[i] \in 0..m /\ t[j] \in 0..m
  BY <1>2, <1>7
<1>11. i < j
  <2>1. ~(j < i)
    BY <1>2, <1>7, <1>8, <1>10
  <2> QED
    BY <1>7, <1>8, <2>1
<1>12. i < k
  <2>1. ~(k < i)
    BY <1>2, <1>7, <1>9, <1>10
  <2> QED
    BY <1>7, <1>9, <2>1
<1>13. t[i] < t[j] /\ s[i] < s[k]
  BY <1>2, <1>7, <1>11, <1>12
<1> QED
  BY <1>8, <1>9, <1>10, <1>13

LEMMA AscendingIs ==
  ASSUME NEW m \in Nat, NEW S \in SUBSET (0..m), NEW n \in Nat, NEW s \in [1..n -> S],
         \A x \in S : \E i \in 1..n : s[i] = x,
         \A i, k \in 1..n : i < k => s[i] < s[k]
  PROVE  Ascending(S) = s
<1>1. IsFiniteSet(1..n) /\ Cardinality(1..n) = n
  BY FS_Interval
<1>2. s \in Surjection(1..n, S)
  BY DEF Surjection
<1>3. ASSUME NEW i \in 1..n, NEW k \in 1..n, s[i] = s[k] PROVE i = k
  <2>1. s[i] \in 0..m
    OBVIOUS
  <2>2. ~(i < k) /\ ~(k < i)
    BY <1>3, <2>1
  <2> QED
    BY <2>2
<1>4. s \in Injection(1..n, S)
  BY <1>3 DEF Injection, IsInjective
<1>5. Cardinality(S) = n
  BY <1>1, <1>2, <1>4, FS_Surjection
<1>6. IsAscending(s, S)
  BY <1>5 DEF IsAscending
<1> QED
  BY <1>6, AscendingIsThere, AscendingIsOne

LEMMA AscendingFacts ==
  ASSUME NEW m \in Nat, NEW S \in SUBSET (0..m)
  PROVE  LET s == Ascending(S) IN
         /\ s \in Seq(0..m) /\ s \in [1..Len(s) -> S] /\ Len(s) \in Nat /\ DOMAIN s = 1..Len(s)
         /\ \A x \in S : \E i \in 1..Len(s) : s[i] = x
         /\ \A i, k \in 1..Len(s) : i < k => s[i] < s[k]
         /\ s = <<>> <=> S = {}
<1> DEFINE s == Ascending(S)
           c == Cardinality(S)
<1>1. c \in Nat /\ (c = 0 <=> S = {})
  BY FiniteIsCounted
<1>2. s \in [1..c -> S] /\ \A i, k \in 1..c : i < k => s[i] < s[k]
  BY AscendingIsThere DEF IsAscending
<1>3. \A x \in S : \E i \in 1..c : s[i] = x
  <2>1. PICK t : t = s /\ IsAscending(t, S)
    BY AscendingIsThere
  <2>2. \A x \in S : \E i \in 1..Cardinality(S) : t[i] = x
    BY <2>1, AscendingIsOnto
  <2> HIDE DEF s
  <2> QED
    BY <2>1, <2>2
<1> HIDE DEF s, c
<1>4. s \in Seq(S) /\ Len(s) = c
  BY <1>1, <1>2
<1>5. s \in Seq(0..m)
  BY <1>4, SeqMonotonic
<1>6. s = <<>> <=> c = 0
  BY <1>1, <1>4, EmptySeq
<1> QED
  BY <1>1, <1>2, <1>3, <1>4, <1>5, <1>6 DEF s

LEMMA AscendingHoldsAll ==
  ASSUME NEW m \in Nat, NEW S \in SUBSET (0..m)
  PROVE  ToSet(Ascending(S)) = S
<1>1. PICK s : s = Ascending(S)
  OBVIOUS
<1>2. /\ s \in [1..Len(s) -> S] /\ DOMAIN s = 1..Len(s)
      /\ \A x \in S : \E i \in 1..Len(s) : s[i] = x
  BY <1>1, AscendingFacts
<1>3. ToSet(s) = S
  BY <1>2 DEF ToSet
<1> QED
  BY <1>1, <1>3

LEMMA NothingAscends == Ascending({}) = <<>>
<1>1. {} \in SUBSET (0..0) /\ 0 \in Nat
  OBVIOUS
<1> QED
  BY <1>1, AscendingFacts

(* One that is larger than all of them goes to the end, one that is        *)
(* smaller to the front.                                                   *)
LEMMA LargerIsAppended ==
  ASSUME NEW m \in Nat, NEW S \in SUBSET (0..m), NEW x \in 0..m, \A y \in S : y < x
  PROVE  Ascending(S \cup {x}) = Append(Ascending(S), x)
<1> DEFINE s == Ascending(S)
           t == Append(s, x)
           n == Len(s)
<1>1. /\ s \in Seq(0..m) /\ s \in [1..n -> S] /\ n \in Nat
      /\ \A y \in S : \E i \in 1..n : s[i] = y
      /\ \A i, k \in 1..n : i < k => s[i] < s[k]
  BY AscendingFacts
<1>2. t \in Seq(0..m) /\ Len(t) = n + 1 /\ (\A i \in 1..n : t[i] = s[i]) /\ t[n + 1] = x
  <2> HIDE DEF s
  <2> QED
    BY <1>1, AppendProperties
<1>3. DOMAIN t = 1..(n + 1)
  BY <1>2
<1> HIDE DEF s, t, n
<1>4. \A i \in 1..(n + 1) : i \in 1..n \/ i = n + 1
  BY <1>1
<1>5. \A i \in 1..(n + 1) : t[i] \in S \cup {x}
  BY <1>1, <1>2, <1>4
<1>6. t = [i \in 1..(n + 1) |-> t[i]]
  BY <1>2, <1>3
<1>7. t \in [1..(n + 1) -> S \cup {x}]
  BY <1>5, <1>6
<1>8. \A y \in S \cup {x} : \E i \in 1..(n + 1) : t[i] = y
  <2>1. 1..n \subseteq 1..(n + 1) /\ n + 1 \in 1..(n + 1)
    BY <1>1
  <2> QED
    BY <1>1, <1>2, <2>1
<1>9. ASSUME NEW i \in 1..(n + 1), NEW k \in 1..(n + 1), i < k PROVE t[i] < t[k]
  <2>1. i \in 1..n
    BY <1>1, <1>9
  <2> QED
    BY <1>1, <1>2, <1>4, <1>9, <2>1
<1>10. S \cup {x} \in SUBSET (0..m) /\ n + 1 \in Nat
  BY <1>1
<1>11. \A i, k \in 1..(n + 1) : i < k => t[i] < t[k]
  BY <1>9
<1>12. Ascending(S \cup {x}) = t
  <2>1. PICK T \in SUBSET (0..m), c \in Nat : T = S \cup {x} /\ c = n + 1
    BY <1>10
  <2>2. t \in [1..c -> T] /\ \A y \in T : \E i \in 1..c : t[i] = y
    BY <1>7, <1>8, <2>1
  <2>3. \A i, k \in 1..c : i < k => t[i] < t[k]
    BY <1>11, <2>1
  <2> QED
    <3>1. Ascending(T) = t
      BY <2>2, <2>3, AscendingIs, Zenon
    <3> QED
      BY <2>1, <3>1
<1> QED
  BY <1>12, Zenon DEF s, t

LEMMA SmallerIsPrepended ==
  ASSUME NEW m \in Nat, NEW S \in SUBSET (0..m), NEW x \in 0..m, \A y \in S : x < y
  PROVE  Ascending(S \cup {x}) = <<x>> \o Ascending(S)
<1> DEFINE s == Ascending(S)
           t == <<x>> \o s
           n == Len(s)
<1>1. /\ s \in Seq(0..m) /\ s \in [1..n -> S] /\ n \in Nat
      /\ \A y \in S : \E i \in 1..n : s[i] = y
      /\ \A i, k \in 1..n : i < k => s[i] < s[k]
  BY AscendingFacts
<1>2. /\ t \in Seq(0..m) /\ Len(t) = n + 1 /\ t[1] = x
      /\ \A i \in 2..(n + 1) : t[i] = s[i - 1]
  <2> HIDE DEF s
  <2>1. <<x>> \in Seq(0..m) /\ Len(<<x>>) = 1 /\ <<x>>[1] = x
    OBVIOUS
  <2>2. /\ t \in Seq(0..m) /\ Len(t) = 1 + n
        /\ \A i \in 1..(1 + n) : t[i] = IF i <= 1 THEN <<x>>[i] ELSE s[i - 1]
    BY <1>1, <2>1, ConcatProperties
  <2> HIDE DEF t, n
  <2>3. 1 \in 1..(1 + n) /\ \A i \in 2..(n + 1) : i \in 1..(1 + n) /\ ~(i <= 1)
    BY <1>1
  <2>4. Len(t) = n + 1
    BY <1>1, <2>2
  <2> QED
    BY <2>1, <2>2, <2>3, <2>4
<1>3. DOMAIN t = 1..(n + 1)
  BY <1>2
<1> HIDE DEF s, t, n
<1>4. \A i \in 1..(n + 1) : i = 1 \/ (i \in 2..(n + 1) /\ i - 1 \in 1..n)
  BY <1>1
<1>5. \A i \in 1..(n + 1) : t[i] \in S \cup {x}
  BY <1>1, <1>2, <1>4
<1>6. t = [i \in 1..(n + 1) |-> t[i]]
  BY <1>2, <1>3
<1>7. t \in [1..(n + 1) -> S \cup {x}]
  BY <1>5, <1>6
<1>8. \A y \in S \cup {x} : \E i \in 1..(n + 1) : t[i] = y
  <2> TAKE y \in S \cup {x}
  <2>1. CASE y = x
    BY <1>1, <1>2, <2>1
  <2>2. CASE y \in S
    <3>1. PICK i \in 1..n : s[i] = y
      BY <1>1, <2>2
    <3>2. i + 1 \in 2..(n + 1) /\ i + 1 \in 1..(n + 1) /\ (i + 1) - 1 = i
      BY <1>1
    <3> QED
      BY <1>2, <3>1, <3>2
  <2> QED
    BY <2>1, <2>2
<1>9. ASSUME NEW i \in 1..(n + 1), NEW k \in 1..(n + 1), i < k PROVE t[i] < t[k]
  <2>1. k \in 2..(n + 1) /\ k - 1 \in 1..n /\ t[k] = s[k - 1]
    <3>1. k # 1
      BY <1>9
    <3> QED
      BY <1>2, <1>4, <3>1
  <2>2. CASE i = 1
    BY <1>1, <1>2, <2>1, <2>2
  <2>3. CASE i # 1
    <3>1. i \in 2..(n + 1) /\ i - 1 \in 1..n /\ t[i] = s[i - 1]
      BY <1>2, <1>4, <2>3
    <3>2. i - 1 < k - 1
      BY <1>9
    <3> QED
      BY <1>1, <2>1, <3>1, <3>2
  <2> QED
    BY <2>2, <2>3
<1>10. S \cup {x} \in SUBSET (0..m) /\ n + 1 \in Nat
  BY <1>1
<1>11. \A i, k \in 1..(n + 1) : i < k => t[i] < t[k]
  BY <1>9
<1>12. Ascending(S \cup {x}) = t
  <2>1. PICK T \in SUBSET (0..m), c \in Nat : T = S \cup {x} /\ c = n + 1
    BY <1>10
  <2>2. t \in [1..c -> T] /\ \A y \in T : \E i \in 1..c : t[i] = y
    BY <1>7, <1>8, <2>1
  <2>3. \A i, k \in 1..c : i < k => t[i] < t[k]
    BY <1>11, <2>1
  <2> QED
    <3>1. Ascending(T) = t
      BY <2>2, <2>3, AscendingIs, Zenon
    <3> QED
      BY <2>1, <3>1
<1> QED
  BY <1>12, Zenon DEF s, t

(* What is left when all up to some number are forgotten.                  *)
LEMMA TheRestIsASuffix ==
  ASSUME NEW m \in Nat, NEW S \in SUBSET (0..m), NEW T \in SUBSET S, T # {},
         \A x \in T, y \in S : x <= y => y \in T
  PROVE  LET s == Ascending(S) IN
         \E a \in 0..Len(s) : Ascending(T) = SubSeq(s, a + 1, Len(s)) /\ (T = S => a = 0)
<1> DEFINE s == Ascending(S)
           n == Len(s)
           P == {i \in 1..n : s[i] \in T}
<1>1. /\ s \in Seq(0..m) /\ s \in [1..n -> S] /\ n \in Nat
      /\ \A y \in S : \E i \in 1..n : s[i] = y
      /\ \A i, k \in 1..n : i < k => s[i] < s[k]
  BY AscendingFacts
<1> HIDE DEF s, n
<1>2. P \in SUBSET Nat /\ P # {}
  <2>1. PICK x \in T : TRUE
    OBVIOUS
  <2>2. PICK i \in 1..n : s[i] = x
    BY <1>1
  <2>3. i \in P
    BY <2>2
  <2>4. 1..n \subseteq Nat
    BY <1>1
  <2> QED
    BY <2>3, <2>4
<1>3. PICK p \in P : \A i \in P : p <= i
  <2> HIDE DEF P
  <2> QED
    BY <1>2, LeastIsThere
<1>4. p \in 1..n /\ s[p] \in T /\ \A i \in 1..n : s[i] \in T => p <= i
  BY <1>3
<1>5. \A i \in p..n : s[i] \in T
  <2> TAKE i \in p..n
  <2>1. i \in 1..n /\ (i = p \/ p < i)
    BY <1>1, <1>4
  <2>2. s[i] \in S /\ s[p] \in 0..m /\ s[i] \in 0..m /\ s[p] <= s[i]
    BY <1>1, <1>4, <2>1
  <2> QED
    BY <1>4, <2>2
<1> DEFINE t == SubSeq(s, p, n)
           k == n - p + 1
<1>6. k \in Nat /\ p \in Int /\ n \in Int /\ p <= n
  BY <1>1, <1>4
<1>7. t \in Seq(T) /\ Len(t) = k /\ \A i \in 1..k : t[i] = s[p + i - 1]
  <2> HIDE DEF t
  <2> QED
    BY <1>5, <1>6, SubSeqProperties DEF t
<1> HIDE DEF t, P
<1>8. t \in [1..k -> T]
  BY <1>7, LenProperties
<1>9. \A y \in T : \E i \in 1..k : t[i] = y
  <2> TAKE y \in T
  <2>1. PICK i \in 1..n : s[i] = y
    BY <1>1
  <2>2. p <= i
    BY <1>4, <2>1
  <2>3. i - p + 1 \in 1..k /\ p + (i - p + 1) - 1 = i
    BY <1>1, <1>4, <2>2
  <2> QED
    BY <1>7, <2>1, <2>3
<1>10. ASSUME NEW i \in 1..k, NEW j \in 1..k, i < j PROVE t[i] < t[j]
  <2>1. p + i - 1 \in 1..n /\ p + j - 1 \in 1..n /\ p + i - 1 < p + j - 1
    BY <1>1, <1>4, <1>10
  <2> QED
    BY <1>1, <1>7, <2>1
<1>11. Ascending(T) = t
  <2>1. T \in SUBSET (0..m)
    OBVIOUS
  <2> HIDE DEF k
  <2> QED
    BY <1>6, <1>8, <1>9, <1>10, <2>1, AscendingIs
<1>12. p - 1 \in 0..n /\ (p - 1) + 1 = p
  BY <1>1, <1>4
<1>13. T = S => p - 1 = 0
  <2>1. T = S => 1 \in 1..n /\ s[1] \in T
    BY <1>1, <1>4
  <2>2. T = S => p <= 1
    BY <1>4, <2>1
  <2> QED
    BY <1>4, <2>2
<1> QED
  BY <1>11, <1>12, <1>13 DEF s, n, t

LEMMA NothingIsASuffix ==
  ASSUME NEW m \in Nat, NEW S \in SUBSET (0..m)
  PROVE  Ascending({}) = SubSeq(Ascending(S), Len(Ascending(S)) + 1, Len(Ascending(S)))
<1> DEFINE s == Ascending(S)
<1>1. Len(s) \in Nat
  BY AscendingFacts
<1> HIDE DEF s
<1>2. Len(s) + 1 \in Int /\ Len(s) \in Int /\ Len(s) < Len(s) + 1
  BY <1>1
<1>3. SubSeq(s, Len(s) + 1, Len(s)) = <<>>
  BY <1>2, SubSeqEmpty
<1> QED
  BY <1>3, NothingAscends DEF s

(* Two stacks, the second newer, forget together.                          *)
ForgetTogether(D, R, W) ==
    \E fromD \in 0..Len(Ascending(D)), fromR \in 0..Len(Ascending(R)) :
       /\ fromR > 0 => fromD = Len(Ascending(D))
       /\ Ascending(D \cap W) = SubSeq(Ascending(D), fromD + 1, Len(Ascending(D)))
       /\ Ascending(R \cap W) = SubSeq(Ascending(R), fromR + 1, Len(Ascending(R)))

LEMMA OldestAreForgotten ==
  ASSUME NEW m \in Nat, NEW D \in SUBSET (0..m), NEW R \in SUBSET (0..m), NEW W,
         \A x \in D, y \in R : x < y,
         \A x \in (D \cup R) \cap W, y \in D \cup R : x <= y => y \in W
  PROVE  ForgetTogether(D, R, W)
<1> DEFINE d == Ascending(D)
           r == Ascending(R)
<1>1. Len(d) \in Nat /\ Len(r) \in Nat /\ Len(d) \in 0..Len(d) /\ Len(r) \in 0..Len(r)
  <2>1. Len(d) \in Nat /\ Len(r) \in Nat
    BY AscendingFacts
  <2> HIDE DEF d, r
  <2> QED
    BY <2>1
<1>2. D \cap W \in SUBSET D /\ R \cap W \in SUBSET R
  OBVIOUS
<1>3. \A x \in D \cap W, y \in D : x <= y => y \in D \cap W
  OBVIOUS
<1>4. \A x \in R \cap W, y \in R : x <= y => y \in R \cap W
  OBVIOUS
<1>5. CASE D \cap W = {}
  <2>1. Ascending(D \cap W) = SubSeq(d, Len(d) + 1, Len(d))
    BY <1>5, NothingIsASuffix
  <2>2. PICK b \in 0..Len(r) : Ascending(R \cap W) = SubSeq(r, b + 1, Len(r))
    <3>1. CASE R \cap W = {}
      BY <1>1, <3>1, NothingIsASuffix
    <3>2. CASE R \cap W # {}
      <4>1. PICK T \in SUBSET R : T = R \cap W
        BY <1>2
      <4>2. T # {} /\ \A x \in T, y \in R : x <= y => y \in T
        BY <1>4, <3>2, <4>1
      <4>3. \E b \in 0..Len(r) : Ascending(T) = SubSeq(r, b + 1, Len(r)) /\ (T = R => b = 0)
        BY <4>2, TheRestIsASuffix
      <4> QED
        BY <4>1, <4>3
    <3> QED
      BY <3>1, <3>2
  <2> HIDE DEF d, r
  <2>3. Len(d) \in 0..Len(d)
    BY <1>1
  <2> QED
    BY <2>1, <2>2, <2>3 DEF ForgetTogether, d, r
<1>6. CASE D \cap W # {}
  <2>1. PICK a \in 0..Len(d) : Ascending(D \cap W) = SubSeq(d, a + 1, Len(d))
    BY <1>2, <1>3, <1>6, TheRestIsASuffix
  <2>2. R \cap W = R
    <3>1. PICK x \in D \cap W : TRUE
      BY <1>6
    <3>2. ASSUME NEW y \in R PROVE y \in W
      <4>1. x \in 0..m /\ y \in 0..m /\ x < y
        OBVIOUS
      <4>2. x <= y
        BY <4>1
      <4> QED
        BY <4>2
    <3> QED
      BY <3>2
  <2>3. Ascending(R \cap W) = SubSeq(r, 0 + 1, Len(r))
    <3>1. r \in Seq(0..m)
      BY AscendingFacts
    <3>2. SubSeq(r, 1, Len(r)) = r
      <4> HIDE DEF r
      <4> QED
        BY <3>1, SubSeqFull
    <3>3. Ascending(R \cap W) = r /\ 0 + 1 = 1
      BY <2>2
    <3> HIDE DEF r
    <3> QED
      BY <3>2, <3>3
  <2> HIDE DEF d, r
  <2>4. 0 \in 0..Len(r) /\ ~(0 > 0)
    BY <1>1
  <2> QED
    BY <2>1, <2>3, <2>4 DEF ForgetTogether, d, r
<1> QED
  BY <1>5, <1>6

-----------------------------------------------------------------------------
(* What a new entry makes of the part of the log a user's undo looks at.   *)

LEMMA LogIsAppended ==
  ASSUME BoardInv, NEW e, log' = Append(log, e)
  PROVE  /\ Len(log) \in Nat /\ DOMAIN log = 1..Len(log)
         /\ Len(log') = Len(log) + 1 /\ DOMAIN log' = 1..(Len(log) + 1)
         /\ log'[Len(log) + 1] = e /\ \A i \in 1..Len(log) : log'[i] = log[i]
  BY LogIsTyped DEF BoardInv

LEMMA WindowIsCounted ==
  ASSUME BoardInv, NEW u \in Users, NEW i \in DOMAIN log
  PROVE  /\ IsFiniteSet({k \in i..Len(log) : log[k].actor = u})
         /\ Cardinality({k \in i..Len(log) : log[k].actor = u}) \in Nat
<1>1. i \in Int /\ Len(log) \in Int
  BY LogIsTyped
<1>2. IsFiniteSet(i..Len(log))
  BY <1>1, FS_Interval
<1>3. {k \in i..Len(log) : log[k].actor = u} \in SUBSET (i..Len(log))
  OBVIOUS
<1>4. IsFiniteSet({k \in i..Len(log) : log[k].actor = u})
  BY <1>2, <1>3, FS_Subset
<1> QED
  BY <1>4, FS_CardinalityType

(* Other users see what they saw.                                          *)
LEMMA OthersSeeTheSame ==
  ASSUME BoardInv, NEW e, log' = Append(log, e), NEW u \in Users, e.actor # u
  PROVE  /\ Undoable(u)' = Undoable(u) /\ Redoable(u)' = Redoable(u)
         /\ \A i \in OperationsOf(u) : LastMark(u, i)' = LastMark(u, i)
<1> DEFINE n == Len(log) + 1
<1>1. /\ Len(log) \in Nat /\ DOMAIN log = 1..Len(log) /\ Len(log') = n /\ DOMAIN log' = 1..n
      /\ log'[n] = e /\ \A i \in 1..Len(log) : log'[i] = log[i]
  BY LogIsAppended
<1>2. \A i \in 1..n : i \in 1..Len(log) \/ i = n
  BY <1>1
<1>3. \A i \in 1..Len(log) : {k \in i..Len(log') : log'[k].actor = u}
                              = {k \in i..Len(log) : log[k].actor = u}
  <2> TAKE i \in 1..Len(log)
  <2>1. \A k : k \in i..n <=> k \in i..Len(log) \/ k = n
    BY <1>1
  <2>2. \A k \in i..Len(log) : k \in 1..Len(log)
    BY <1>1
  <2> HIDE DEF n
  <2> QED
    BY <1>1, <2>1, <2>2
<1>4. Recent(u)' = Recent(u)
  <2>1. Recent(u)' = {i \in DOMAIN log' : log'[i].actor = u
                        /\ Cardinality({k \in i..Len(log') : log'[k].actor = u}) <= Window}
    BY DEF Recent
  <2>2. \A i \in DOMAIN log : i \in DOMAIN log'
    BY <1>1
  <2> HIDE DEF n
  <2> QED
    BY <1>1, <1>2, <1>3, <2>1, <2>2 DEF Recent
<1>5. Recent(u) \subseteq 1..Len(log)
  BY <1>1 DEF Recent
<1>6. OperationsOf(u)' = OperationsOf(u)
  BY <1>1, <1>4, <1>5 DEF OperationsOf
<1>7. \A i : MarkersOf(u, i)' = MarkersOf(u, i)
  BY <1>1, <1>4, <1>5 DEF MarkersOf
<1>8. \A i : LastMark(u, i)' = LastMark(u, i)
  BY <1>7 DEF LastMark
<1>9. \A i \in OperationsOf(u) : Undone(u, i)' <=> Undone(u, i)
  <2> TAKE i \in OperationsOf(u)
  <2>1. MarkersOf(u, i) # {} => LastMark(u, i) \in 1..Len(log)
    <3>1. MarkersOf(u, i) \subseteq 0..Len(log)
      BY MarkersAreSeen
    <3>2. MarkersOf(u, i) # {} => LastMark(u, i) \in MarkersOf(u, i)
      BY <1>1, <3>1, MaxIsThere DEF LastMark
    <3> QED
      BY <1>5, <3>2 DEF MarkersOf
  <2> QED
    BY <1>1, <1>7, <1>8, <2>1 DEF Undone
<1> QED
  BY <1>6, <1>8, <1>9 DEF Undoable, Redoable

(* The author of the entry sees it, and perhaps no longer the oldest ones. *)
LEMMA WindowMoves ==
  ASSUME BoardInv, NEW e, log' = Append(log, e), NEW u \in Users, e.actor = u
  PROVE  /\ Len(log) + 1 \in Recent(u)'
         /\ Recent(u)' \subseteq Recent(u) \cup {Len(log) + 1}
         /\ \A i \in Recent(u)', k \in Recent(u) : i <= k => k \in Recent(u)'
<1> DEFINE n == Len(log) + 1
           Of(i) == {k \in i..Len(log) : log[k].actor = u}
           OfNow(i) == {k \in i..Len(log') : log'[k].actor = u}
<1>1. /\ Len(log) \in Nat /\ DOMAIN log = 1..Len(log) /\ Len(log') = n /\ DOMAIN log' = 1..n
      /\ log'[n] = e /\ \A i \in 1..Len(log) : log'[i] = log[i]
  BY LogIsAppended
<1>2. \A i \in 1..n : i \in 1..Len(log) \/ i = n
  BY <1>1
<1>3. \A i \in 1..n : i \in Recent(u)' <=> log'[i].actor = u /\ Cardinality(OfNow(i)) <= Window
  BY <1>1 DEF Recent
<1>4. \A i \in 1..Len(log) : i \in Recent(u) <=> log[i].actor = u /\ Cardinality(Of(i)) <= Window
  BY <1>1 DEF Recent
<1>5. Recent(u)' \subseteq 1..n /\ Recent(u) \subseteq 1..Len(log)
  BY <1>1 DEF Recent
<1>6. \A i \in 1..Len(log) : IsFiniteSet(Of(i)) /\ Cardinality(Of(i)) \in Nat
  BY <1>1, WindowIsCounted
<1>7. \A i \in 1..Len(log) : OfNow(i) = Of(i) \cup {n} /\ n \notin Of(i)
  <2> TAKE i \in 1..Len(log)
  <2>1. \A k : k \in i..n <=> k \in i..Len(log) \/ k = n
    BY <1>1
  <2>2. \A k \in i..Len(log) : k \in 1..Len(log) /\ k # n
    BY <1>1
  <2> HIDE DEF n
  <2> QED
    BY <1>1, <2>1, <2>2
<1>8. \A i \in 1..Len(log) : Cardinality(OfNow(i)) = Cardinality(Of(i)) + 1
  <2> HIDE DEF Of, OfNow, n
  <2> QED
    BY <1>6, <1>7, FS_AddElement
<1>9. n \in Recent(u)'
  <2>1. n \in 1..n /\ log'[n].actor = u
    BY <1>1
  <2>2. OfNow(n) = {n}
    <3>1. \A k : k \in n..n <=> k = n
      BY <1>1
    <3> HIDE DEF n
    <3> QED
      BY <1>1, <2>1, <3>1
  <2>3. Cardinality(OfNow(n)) = 1
    BY <2>2, FS_Singleton
  <2>4. 1 <= Window
    BY WindowAssumption
  <2> HIDE DEF n, OfNow
  <2> QED
    BY <1>3, <2>1, <2>3, <2>4
<1>10. ASSUME NEW i \in Recent(u)' PROVE i \in Recent(u) \/ i = n
  <2>1. CASE i \in 1..Len(log)
    <3>1. i \in 1..n
      BY <1>5
    <3>2. Cardinality(Of(i)) + 1 <= Window /\ log[i].actor = u
      <4> HIDE DEF Of, OfNow, n
      <4> QED
        BY <1>1, <1>3, <1>8, <2>1, <3>1
    <3>3. Cardinality(Of(i)) <= Window
      <4>1. \A c \in Nat, w \in Nat : c + 1 <= w => c <= w
        OBVIOUS
      <4> HIDE DEF Of
      <4> QED
        BY <1>6, <2>1, <3>2, <4>1, WindowAssumption
    <3> QED
      BY <1>4, <2>1, <3>2, <3>3
  <2> QED
    BY <1>2, <1>5, <2>1
<1>11. ASSUME NEW i \in Recent(u)', NEW k \in Recent(u), i <= k PROVE k \in Recent(u)'
  <2>1. k \in 1..Len(log) /\ i \in 1..Len(log) /\ k \in 1..n /\ i \in 1..n
    <3>1. k \in 1..Len(log) /\ i \in 1..n
      BY <1>5
    <3> QED
      BY <1>1, <1>11, <3>1
  <2>2. Of(k) \in SUBSET Of(i)
    <3>1. \A j \in k..Len(log) : j \in i..Len(log)
      BY <1>1, <1>11, <2>1
    <3> QED
      BY <3>1
  <2>3. Cardinality(Of(k)) <= Cardinality(Of(i))
    <3> HIDE DEF Of
    <3> QED
      BY <1>6, <2>1, <2>2, FS_Subset
  <2>4. Cardinality(Of(i)) + 1 <= Window /\ log[k].actor = u
    BY <1>3, <1>4, <1>8, <2>1
  <2>5. Cardinality(Of(k)) + 1 <= Window
    <3>1. \A c \in Nat, d \in Nat, w \in Nat : c <= d /\ d + 1 <= w => c + 1 <= w
      OBVIOUS
    <3> HIDE DEF Of
    <3> QED
      BY <1>6, <2>1, <2>3, <2>4, <3>1, WindowAssumption
  <2> HIDE DEF Of, OfNow, n
  <2> QED
    BY <1>1, <1>3, <1>8, <2>1, <2>4, <2>5
<1> HIDE DEF n
<1>12. Recent(u)' \subseteq Recent(u) \cup {n}
  BY <1>10
<1> QED
  BY <1>9, <1>11, <1>12 DEF n

LEMMA OperationsMove ==
  ASSUME BoardInv, NEW e, log' = Append(log, e), NEW u \in Users, e.actor = u
  PROVE  OperationsOf(u)' = (OperationsOf(u) \cap Recent(u)')
                              \cup (IF e.action \in Reversible THEN {Len(log) + 1} ELSE {})
<1> DEFINE n == Len(log) + 1
<1>1. /\ Len(log) \in Nat /\ DOMAIN log = 1..Len(log)
      /\ log'[n] = e /\ \A i \in 1..Len(log) : log'[i] = log[i]
  BY LogIsAppended
<1>2. /\ n \in Recent(u)' /\ Recent(u)' \subseteq Recent(u) \cup {n}
      /\ Recent(u) \subseteq 1..Len(log)
  BY <1>1, WindowMoves DEF Recent
<1>3. OperationsOf(u)' = {i \in Recent(u)' : log'[i].action \in Reversible}
  BY DEF OperationsOf
<1>4. n \notin 1..Len(log)
  BY <1>1
<1> HIDE DEF n
<1>5. \A i \in Recent(u)' : IF i = n THEN log'[i] = e ELSE i \in Recent(u) /\ log'[i] = log[i]
  BY <1>1, <1>2
<1> QED
  BY <1>2, <1>3, <1>4, <1>5 DEF OperationsOf, n

(* The marks of an operation that is still seen.                           *)
LEMMA MarksMove ==
  ASSUME BoardInv, NEW e, log' = Append(log, e), NEW u \in Users, e.actor = u,
         NEW i \in OperationsOf(u), i \in Recent(u)'
  PROVE  /\ LastMark(u, i)' = IF e.of = i THEN Len(log) + 1 ELSE LastMark(u, i)
         /\ Undone(u, i)' <=> IF e.of = i THEN e.action = "operation_undone" ELSE Undone(u, i)
<1> DEFINE n == Len(log) + 1
<1>1. /\ Len(log) \in Nat /\ DOMAIN log = 1..Len(log)
      /\ log'[n] = e /\ \A k \in 1..Len(log) : log'[k] = log[k]
  BY LogIsAppended
<1>2. /\ n \in Recent(u)' /\ Recent(u)' \subseteq Recent(u) \cup {n}
      /\ \A j \in Recent(u)', k \in Recent(u) : j <= k => k \in Recent(u)'
      /\ Recent(u) \subseteq 1..Len(log)
  <2>1. Recent(u) \subseteq 1..Len(log)
    BY <1>1 DEF Recent
  <2> QED
    BY <2>1, WindowMoves
<1>3. /\ MarkersOf(u, i) = {k \in DOMAIN log : log[k].of = i}
      /\ MarkersOf(u, i) \subseteq 0..Len(log)
      /\ \A k \in MarkersOf(u, i) : log[k].action \in Markers
      /\ i \in 1..Len(log)
  BY <1>1, MarkersAreSeen
<1>4. \A k \in MarkersOf(u, i) : k \in 1..Len(log) /\ i <= k /\ k \in Recent(u)
  <2> TAKE k \in MarkersOf(u, i)
  <2>1. k \in DOMAIN log /\ k \in Recent(u) /\ log[k].of = i /\ log[k].action \in Markers
    BY <1>3 DEF MarkersOf
  <2>2. i \in 1..(k - 1)
    BY <2>1, LogIsTyped DEF MarkerIsSound
  <2> QED
    BY <1>1, <2>1, <2>2
<1>5. n \notin 1..Len(log) /\ n \in Nat
  BY <1>1
<1>6. MarkersOf(u, i)' = {k \in Recent(u)' : log'[k].of = i}
  BY DEF MarkersOf
<1> HIDE DEF n
<1>7. \A k \in MarkersOf(u, i) : k \in Recent(u)'
  BY <1>2, <1>4
<1>8. MarkersOf(u, i)' = MarkersOf(u, i) \cup (IF e.of = i THEN {n} ELSE {})
  <2>1. \A k \in Recent(u)' : IF k = n THEN log'[k] = e ELSE k \in Recent(u) /\ log'[k] = log[k]
    BY <1>1, <1>2
  <2>2. \A k \in MarkersOf(u, i) : k # n /\ k \in Recent(u) /\ log[k].of = i
    BY <1>3, <1>4, <1>5
  <2>3. \A k \in Recent(u) : log[k].of = i => k \in MarkersOf(u, i)
    BY DEF MarkersOf
  <2>4. ASSUME NEW k \in Recent(u)', log'[k].of = i, k # n PROVE k \in MarkersOf(u, i)
    BY <2>1, <2>3, <2>4
  <2>5. ASSUME NEW k \in Recent(u)', log'[k].of = i, k = n PROVE e.of = i
    BY <2>1, <2>5
  <2>6. ASSUME NEW k \in MarkersOf(u, i) PROVE k \in Recent(u)' /\ log'[k].of = i
    BY <1>7, <2>1, <2>2
  <2>7. ASSUME e.of = i PROVE n \in Recent(u)' /\ log'[n].of = i
    BY <1>1, <1>2, <2>7
  <2> QED
    BY <1>6, <2>4, <2>5, <2>6, <2>7
<1>9. CASE e.of # i
  <2>1. MarkersOf(u, i)' = MarkersOf(u, i)
    BY <1>8, <1>9
  <2>2. LastMark(u, i)' = LastMark(u, i)
    BY <2>1 DEF LastMark
  <2>3. MarkersOf(u, i) # {} => LastMark(u, i) \in MarkersOf(u, i)
    BY <1>1, <1>3, MaxIsThere DEF LastMark
  <2>4. MarkersOf(u, i) # {} => log'[LastMark(u, i)] = log[LastMark(u, i)]
    BY <1>1, <1>4, <2>3
  <2>5. Undone(u, i)' <=> MarkersOf(u, i) # {} /\ log'[LastMark(u, i)].action = "operation_undone"
    BY <2>1, <2>2 DEF Undone
  <2> QED
    BY <1>9, <2>2, <2>4, <2>5 DEF Undone
<1>10. CASE e.of = i
  <2> DEFINE M == MarkersOf(u, i) \cup {n}
  <2>1. MarkersOf(u, i)' = M
    BY <1>8, <1>10
  <2>2. M \subseteq 0..n /\ n \in M
    BY <1>1, <1>4, <1>5 DEF n
  <2>3. Max(M) \in M /\ n <= Max(M)
    <3> HIDE DEF M
    <3> QED
      BY <1>5, <2>2, MaxIsThere
  <2>4. Max(M) = n
    <3>1. Max(M) \in 0..n
      BY <2>2, <2>3
    <3> HIDE DEF M
    <3> QED
      BY <1>5, <2>3, <3>1
  <2>5. LastMark(u, i)' = n /\ MarkersOf(u, i)' # {}
    BY <2>1, <2>4 DEF LastMark
  <2>6. Undone(u, i)' <=> e.action = "operation_undone"
    BY <1>1, <2>5 DEF Undone
  <2> QED
    BY <1>10, <2>5, <2>6 DEF n
<1> QED
  BY <1>9, <1>10

-----------------------------------------------------------------------------
(* What undo and redo choose from, after each kind of entry.               *)

LEMMA OperationsAreTyped ==
  ASSUME BoardInv, NEW u \in Users
  PROVE  /\ OperationsOf(u) \subseteq 1..Len(log) /\ OperationsOf(u) \subseteq Recent(u)
         /\ Undoable(u) \in SUBSET OperationsOf(u) /\ Redoable(u) \in SUBSET OperationsOf(u)
         /\ Len(log) \in Nat
  BY LogIsTyped DEF OperationsOf, Recent, Undoable, Redoable

(* A new operation can be undone, and nothing can be redone.               *)
LEMMA OperationIsStacked ==
  ASSUME BoardInv, NEW e, log' = Append(log, e), NEW u \in Users, e.actor = u,
         e.action \in Reversible, e.of = 0
  PROVE  /\ Undoable(u)' = (Undoable(u) \cup {Len(log) + 1}) \cap Recent(u)'
         /\ Redoable(u)' = {}
<1>0. PICK n \in Nat : n = Len(log) + 1
  BY LogIsAppended
<1>1. /\ Len(log) \in Nat /\ DOMAIN log = 1..Len(log)
      /\ log'[n] = e /\ \A k \in 1..Len(log) : log'[k] = log[k]
  BY <1>0, LogIsAppended
<1>2. OperationsOf(u)' = (OperationsOf(u) \cap Recent(u)') \cup {n}
  BY <1>0, OperationsMove
<1>3. /\ n \in Recent(u)' /\ Recent(u)' \subseteq Recent(u) \cup {n}
  BY <1>0, WindowMoves
<1>4. /\ OperationsOf(u) \subseteq 1..Len(log) /\ Recent(u) \subseteq 1..Len(log)
      /\ n \notin 1..Len(log) /\ n \in Nat /\ n # 0
  BY <1>0, <1>1 DEF OperationsOf, Recent
<1>5. ASSUME NEW i \in OperationsOf(u), i \in Recent(u)'
      PROVE  LastMark(u, i)' = LastMark(u, i) /\ (Undone(u, i)' <=> Undone(u, i))
  <2>1. e.of # i
    BY <1>4, <1>5
  <2> QED
    BY <1>5, <2>1, MarksMove
<1>6. ~Undone(u, n)'
  <2>1. MarkersOf(u, n)' = {k \in Recent(u)' : log'[k].of = n}
    BY DEF MarkersOf
  <2>2. ASSUME NEW k \in Recent(u)' PROVE log'[k].of # n
    <3>1. CASE k = n
      BY <1>1, <1>4, <3>1
    <3>2. CASE k # n
      <4>1. k \in 1..Len(log) /\ log'[k] = log[k]
        BY <1>1, <1>3, <1>4, <3>2
      <4>2. log[k].action \in Markers => log[k].of \in 1..(k - 1)
        BY <1>1, <4>1, LogIsTyped DEF MarkerIsSound
      <4>3. log[k].action \notin Markers => log[k].of = 0
        BY <1>1, <4>1, LogIsTyped
      <4>4. \A j \in 1..(k - 1) : j # n
        BY <1>0, <1>1, <4>1
      <4> QED
        BY <1>4, <4>1, <4>2, <4>3, <4>4
    <3> QED
      BY <3>1, <3>2
  <2>3. MarkersOf(u, n)' = {}
    BY <2>1, <2>2
  <2> QED
    BY <2>3 DEF Undone
<1>7. Undoable(u)' = {i \in OperationsOf(u)' : ~Undone(u, i)'}
  BY DEF Undoable
<1>8. Redoable(u)' = {i \in OperationsOf(u)' :
                        Undone(u, i)' /\ LastMark(u, i)' > Max(OperationsOf(u)')}
  BY DEF Redoable
<1>9. n <= Max(OperationsOf(u)') /\ Max(OperationsOf(u)') \in Nat
  <2>1. OperationsOf(u)' \subseteq 0..n /\ n \in OperationsOf(u)'
    <3>1. 1..Len(log) \subseteq 0..n /\ n \in 0..n
      BY <1>0, <1>1
    <3> QED
      BY <1>2, <1>4, <3>1
  <2>2. Max(OperationsOf(u)') \in OperationsOf(u)' /\ n <= Max(OperationsOf(u)')
    <3> QED
      BY <1>4, <2>1, MaxIsThere
  <2> QED
    BY <2>1, <2>2
<1>10. ASSUME NEW i \in Redoable(u)' PROVE FALSE
  <2>1. i \in OperationsOf(u)' /\ Undone(u, i)' /\ LastMark(u, i)' > Max(OperationsOf(u)')
    BY <1>8
  <2>2. i \in OperationsOf(u) /\ i \in Recent(u)'
    <3>1. i # n
      BY <1>6, <2>1
    <3> QED
      BY <1>2, <2>1, <3>1
  <2>3. LastMark(u, i)' = LastMark(u, i) /\ Undone(u, i)
    BY <1>5, <2>1, <2>2
  <2>4. LastMark(u, i) \in 0..Len(log)
    <3>1. MarkersOf(u, i) \subseteq 0..Len(log) /\ MarkersOf(u, i) # {}
      BY <2>2, <2>3, MarkersAreSeen DEF Undone
    <3> QED
      BY <1>1, <3>1, MaxIsThere DEF LastMark
  <2>5. LastMark(u, i) > Max(OperationsOf(u)')
    BY <2>1, <2>3
  <2> QED
    BY <1>0, <1>1, <1>9, <2>4, <2>5
<1>11. Undoable(u)' = (Undoable(u) \cup {n}) \cap Recent(u)'
  <2>1. n \in Undoable(u)'
    BY <1>2, <1>6, <1>7
  <2>2. \A i \in OperationsOf(u) \cap Recent(u)' : i \in Undoable(u)' <=> i \in Undoable(u)
    <3> TAKE i \in OperationsOf(u) \cap Recent(u)'
    <3>1. i \in Undoable(u)' <=> ~Undone(u, i)'
      BY <1>2, <1>7
    <3>2. i \in Undoable(u) <=> ~Undone(u, i)
      BY DEF Undoable
    <3> QED
      BY <1>5, <3>1, <3>2
  <2>3. Undoable(u)' \subseteq (OperationsOf(u) \cap Recent(u)') \cup {n}
    BY <1>2, <1>7
  <2>4. Undoable(u) \subseteq OperationsOf(u)
    BY DEF Undoable
  <2> QED
    BY <1>3, <2>1, <2>2, <2>3, <2>4
<1> QED
  BY <1>0, <1>10, <1>11

(* An entry that is no operation moves only the operation it names.        *)
LEMMA OperationsPass ==
  ASSUME BoardInv, NEW e, log' = Append(log, e), NEW u \in Users, e.actor = u,
         e.action \notin Reversible, OperationsOf(u) # {}
  PROVE  /\ Undoable(u)' \cup Redoable(u)' \subseteq OperationsOf(u) \cap Recent(u)'
         /\ \A i \in OperationsOf(u) \cap Recent(u)' :
              /\ i \in Redoable(u)' <=>
                   IF e.of = i THEN e.action = "operation_undone" ELSE i \in Redoable(u)
              /\ i \in Undoable(u)' <=>
                   IF e.of = i THEN e.action # "operation_undone" ELSE i \in Undoable(u)
<1> DEFINE n == Len(log) + 1
           Ops == OperationsOf(u)
           W == Recent(u)'
<1>1. OperationsOf(u)' = Ops \cap W
  BY OperationsMove
<1>2. /\ Ops \subseteq 1..Len(log) /\ Ops \subseteq Recent(u) /\ Len(log) \in Nat
  BY OperationsAreTyped
<1>3. \A i \in W, k \in Recent(u) : i <= k => k \in W
  BY WindowMoves
<1>4. \A i \in Ops \cap W :
         /\ LastMark(u, i)' = IF e.of = i THEN n ELSE LastMark(u, i)
         /\ Undone(u, i)' <=> IF e.of = i THEN e.action = "operation_undone" ELSE Undone(u, i)
  BY MarksMove
<1>5. Undoable(u)' = {i \in OperationsOf(u)' : ~Undone(u, i)'}
  BY DEF Undoable
<1>6. Redoable(u)' = {i \in OperationsOf(u)' :
                        Undone(u, i)' /\ LastMark(u, i)' > Max(OperationsOf(u)')}
  BY DEF Redoable
<1>7. /\ Undoable(u) = {i \in Ops : ~Undone(u, i)}
      /\ Redoable(u) = {i \in Ops : Undone(u, i) /\ LastMark(u, i) > Max(Ops)}
  BY DEF Undoable, Redoable
<1> HIDE DEF Ops, W
<1>8. Max(Ops) \in Ops /\ \A i \in Ops : i <= Max(Ops)
  <2>1. Ops \subseteq 0..Len(log) /\ Ops # {}
    BY <1>2 DEF Ops
  <2> QED
    BY <1>2, <2>1, MaxIsThere
<1>9. Ops \cap W # {} => Max(Ops \cap W) = Max(Ops)
  <2> SUFFICES ASSUME Ops \cap W # {} PROVE Max(Ops \cap W) = Max(Ops)
    OBVIOUS
  <2>1. Ops \cap W \subseteq 0..Len(log)
    <3>1. 1..Len(log) \subseteq 0..Len(log)
      BY <1>2
    <3> QED
      BY <1>2, <3>1
  <2>2. /\ Max(Ops \cap W) \in Ops \cap W
        /\ \A i \in Ops \cap W : i <= Max(Ops \cap W)
    BY <1>2, <2>1, MaxIsThere
  <2>3. Max(Ops) \in Ops \cap W
    <3>1. PICK i \in Ops \cap W : TRUE
      OBVIOUS
    <3> QED
      BY <1>2, <1>3, <1>8, <3>1
  <2>4. Max(Ops \cap W) <= Max(Ops) /\ Max(Ops) <= Max(Ops \cap W)
    BY <1>8, <2>2, <2>3
  <2>5. Max(Ops \cap W) \in 0..Len(log) /\ Max(Ops) \in 0..Len(log)
    BY <2>1, <2>2, <2>3
  <2> QED
    BY <1>2, <2>4, <2>5
<1>10. n > Max(Ops)
  <2>1. Max(Ops) \in 1..Len(log)
    BY <1>2, <1>8
  <2> QED
    BY <1>2, <2>1
<1> HIDE DEF n
<1>11. \A i \in Ops \cap W : i \in Redoable(u)' <=>
          IF e.of = i THEN e.action = "operation_undone" ELSE i \in Redoable(u)
  <2> TAKE i \in Ops \cap W
  <2>1. i \in Redoable(u)' <=> Undone(u, i)' /\ LastMark(u, i)' > Max(Ops)
    BY <1>1, <1>6, <1>9
  <2>2. CASE e.of = i
    BY <1>4, <1>10, <2>1, <2>2
  <2>3. CASE e.of # i
    BY <1>4, <1>7, <2>1, <2>3
  <2> QED
    BY <2>2, <2>3
<1>12. \A i \in Ops \cap W : i \in Undoable(u)' <=>
          IF e.of = i THEN e.action # "operation_undone" ELSE i \in Undoable(u)
  BY <1>1, <1>4, <1>5, <1>7
<1>13. Undoable(u)' \subseteq Ops \cap W /\ Redoable(u)' \subseteq Ops \cap W
  BY <1>1, <1>5, <1>6
<1> QED
  BY <1>11, <1>12, <1>13 DEF Ops, W

(* The operation a marker names passes from one to the other.              *)
LEMMA MarkerIsStacked ==
  ASSUME BoardInv, NEW e, log' = Append(log, e), NEW u \in Users, e.actor = u,
         e.action \in Markers, e.of \in OperationsOf(u)
  PROVE  IF e.action = "operation_undone"
         THEN /\ Undoable(u)' = (Undoable(u) \ {e.of}) \cap Recent(u)'
              /\ Redoable(u)' = (Redoable(u) \cup {e.of}) \cap Recent(u)'
         ELSE /\ Undoable(u)' = (Undoable(u) \cup {e.of}) \cap Recent(u)'
              /\ Redoable(u)' = (Redoable(u) \ {e.of}) \cap Recent(u)'
<1> DEFINE Ops == OperationsOf(u)
           W == Recent(u)'
<1>1. /\ Undoable(u)' \cup Redoable(u)' \subseteq Ops \cap W
      /\ \A i \in Ops \cap W :
           /\ i \in Redoable(u)' <=>
                IF e.of = i THEN e.action = "operation_undone" ELSE i \in Redoable(u)
           /\ i \in Undoable(u)' <=>
                IF e.of = i THEN e.action # "operation_undone" ELSE i \in Undoable(u)
  BY OperationsPass, OthersAreOthers
<1>2. Undoable(u) \subseteq Ops /\ Redoable(u) \subseteq Ops /\ e.of \in Ops
  BY OperationsAreTyped
<1> HIDE DEF Ops
<1> QED
  BY <1>1, <1>2 DEF W

(* Another entry moves none, and may push the oldest out of the window.    *)
LEMMA OtherIsStacked ==
  ASSUME BoardInv, NEW e, log' = Append(log, e), NEW u \in Users, e.actor = u,
         e.action \notin Reversible, e.of = 0
  PROVE  /\ Undoable(u)' = Undoable(u) \cap Recent(u)'
         /\ Redoable(u)' = Redoable(u) \cap Recent(u)'
         /\ \A i \in Redoable(u)' : LastMark(u, i)' = LastMark(u, i)
<1> DEFINE Ops == OperationsOf(u)
           W == Recent(u)'
<1>1. /\ Ops \subseteq 1..Len(log) /\ Undoable(u) \in SUBSET Ops /\ Redoable(u) \in SUBSET Ops
      /\ Len(log) \in Nat
  BY OperationsAreTyped
<1>2. \A i \in Ops : i # e.of
  BY <1>1
<1>3. /\ Undoable(u)' = Undoable(u) \cap W /\ Redoable(u)' = Redoable(u) \cap W
  <2>1. CASE Ops = {}
    <3>1. OperationsOf(u)' = {}
      BY <2>1, OperationsMove
    <3>2. Undoable(u)' \subseteq OperationsOf(u)' /\ Redoable(u)' \subseteq OperationsOf(u)'
      BY DEF Undoable, Redoable
    <3> QED
      BY <1>1, <2>1, <3>1, <3>2
  <2>2. CASE Ops # {}
    <3>1. /\ Undoable(u)' \cup Redoable(u)' \subseteq Ops \cap W
          /\ \A i \in Ops \cap W :
               /\ i \in Redoable(u)' <=>
                    IF e.of = i THEN e.action = "operation_undone" ELSE i \in Redoable(u)
               /\ i \in Undoable(u)' <=>
                    IF e.of = i THEN e.action # "operation_undone" ELSE i \in Undoable(u)
      BY <2>2, OperationsPass
    <3> HIDE DEF Ops, W
    <3> QED
      BY <1>1, <1>2, <3>1
  <2> QED
    BY <2>1, <2>2
<1>4. ASSUME NEW i \in Redoable(u)' PROVE LastMark(u, i)' = LastMark(u, i)
  <2>1. i \in OperationsOf(u) /\ i \in Recent(u)' /\ e.of # i
    BY <1>1, <1>2, <1>3
  <2> QED
    BY <2>1, MarksMove
<1> QED
  BY <1>3, <1>4
-----------------------------------------------------------------------------
(* Of the operations of a user, those that can be redone are newer than    *)
(* those that can be undone, and the later one was undone the older it is. *)
LastUndoneFirst == \A u \in Users :
    /\ \A i \in Undoable(u), k \in Redoable(u) : i < k
    /\ \A i, k \in Redoable(u) : i < k => LastMark(u, k) < LastMark(u, i)

StackInv == BoardInv /\ LastUndoneFirst

(* What is added to the log.                                               *)
IsOperation(e) == e.actor \in Users /\ e.action \in Reversible /\ e.of = 0 /\ Len(log) < MaxLog
IsOther(e) == e.actor \in Users /\ e.action \in Others /\ e.of = 0
IsUndo(e) == /\ e.actor \in Users /\ e.action = "operation_undone"
             /\ Undoable(e.actor) # {} /\ e.of = Max(Undoable(e.actor))
IsRedo(e) == /\ e.actor \in Users /\ e.action = "operation_redone"
             /\ e.of \in Redoable(e.actor)
             /\ \A k \in Redoable(e.actor) : LastMark(e.actor, k) <= LastMark(e.actor, e.of)

LEMMA StepIsStacked ==
  ASSUME [Next]_vars
  PROVE  \/ log' = log
         \/ \E e : log' = Append(log, e) /\ (IsOperation(e) \/ IsUndo(e) \/ IsRedo(e) \/ IsOther(e))
<1>1. ASSUME NEW u, NEW action, NEW notes, NEW lines, NEW of, Record(u, action, notes, lines, of)
      PROVE  \E e : log' = Append(log, e) /\ e.actor = u /\ e.action = action /\ e.of = of
  <2> DEFINE e == NewEntry(u, action, notes, lines, of, board')
  <2>1. log' = Append(log, e) /\ e.actor = u /\ e.action = action /\ e.of = of
    BY <1>1 DEF Record, NewEntry
  <2> HIDE DEF e
  <2> QED
    BY <2>1
<1> DEFINE Adds == \E e : log' = Append(log, e) /\ IsOperation(e)
<1>2. ASSUME NEW u \in Users, NEW action, NEW notes, NEW lines, NEW c,
             Commit(u, action, notes, lines, 0, c), action \in Reversible
      PROVE  Adds
  BY <1>1, <1>2 DEF Commit, MayAdd, IsOperation
<1> HIDE DEF Adds
<1>3. CASE UNCHANGED vars \/ ReturnNotes \/ Expire \/ Purge
  BY <1>3 DEF vars, ReturnNotes, Expire, Purge
<1>4. \A action \in {"node_created", "node_content_updated", "node_assignee_updated", "node_moved",
                     "nodes_moved", "auto_layout_applied", "node_status_updated", "node_deleted",
                     "node_restored", "connection_created", "connection_deleted"} :
         action \in Reversible
  BY DEF Reversible, Edits
<1>5. ASSUME NEW u \in Users, NEW n \in Notes, OnNote(u, n) PROVE Adds
  BY <1>2, <1>4, <1>5 DEF OnNote, CreateNote, UpdateContent, Assign, Move, Hold, Release,
     DeleteNote, RestoreNote
<1>6. ASSUME NEW u \in Users, NEW l \in Lines, OnLine(u, l) PROVE Adds
  BY <1>2, <1>4, <1>6 DEF OnLine, CreateConnection, DeleteConnection
<1>7. ASSUME NEW u \in Users, OnCanvas(u) PROVE Adds
  BY <1>2, <1>4, <1>7 DEF OnCanvas, MoveMany, AutoLayout
<1>8. ASSUME NEW u \in Users, UndoLast(u)
      PROVE  \E e : log' = Append(log, e) /\ IsUndo(e)
  BY <1>1, <1>8 DEF UndoLast, IsUndo
<1>9. ASSUME NEW u \in Users, RedoLast(u)
      PROVE  \E e : log' = Append(log, e) /\ IsRedo(e)
  BY <1>1, <1>9 DEF RedoLast, IsRedo
<1>10. ASSUME NEW u \in Users, LogOther(u)
       PROVE  \E e : log' = Append(log, e) /\ IsOther(e)
  <2>1. PICK action \in Others : Record(u, action, {}, {}, 0)
    BY <1>10 DEF LogOther, Commit
  <2> QED
    BY <1>1, <2>1 DEF IsOther
<1> QED
  BY <1>3, <1>5, <1>6, <1>7, <1>8, <1>9, <1>10 DEF Next, OnNote, ReplayLast, Adds

(* What a marker names is the latest that can be undone, or the oldest     *)
(* that can be redone.                                                     *)
LEMMA MarkerNames ==
  ASSUME StackInv, NEW e, IsUndo(e) \/ IsRedo(e)
  PROVE  /\ e.actor \in Users /\ e.action \in Markers /\ e.of \in OperationsOf(e.actor)
         /\ IsUndo(e) => /\ e.action = "operation_undone" /\ e.of \in Undoable(e.actor)
                         /\ \A k \in Undoable(e.actor) : k <= e.of
         /\ IsRedo(e) => /\ e.action # "operation_undone" /\ e.of \in Redoable(e.actor)
                         /\ \A k \in Redoable(e.actor) : e.of <= k
<1> DEFINE u == e.actor
<1>1. u \in Users /\ e.action \in Markers
  BY DEF IsUndo, IsRedo, Markers
<1> HIDE DEF u
<1>2. /\ Undoable(u) \subseteq 1..Len(log) /\ Redoable(u) \subseteq 1..Len(log) /\ Len(log) \in Nat
      /\ Undoable(u) \subseteq OperationsOf(u) /\ Redoable(u) \subseteq OperationsOf(u)
  BY <1>1, OperationsAreTyped DEF StackInv
<1>3. ASSUME IsUndo(e) PROVE e.of \in Undoable(u) /\ \A k \in Undoable(u) : k <= e.of
  <2>1. Undoable(u) \subseteq 0..Len(log) /\ Undoable(u) # {} /\ e.of = Max(Undoable(u))
    BY <1>2, <1>3 DEF IsUndo, u
  <2> QED
    BY <1>2, <2>1, MaxIsThere
<1>4. ASSUME IsRedo(e) PROVE e.of \in Redoable(u) /\ \A k \in Redoable(u) : e.of <= k
  <2>1. e.of \in Redoable(u) /\ \A k \in Redoable(u) : LastMark(u, k) <= LastMark(u, e.of)
    BY <1>4 DEF IsRedo, u
  <2>2. ASSUME NEW k \in Redoable(u) PROVE e.of <= k
    <3>1. CASE k < e.of
      <4>1. LastMark(u, e.of) < LastMark(u, k) /\ LastMark(u, k) <= LastMark(u, e.of)
        BY <1>1, <2>1, <3>1 DEF StackInv, LastUndoneFirst
      <4>2. LastMark(u, k) \in DOMAIN log /\ LastMark(u, e.of) \in DOMAIN log
            /\ DOMAIN log = 1..Len(log)
        BY <1>1, <2>1, RedoFinds, LogIsTyped DEF LastWord, StackInv
      <4> QED
        BY <1>2, <4>1, <4>2
    <3>2. e.of \in 1..Len(log) /\ k \in 1..Len(log)
      BY <1>2, <2>1
    <3> QED
      BY <3>1, <3>2
  <2> QED
    BY <2>1, <2>2
<1> QED
  BY <1>1, <1>2, <1>3, <1>4 DEF u, IsUndo, IsRedo


(* Without an entry all sees stay the same.                                *)
LEMMA NothingIsStacked ==
  ASSUME log' = log, NEW u \in Users
  PROVE  /\ Undoable(u)' = Undoable(u) /\ Redoable(u)' = Redoable(u)
         /\ \A i : LastMark(u, i)' = LastMark(u, i)
<1>1. Recent(u)' = Recent(u)
  BY DEF Recent
<1>2. \A i : LastMark(u, i)' = LastMark(u, i)
  BY <1>1 DEF LastMark, MarkersOf
<1>3. \A i : Undone(u, i)' <=> Undone(u, i)
  BY <1>1, <1>2 DEF Undone, MarkersOf
<1>4. OperationsOf(u)' = OperationsOf(u)
  BY <1>1 DEF OperationsOf
<1> QED
  BY <1>2, <1>3, <1>4 DEF Undoable, Redoable

LEMMA StacksAtFirst ==
  ASSUME Init, NEW u \in Users
  PROVE  Undoable(u) = {} /\ Redoable(u) = {}
<1>1. DOMAIN log = {}
  <2>1. log = <<>>
    BY DEF Init
  <2> QED
    BY <2>1
<1> QED
  BY <1>1 DEF Undoable, Redoable, OperationsOf, Recent

(* An undo or a redo keeps the order.                                      *)
LEMMA UndoKeepsOrder ==
  ASSUME StackInv, NEW e, log' = Append(log, e), IsUndo(e), NEW u, u = e.actor
  PROVE  /\ \A i \in Undoable(u)', k \in Redoable(u)' : i < k
         /\ \A i, k \in Redoable(u)' : i < k => LastMark(u, k)' < LastMark(u, i)'
<1>0. BoardInv /\ LastUndoneFirst
  BY DEF StackInv
<1>1. /\ u \in Users /\ e.action \in Markers /\ e.of \in OperationsOf(u)
      /\ e.action = "operation_undone" /\ e.of \in Undoable(u)
      /\ \A k \in Undoable(u) : k <= e.of
  BY MarkerNames
<1>2. PICK n \in Nat : n = Len(log) + 1
  BY <1>0, LogIsAppended
<1>3. PICK j : j = e.of
  OBVIOUS
<1>4. /\ Undoable(u)' = (Undoable(u) \ {j}) \cap Recent(u)'
      /\ Redoable(u)' = (Redoable(u) \cup {j}) \cap Recent(u)'
  BY <1>0, <1>1, <1>3, MarkerIsStacked
<1>5. /\ Undoable(u) \subseteq 1..Len(log) /\ Redoable(u) \subseteq 1..Len(log)
      /\ Redoable(u) \subseteq OperationsOf(u) /\ Len(log) \in Nat
  BY <1>0, <1>1, OperationsAreTyped
<1>6. /\ \A i \in Undoable(u), k \in Redoable(u) : i < k
      /\ \A i, k \in Redoable(u) : i < k => LastMark(u, k) < LastMark(u, i)
  BY <1>0, <1>1 DEF LastUndoneFirst
<1>7. ASSUME NEW k \in Redoable(u)'
      PROVE  LastMark(u, k)' = IF k = j THEN n ELSE LastMark(u, k)
  <2>1. k \in OperationsOf(u) /\ k \in Recent(u)'
    BY <1>1, <1>3, <1>4, <1>5
  <2> QED
    BY <1>0, <1>1, <1>2, <1>3, <2>1, MarksMove
<1>8. ASSUME NEW i \in Undoable(u)', NEW k \in Redoable(u)' PROVE i < k
  <2>1. i \in Undoable(u) /\ i # j /\ i <= j /\ i \in 1..Len(log) /\ j \in 1..Len(log)
    BY <1>1, <1>3, <1>4, <1>5
  <2>2. i < j
    BY <1>5, <2>1
  <2> QED
    BY <1>4, <1>6, <2>1, <2>2
<1>9. ASSUME NEW i \in Redoable(u)', NEW k \in Redoable(u)', i < k
      PROVE  LastMark(u, k)' < LastMark(u, i)'
  <2>1. i \in 1..Len(log) /\ k \in 1..Len(log) /\ j \in 1..Len(log)
    BY <1>1, <1>3, <1>4, <1>5
  <2>2. k # j
    <3>1. i \in Redoable(u) => j < i
      BY <1>1, <1>3, <1>6
    <3>2. i # j => i \in Redoable(u)
      BY <1>4
    <3> QED
      BY <1>5, <1>9, <2>1, <3>1, <3>2
  <2>3. k \in Redoable(u) /\ LastMark(u, k)' = LastMark(u, k)
    BY <1>4, <1>7, <2>2
  <2>4. CASE i = j
    <3>1. LastMark(u, k) \in 1..Len(log)
      BY <1>0, <1>1, <2>3, RedoFinds, LogIsTyped DEF LastWord
    <3>2. LastMark(u, k) < n
      BY <1>2, <1>5, <3>1
    <3> QED
      BY <1>7, <2>3, <2>4, <3>2
  <2>5. CASE i # j
    <3>1. i \in Redoable(u) /\ LastMark(u, i)' = LastMark(u, i)
      BY <1>4, <1>7, <2>5
    <3> QED
      BY <1>6, <1>9, <2>3, <3>1
  <2> QED
    BY <2>4, <2>5
<1> QED
  BY <1>8, <1>9

LEMMA RedoKeepsOrder ==
  ASSUME StackInv, NEW e, log' = Append(log, e), IsRedo(e), NEW u, u = e.actor
  PROVE  /\ \A i \in Undoable(u)', k \in Redoable(u)' : i < k
         /\ \A i, k \in Redoable(u)' : i < k => LastMark(u, k)' < LastMark(u, i)'
<1>0. BoardInv /\ LastUndoneFirst
  BY DEF StackInv
<1>1. /\ u \in Users /\ e.action \in Markers /\ e.of \in OperationsOf(u)
      /\ e.action # "operation_undone" /\ e.of \in Redoable(u)
      /\ \A k \in Redoable(u) : e.of <= k
  BY MarkerNames
<1>3. PICK j : j = e.of
  OBVIOUS
<1>4. /\ Undoable(u)' = (Undoable(u) \cup {j}) \cap Recent(u)'
      /\ Redoable(u)' = (Redoable(u) \ {j}) \cap Recent(u)'
  BY <1>0, <1>1, <1>3, MarkerIsStacked
<1>5. /\ Redoable(u) \subseteq 1..Len(log)
      /\ Redoable(u) \subseteq OperationsOf(u) /\ Len(log) \in Nat
  BY <1>0, <1>1, OperationsAreTyped
<1>6. /\ \A i \in Undoable(u), k \in Redoable(u) : i < k
      /\ \A i, k \in Redoable(u) : i < k => LastMark(u, k) < LastMark(u, i)
  BY <1>0, <1>1 DEF LastUndoneFirst
<1>7. ASSUME NEW k \in Redoable(u)' PROVE k \in Redoable(u) /\ LastMark(u, k)' = LastMark(u, k)
  <2>1. k \in OperationsOf(u) /\ k \in Recent(u)' /\ k # j
    BY <1>4, <1>5
  <2> QED
    BY <1>0, <1>1, <1>3, <1>4, <2>1, MarksMove
<1>8. ASSUME NEW i \in Undoable(u)', NEW k \in Redoable(u)' PROVE i < k
  <2>1. k \in Redoable(u) /\ k # j /\ j <= k /\ j \in 1..Len(log) /\ k \in 1..Len(log)
    BY <1>1, <1>3, <1>4, <1>5
  <2>2. j < k
    BY <1>5, <2>1
  <2> QED
    BY <1>4, <1>6, <2>1, <2>2
<1> QED
  BY <1>6, <1>7, <1>8

LEMMA OrderIsKept ==
  ASSUME StackInv, [Next]_vars
  PROVE  StackInv'
<1>1. BoardInv' /\ BoardInv /\ LastUndoneFirst
  BY InvariantIsKept DEF StackInv
<1> SUFFICES ASSUME NEW u \in Users
             PROVE  /\ \A i \in Undoable(u)', k \in Redoable(u)' : i < k
                    /\ \A i, k \in Redoable(u)' : i < k => LastMark(u, k)' < LastMark(u, i)'
  BY <1>1 DEF StackInv, LastUndoneFirst
<1>2. CASE log' = log
  BY <1>1, <1>2, NothingIsStacked DEF LastUndoneFirst
<1>3. ASSUME NEW e, log' = Append(log, e), e.actor # u
      PROVE  /\ \A i \in Undoable(u)', k \in Redoable(u)' : i < k
             /\ \A i, k \in Redoable(u)' : i < k => LastMark(u, k)' < LastMark(u, i)'
  <2>1. /\ Undoable(u)' = Undoable(u) /\ Redoable(u)' = Redoable(u)
        /\ \A i \in OperationsOf(u) : LastMark(u, i)' = LastMark(u, i)
    BY <1>1, <1>3, OthersSeeTheSame
  <2>2. Redoable(u) \subseteq OperationsOf(u)
    BY <1>1, OperationsAreTyped
  <2> QED
    BY <1>1, <2>1, <2>2 DEF LastUndoneFirst
<1>4. ASSUME NEW e, log' = Append(log, e), e.actor = u, IsOperation(e)
      PROVE  Redoable(u)' = {}
  BY <1>1, <1>4, OperationIsStacked DEF IsOperation
<1>5. ASSUME NEW e, log' = Append(log, e), e.actor = u, IsOther(e)
      PROVE  /\ \A i \in Undoable(u)', k \in Redoable(u)' : i < k
             /\ \A i, k \in Redoable(u)' : i < k => LastMark(u, k)' < LastMark(u, i)'
  <2>1. /\ Undoable(u)' \subseteq Undoable(u) /\ Redoable(u)' \subseteq Redoable(u)
        /\ \A i \in Redoable(u)' : LastMark(u, i)' = LastMark(u, i)
    BY <1>1, <1>5, OtherIsStacked, OthersAreOthers DEF IsOther
  <2> QED
    BY <1>1, <2>1 DEF LastUndoneFirst
<1> QED
  BY <1>2, <1>3, <1>4, <1>5, StepIsStacked, UndoKeepsOrder, RedoKeepsOrder

LEMMA OrderHolds == Spec => []StackInv
<1>1. Init => StackInv
  BY InvariantAtFirst, StacksAtFirst DEF StackInv, LastUndoneFirst
<1> QED
  BY <1>1, OrderIsKept, PTL DEF Spec
-----------------------------------------------------------------------------
(* The log is a stack.                                                     *)

LEMMA EndsOfSequences ==
  ASSUME NEW S, NEW s \in Seq(S), NEW x \in S
  PROVE  /\ Append(s, x) # <<>> /\ Front(Append(s, x)) = s /\ Last(Append(s, x)) = x
         /\ <<x>> \o s # <<>> /\ Head(<<x>> \o s) = x /\ Tail(<<x>> \o s) = s
<1> DEFINE a == Append(s, x)
           b == <<x>> \o s
<1>1. Len(s) \in Nat
  OBVIOUS
<1>2. /\ a \in Seq(S) /\ a # <<>> /\ Len(a) = Len(s) + 1
      /\ \A i \in 1..Len(s) : a[i] = s[i]
      /\ a[Len(s) + 1] = x
  BY AppendProperties
<1>3. <<x>> \in Seq(S) /\ Len(<<x>>) = 1 /\ <<x>>[1] = x
  OBVIOUS
<1>4. /\ b \in Seq(S) /\ Len(b) = 1 + Len(s)
      /\ \A i \in 1..(1 + Len(s)) : b[i] = IF i <= 1 THEN <<x>>[i] ELSE s[i - 1]
  BY <1>3, ConcatProperties
<1> HIDE DEF a, b
<1>5. Last(a) = x
  BY <1>2 DEF Last
<1>6. Front(a) = s
  <2>1. Front(a) = SubSeq(a, 1, Len(s))
    <3>1. Len(a) - 1 = Len(s)
      BY <1>1, <1>2
    <3> QED
      BY <3>1 DEF Front
  <2>2. \A i \in 1..Len(s) : a[i] \in S
    BY <1>2, ElementOfSeq
  <2>3. /\ SubSeq(a, 1, Len(s)) \in Seq(S)
        /\ Len(SubSeq(a, 1, Len(s))) = (IF 1 <= Len(s) THEN Len(s) - 1 + 1 ELSE 0)
        /\ \A i \in 1..(Len(s) - 1 + 1) : SubSeq(a, 1, Len(s))[i] = a[1 + i - 1]
    BY <1>1, <2>2, SubSeqProperties
  <2>4. Len(SubSeq(a, 1, Len(s))) = Len(s)
    BY <1>1, <2>3
  <2>5. \A i \in 1..Len(s) : i \in 1..(Len(s) - 1 + 1) /\ 1 + i - 1 = i
    BY <1>1
  <2>6. \A i \in 1..Len(s) : SubSeq(a, 1, Len(s))[i] = s[i]
    BY <1>2, <2>3, <2>5
  <2> QED
    BY <2>1, <2>3, <2>4, <2>6, SeqEqual
<1>7. b # <<>>
  BY <1>1, <1>4, EmptySeq
<1>8. Head(b) = x
  <2>1. 1 \in 1..(1 + Len(s))
    BY <1>1
  <2>2. b[1] = x
    BY <1>3, <1>4, <2>1
  <2> QED
    BY <1>4, <1>7, <2>2
<1>9. Tail(b) = s
  <2>1. /\ Tail(b) \in Seq(S) /\ Len(Tail(b)) = Len(b) - 1
        /\ \A i \in 1..Len(Tail(b)) : Tail(b)[i] = b[i + 1]
    BY <1>4, <1>7, HeadTailProperties
  <2>2. Len(Tail(b)) = Len(s)
    BY <1>1, <1>4, <2>1
  <2>3. \A i \in 1..Len(s) : i + 1 \in 1..(1 + Len(s)) /\ ~(i + 1 <= 1) /\ (i + 1) - 1 = i
    BY <1>1
  <2>4. \A i \in 1..Len(s) : Tail(b)[i] = s[i]
    BY <1>4, <2>1, <2>2, <2>3
  <2> QED
    BY <2>1, <2>2, <2>4, SeqEqual
<1> QED
  BY <1>2, <1>5, <1>6, <1>7, <1>8, <1>9 DEF a, b

(* One stack of each user changes, and the oldest fall out of the window.  *)
LEMMA StackBecomes ==
  ASSUME StackInv, NEW e, log' = Append(log, e), NEW u \in Users, e.actor = u,
         NEW D, NEW R, D \cup R \subseteq Recent(u) \cup {Len(log) + 1},
         Undoable(u)' = D \cap Recent(u)', Redoable(u)' = R \cap Recent(u)',
         \A i \in D, k \in R : i < k
  PROVE  Stacks!Becomes(u, Ascending(D), Ascending(R))
<1>0. BoardInv
  BY DEF StackInv
<1>9. PICK n \in Nat : n = Len(log) + 1
  BY <1>0, LogIsAppended
<1>10. PICK W : W = Recent(u)'
  OBVIOUS
<1>1. Recent(u) \subseteq 0..n /\ n \in 0..n
  <2>1. Len(log) \in Nat /\ DOMAIN log = 1..Len(log)
    BY <1>0, LogIsAppended
  <2>2. 1..Len(log) \subseteq 0..n
    BY <1>9, <2>1
  <2> QED
    BY <1>9, <2>1, <2>2 DEF Recent
<1>2. n \in W /\ \A i \in W, k \in Recent(u) : i <= k => k \in W
  BY <1>0, <1>9, <1>10, WindowMoves
<1>3. D \in SUBSET (0..n) /\ R \in SUBSET (0..n)
  BY <1>1, <1>9
<1>4. \A x \in (D \cup R) \cap W, y \in D \cup R : x <= y => y \in W
  BY <1>2, <1>9
<1>5. PICK fromD \in 0..Len(Ascending(D)), fromR \in 0..Len(Ascending(R)) :
        /\ fromR > 0 => fromD = Len(Ascending(D))
        /\ Ascending(D \cap W) = SubSeq(Ascending(D), fromD + 1, Len(Ascending(D)))
        /\ Ascending(R \cap W) = SubSeq(Ascending(R), fromR + 1, Len(Ascending(R)))
  <2>1. ForgetTogether(D, R, W)
    BY <1>3, <1>4, OldestAreForgotten
  <2> QED
    BY <2>1 DEF ForgetTogether
<1>6. \A v \in Users \ {u} : Undoable(v)' = Undoable(v) /\ Redoable(v)' = Redoable(v)
  BY <1>0, OthersSeeTheSame
<1>7. [v \in Users |-> Ascending(Undoable(v)')]
        = [[v \in Users |-> Ascending(Undoable(v))] EXCEPT ![u] = Ascending(D \cap W)]
  BY <1>6, <1>10
<1>8. [v \in Users |-> Ascending(Redoable(v)')]
        = [[v \in Users |-> Ascending(Redoable(v))] EXCEPT ![u] = Ascending(R \cap W)]
  BY <1>6, <1>10
<1> QED
  BY <1>5, <1>7, <1>8 DEF Stacks!Becomes


LEMMA OperationIsDone ==
  ASSUME StackInv, NEW e, log' = Append(log, e), IsOperation(e), NEW u, u = e.actor
  PROVE  Stacks!Do(u)
<1>0. BoardInv /\ LastUndoneFirst /\ u \in Users
  BY DEF StackInv, IsOperation
<1>1. PICK n \in Nat : n = Len(log) + 1
  BY <1>0, LogIsAppended
<1>2. /\ Undoable(u)' = (Undoable(u) \cup {n}) \cap Recent(u)' /\ Redoable(u)' = {}
      /\ n \in Recent(u)' /\ Recent(u)' \subseteq Recent(u) \cup {n}
  BY <1>0, <1>1, OperationIsStacked, WindowMoves DEF IsOperation
<1>3. /\ Undoable(u) \subseteq 1..Len(log) /\ Redoable(u) \subseteq 1..Len(log)
      /\ Undoable(u) \subseteq Recent(u) /\ Len(log) \in Nat
  BY <1>0, OperationsAreTyped
<1>4. \A i \in 1..Len(log) : i \in 0..n /\ i < n /\ n > i
  BY <1>1, <1>3
<1>5. Undoable(u) \in SUBSET (0..n) /\ n \in 0..n /\ \A i \in Undoable(u) : i < n
  BY <1>3, <1>4
<1>6. Append(Ascending(Undoable(u)), n) = Ascending(Undoable(u) \cup {n})
  BY <1>5, LargerIsAppended
<1>7. Stacks!Becomes(u, Ascending(Undoable(u) \cup {n}), Ascending({}))
  <2>1. (Undoable(u) \cup {n}) \cup {} \subseteq Recent(u) \cup {Len(log) + 1}
    BY <1>1, <1>3
  <2>2. Redoable(u)' = {} \cap Recent(u)' /\ \A i \in Undoable(u) \cup {n}, k \in {} : i < k
    BY <1>2
  <2> QED
    BY <1>0, <1>2, <2>1, <2>2, StackBecomes
<1>8. Stacks!Becomes(u, Append(Ascending(Undoable(u)), n), <<>>)
  BY <1>6, <1>7, NothingAscends
<1>9. n \in ToSet(Ascending(Undoable(u)'))
  <2>1. PICK U : U = Undoable(u)'
    OBVIOUS
  <2>2. U \in SUBSET (0..n) /\ n \in U
    BY <1>2, <1>5, <2>1
  <2>3. n \in ToSet(Ascending(U))
    BY <2>2, AscendingHoldsAll
  <2> QED
    BY <2>1, <2>3
<1>10. n \in 1..MaxLog
  BY <1>1, <1>3, MaxLogAssumption DEF IsOperation
<1>11. \A k \in ToSet(Ascending(Undoable(u))) \cup ToSet(Ascending(Redoable(u))) : n > k
  <2>1. Redoable(u) \in SUBSET (0..n)
    BY <1>3, <1>4
  <2>2. ToSet(Ascending(Undoable(u))) \subseteq Undoable(u)
    BY <1>5, AscendingHoldsAll
  <2>3. ToSet(Ascending(Redoable(u))) \subseteq Redoable(u)
    BY <2>1, AscendingHoldsAll
  <2> QED
    BY <1>3, <1>4, <2>2, <2>3
<1> QED
  BY <1>0, <1>8, <1>9, <1>10, <1>11 DEF Stacks!Do, Stacks!ToSet, ToSet

LEMMA UndoIsUndone ==
  ASSUME StackInv, NEW e, log' = Append(log, e), IsUndo(e), NEW u, u = e.actor
  PROVE  Stacks!Undo(u)
<1>0. BoardInv /\ LastUndoneFirst
  BY DEF StackInv
<1>1. /\ u \in Users /\ e.action \in Markers /\ e.of \in OperationsOf(u)
      /\ e.action = "operation_undone" /\ e.of \in Undoable(u)
      /\ \A k \in Undoable(u) : k <= e.of
  BY MarkerNames
<1>2. PICK j : j = e.of
  OBVIOUS
<1>3. PICK m \in Nat : m = Len(log)
  BY <1>0, LogIsAppended
<1>4. /\ Undoable(u)' = (Undoable(u) \ {j}) \cap Recent(u)'
      /\ Redoable(u)' = (Redoable(u) \cup {j}) \cap Recent(u)'
  BY <1>0, <1>1, <1>2, MarkerIsStacked
<1>5. /\ Undoable(u) \subseteq 1..m /\ Redoable(u) \subseteq 1..m
      /\ Undoable(u) \subseteq Recent(u) /\ Redoable(u) \subseteq Recent(u)
  BY <1>0, <1>1, <1>3, OperationsAreTyped
<1>6. 1..m \subseteq 0..m
  BY <1>3
<1>7. \A i \in Undoable(u), k \in Redoable(u) : i < k
  BY <1>0, <1>1 DEF LastUndoneFirst
<1> DEFINE D == Undoable(u) \ {j}
           R == Redoable(u) \cup {j}
<1>8. D \in SUBSET (0..m) /\ Redoable(u) \in SUBSET (0..m) /\ j \in 0..m /\ D \cup {j} = Undoable(u)
  BY <1>1, <1>2, <1>5, <1>6
<1>9. \A i \in D : i < j
  <2> TAKE i \in D
  <2>1. i \in 0..m /\ j \in 0..m /\ i <= j /\ i # j
    BY <1>1, <1>2, <1>8
  <2> QED
    BY <2>1
<1>10. \A k \in Redoable(u) : j < k
  BY <1>1, <1>2, <1>7
<1>11. \A i \in D, k \in R : i < k
  BY <1>7, <1>9
<1>12. Stacks!Becomes(u, Ascending(D), Ascending(R))
  <2>1. D \cup R \subseteq Recent(u) \cup {Len(log) + 1}
    BY <1>1, <1>2, <1>5
  <2> HIDE DEF D, R
  <2>2. Undoable(u)' = D \cap Recent(u)' /\ Redoable(u)' = R \cap Recent(u)'
    BY <1>4 DEF D, R
  <2> QED
    BY <1>1, <1>11, <2>1, <2>2, StackBecomes
<1> HIDE DEF D
<1>13. Ascending(Undoable(u)) = Append(Ascending(D), j)
  BY <1>8, <1>9, LargerIsAppended
<1>14. Ascending(R) = <<j>> \o Ascending(Redoable(u))
  BY <1>8, <1>10, SmallerIsPrepended
<1>15. /\ Ascending(Undoable(u)) # <<>> /\ Front(Ascending(Undoable(u))) = Ascending(D)
       /\ Last(Ascending(Undoable(u))) = j
  <2>1. PICK s \in Seq(0..m) : s = Ascending(D)
    BY <1>8, AscendingFacts
  <2>2. Append(s, j) # <<>> /\ Front(Append(s, j)) = s /\ Last(Append(s, j)) = j
    <3>1. j \in 0..m
      BY <1>8
    <3> QED
      BY <3>1, EndsOfSequences
  <2>3. Ascending(Undoable(u)) = Append(s, j)
    BY <1>13, <2>1
  <2> QED
    BY <2>1, <2>2, <2>3
<1> QED
  BY <1>1, <1>12, <1>14, <1>15 DEF Stacks!Undo, Stacks!Front, Stacks!Last, Front, Last

LEMMA RedoIsRedone ==
  ASSUME StackInv, NEW e, log' = Append(log, e), IsRedo(e), NEW u, u = e.actor
  PROVE  Stacks!Redo(u)
<1>0. BoardInv /\ LastUndoneFirst
  BY DEF StackInv
<1>1. /\ u \in Users /\ e.action \in Markers /\ e.of \in OperationsOf(u)
      /\ e.action # "operation_undone" /\ e.of \in Redoable(u)
      /\ \A k \in Redoable(u) : e.of <= k
  BY MarkerNames
<1>2. PICK j : j = e.of
  OBVIOUS
<1>3. PICK m \in Nat : m = Len(log)
  BY <1>0, LogIsAppended
<1>4. /\ Undoable(u)' = (Undoable(u) \cup {j}) \cap Recent(u)'
      /\ Redoable(u)' = (Redoable(u) \ {j}) \cap Recent(u)'
  BY <1>0, <1>1, <1>2, MarkerIsStacked
<1>5. /\ Undoable(u) \subseteq 1..m /\ Redoable(u) \subseteq 1..m
      /\ Undoable(u) \subseteq Recent(u) /\ Redoable(u) \subseteq Recent(u)
  BY <1>0, <1>1, <1>3, OperationsAreTyped
<1>6. 1..m \subseteq 0..m
  BY <1>3
<1>7. \A i \in Undoable(u), k \in Redoable(u) : i < k
  BY <1>0, <1>1 DEF LastUndoneFirst
<1> DEFINE D == Undoable(u) \cup {j}
           R == Redoable(u) \ {j}
<1>8. R \in SUBSET (0..m) /\ Undoable(u) \in SUBSET (0..m) /\ j \in 0..m /\ R \cup {j} = Redoable(u)
  BY <1>1, <1>2, <1>5, <1>6
<1>9. \A k \in R : j < k
  <2> TAKE k \in R
  <2>1. k \in 0..m /\ j \in 0..m /\ j <= k /\ k # j
    BY <1>1, <1>2, <1>8
  <2> QED
    BY <2>1
<1>10. \A i \in Undoable(u) : i < j
  BY <1>1, <1>2, <1>7
<1>11. \A i \in D, k \in R : i < k
  BY <1>7, <1>9
<1>12. Stacks!Becomes(u, Ascending(D), Ascending(R))
  <2>1. D \cup R \subseteq Recent(u) \cup {Len(log) + 1}
    BY <1>1, <1>2, <1>5
  <2> HIDE DEF D, R
  <2>2. Undoable(u)' = D \cap Recent(u)' /\ Redoable(u)' = R \cap Recent(u)'
    BY <1>4 DEF D, R
  <2> QED
    BY <1>1, <1>11, <2>1, <2>2, StackBecomes
<1> HIDE DEF R
<1>13. Ascending(D) = Append(Ascending(Undoable(u)), j)
  BY <1>8, <1>10, LargerIsAppended
<1>14. Ascending(Redoable(u)) = <<j>> \o Ascending(R)
  BY <1>8, <1>9, SmallerIsPrepended
<1>15. /\ Ascending(Redoable(u)) # <<>> /\ Tail(Ascending(Redoable(u))) = Ascending(R)
       /\ Head(Ascending(Redoable(u))) = j
  <2>1. PICK s \in Seq(0..m) : s = Ascending(R)
    BY <1>8, AscendingFacts
  <2>2. <<j>> \o s # <<>> /\ Head(<<j>> \o s) = j /\ Tail(<<j>> \o s) = s
    <3>1. j \in 0..m
      BY <1>8
    <3> QED
      BY <3>1, EndsOfSequences
  <2>3. Ascending(Redoable(u)) = <<j>> \o s
    BY <1>14, <2>1
  <2> QED
    BY <2>1, <2>2, <2>3
<1> QED
  BY <1>1, <1>12, <1>13, <1>15 DEF Stacks!Redo

LEMMA OtherIsForgetting ==
  ASSUME StackInv, NEW e, log' = Append(log, e), IsOther(e), NEW u, u = e.actor
  PROVE  Stacks!Forget(u)
<1>1. BoardInv /\ LastUndoneFirst /\ u \in Users
  BY DEF StackInv, IsOther
<1>2. /\ Undoable(u)' = Undoable(u) \cap Recent(u)' /\ Redoable(u)' = Redoable(u) \cap Recent(u)'
  BY <1>1, OtherIsStacked, OthersAreOthers DEF IsOther
<1>3. PICK D, R : D = Undoable(u) /\ R = Redoable(u)
  OBVIOUS
<1>4. D \cup R \subseteq Recent(u) \cup {Len(log) + 1} /\ \A i \in D, k \in R : i < k
  BY <1>1, <1>3, OperationsAreTyped DEF LastUndoneFirst
<1>5. Stacks!Becomes(u, Ascending(D), Ascending(R))
  BY <1>1, <1>2, <1>3, <1>4, StackBecomes
<1> QED
  BY <1>1, <1>3, <1>5 DEF Stacks!Forget

(* Undo and redo of every user are a stack of operations, although they    *)
(* are computed from one log of all users of which only the latest entries *)
(* are read (undo_last and redo_last).                                     *)
THEOREM UndoImplementsAStack == Spec => UndoIsAStack
<1>1. Init => Stacks!Init
  BY StacksAtFirst, NothingAscends DEF Stacks!Init
<1>2. ASSUME StackInv, [Next]_vars PROVE [Stacks!Next]_(Stacks!vars)
  <2>1. CASE log' = log
    <3>1. \A u \in Users : Undoable(u)' = Undoable(u) /\ Redoable(u)' = Redoable(u)
      BY <2>1, NothingIsStacked
    <3> QED
      BY <3>1 DEF Stacks!vars
  <2>2. ASSUME NEW e, log' = Append(log, e),
               IsOperation(e) \/ IsUndo(e) \/ IsRedo(e) \/ IsOther(e)
        PROVE  Stacks!Next
    <3>1. PICK u \in Users : u = e.actor
      BY <2>2 DEF IsOperation, IsUndo, IsRedo, IsOther
    <3> QED
      BY <1>2, <2>2, <3>1, OperationIsDone, UndoIsUndone, RedoIsRedone, OtherIsForgetting
         DEF Stacks!Next
  <2> QED
    BY <1>2, <2>1, <2>2, StepIsStacked
<1> QED
  BY <1>1, <1>2, OrderHolds, PTL DEF Spec, UndoIsAStack, Stacks!Spec
=============================================================================
