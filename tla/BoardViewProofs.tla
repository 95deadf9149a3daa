-------------------------- MODULE BoardViewProofs ---------------------------
(***************************************************************************)
(* What is proved of the boards of a PRD and of the pages that show them.  *)
(*                                                                         *)
(* BoardVersions, for any users, keys and numbers of boards: its types,    *)
(* the order of the boards, and that only the latest one of a PRD in       *)
(* progress is edited.                                                     *)
(*                                                                         *)
(* BoardPolling, for any notes, limits and numbers of changes: its types,  *)
(* and that a page misses no change but those it is said to pass by.       *)
(***************************************************************************)
EXTENDS BoardVersions, BoardPolling, FiniteSetTheorems, SequenceTheorems,
        WellFoundedInduction, TLAPS
-----------------------------------------------------------------------------
(***************************************************************************)
(* The boards of a PRD.                                                    *)
(***************************************************************************)
(* A page sends every board once.                                          *)
OrdersRepeatNothing ==
    \A u \in Users : request[u].op = "reorder" => IsInjective(request[u].order)

(* The inductive invariant.                                                *)
VersionsInv == TypeOK /\ OrderIsExact /\ OrdersRepeatNothing
-----------------------------------------------------------------------------
(* Numbers.                                                                *)

LEMMA ActiveIsFinite ==
  ASSUME TypeOK
  PROVE  /\ IsFiniteSet(Active) /\ Cardinality(Active) \in 0..MaxBoards
         /\ Cardinality(Active) = 0 <=> Active = {}
         /\ Active \subseteq Existing /\ Existing \subseteq Boards
         /\ Cardinality(Existing) \in 0..MaxBoards
<1>1. IsFiniteSet(Boards) /\ Cardinality(Boards) = MaxBoards
  BY FS_Interval, MaxBoardsAssumption DEF Boards
<1>2. Active \in SUBSET Boards /\ Existing \in SUBSET Boards /\ Active \subseteq Existing
  BY DEF Active, Existing
<1>3. IsFiniteSet(Active) /\ Cardinality(Active) <= MaxBoards
  BY <1>1, <1>2, FS_Subset
<1>4. IsFiniteSet(Existing) /\ Cardinality(Existing) <= MaxBoards
  BY <1>1, <1>2, FS_Subset
<1>5. Cardinality(Active) \in Nat /\ Cardinality(Existing) \in Nat
  BY <1>3, <1>4, FS_CardinalityType
<1> QED
  BY <1>2, <1>3, <1>4, <1>5, FS_EmptySet, MaxBoardsAssumption

(* Rows whose orders are 0, ..., n - 1, each taken once, are n rows.       *)
LEMMA CountIs ==
  ASSUME NEW S, NEW f, NEW first \in Int, NEW n \in Nat,
         f \in [S -> first..(first + n - 1)],
         \A c, d \in S : f[c] = f[d] => c = d,
         \A i \in first..(first + n - 1) : \E c \in S : f[c] = i
  PROVE  Cardinality(S) = n
<1> DEFINE T == first..(first + n - 1)
<1>1. IsFiniteSet(T) /\ Cardinality(T) = n
  <2>1. first + n - 1 \in Int
    OBVIOUS
  <2>2. IsFiniteSet(T) /\ Cardinality(T) =
          IF first > first + n - 1 THEN 0 ELSE first + n - 1 - first + 1
    BY <2>1, FS_Interval
  <2> QED
    BY <2>2
<1>2. f \in Injection(S, T)
  BY DEF Injection, IsInjective
<1>3. f \in Surjection(S, T)
  BY DEF Surjection
<1> HIDE DEF T
<1> QED
  BY <1>1, <1>2, <1>3, FS_Injection

(* The order of each active board is its own.                              *)
LEMMA OrderIsOwn ==
  ASSUME TypeOK, OrderIsExact
  PROVE  /\ \A b \in Active : board[b].order \in 0..(Cardinality(Active) - 1)
         /\ \A i \in 0..(Cardinality(Active) - 1) : \E b \in Active : board[b].order = i
         /\ \A b, c \in Active : board[b].order = board[c].order => b = c
<1> DEFINE n == Cardinality(Active)
           f == [b \in Active |-> board[b].order]
           T == 0..(n - 1)
<1>1. IsFiniteSet(Active) /\ n \in Nat
  BY ActiveIsFinite
<1>2. f \in [Active -> T] /\ \A i \in T : \E b \in Active : f[b] = i
  BY DEF OrderIsExact
<1>3. f \in Surjection(Active, T)
  BY <1>2 DEF Surjection
<1>4. Cardinality(T) = n
  <2>1. n - 1 \in Int /\ 0 \in Int
    BY <1>1
  <2>2. Cardinality(0..(n - 1)) = IF 0 > n - 1 THEN 0 ELSE n - 1 - 0 + 1
    BY <2>1, FS_Interval
  <2> QED
    BY <1>1, <2>2
<1> HIDE DEF f, T
<1>5. f \in Injection(Active, T)
  BY <1>1, <1>3, <1>4, FS_SurjSameCardinalityImpliesInj
<1>6. \A b, c \in Active : f[b] = f[c] => b = c
  BY <1>5 DEF Injection, IsInjective
<1> QED
  BY <1>2, <1>6 DEF f, T
-----------------------------------------------------------------------------
(* Steps that leave the boards alone, and the end of a request.            *)

LEMMA NoRequestIsTyped == Nothing \in Request /\ Nothing.op = "none"
  BY DEF Nothing, Request

LEMMA Unwritten ==
  ASSUME VersionsInv, prd' \in PrdRow,
         UNCHANGED board, request' \in [Users -> Request], OrdersRepeatNothing'
  PROVE  VersionsInv'
<1>1. TypeOK'
  BY DEF VersionsInv, TypeOK, Existing
<1> QED
  BY <1>1 DEF VersionsInv, OrderIsExact, Active

LEMMA RequestEnds ==
  ASSUME VersionsInv, NEW u \in Users,
         request' = [request EXCEPT ![u] = Nothing]
  PROVE  request' \in [Users -> Request] /\ OrdersRepeatNothing'
  BY NoRequestIsTyped DEF VersionsInv, TypeOK, OrdersRepeatNothing

(* The rows a step leaves; they have to be shown right.                    *)
Leaves(rows) ==
    /\ board' = rows
    /\ prd' \in PrdRow /\ request' \in [Users -> Request] /\ OrdersRepeatNothing'

LEMMA RunLeaves ==
  ASSUME VersionsInv, NEW u \in Users, NEW op, NEW rows, Runs(u, op, rows)
  PROVE  Leaves(rows)
<1>1. request' \in [Users -> Request] /\ OrdersRepeatNothing'
  BY RequestEnds DEF Runs
<1> QED
  BY <1>1 DEF VersionsInv, TypeOK, Runs, Leaves

LEMMA Written ==
  ASSUME VersionsInv, NEW rows, Leaves(rows),
         rows \in [Boards -> BoardRow],
         Existing' = 1..Cardinality(Existing'),
         \A b, c \in Existing' : rows[b].key = rows[c].key => b = c,
         OrderIsExact'
  PROVE  VersionsInv'
<1>1. TypeOK'
  BY DEF TypeOK, Leaves
<1> QED
  BY <1>1 DEF VersionsInv, Leaves

(* The same when no board is new: each row keeps its key and stays.        *)
LEMMA Rewritten ==
  ASSUME VersionsInv, NEW rows, Leaves(rows),
         rows \in [Boards -> BoardRow],
         \A b \in Boards : rows[b].key = board[b].key
                           /\ (rows[b].status = "absent" <=> board[b].status = "absent"),
         OrderIsExact'
  PROVE  VersionsInv'
<1>1. Existing' = Existing
  BY DEF Existing, Leaves
<1>2. TypeOK /\ Existing \subseteq Boards
  BY DEF VersionsInv, Existing
<1>3. Existing' = 1..Cardinality(Existing')
  BY <1>1, <1>2 DEF TypeOK
<1>4. \A b, c \in Existing' : rows[b].key = rows[c].key => b = c
  BY <1>1, <1>2 DEF TypeOK
<1> QED
  BY <1>3, <1>4, Written
-----------------------------------------------------------------------------
LEMMA InvariantAtFirst == Init => VersionsInv
<1> SUFFICES ASSUME Init PROVE VersionsInv
  OBVIOUS
<1>1. Existing = {} /\ Active = {}
  BY DEF Init, Existing, Active, NoBoard
<1>2. Cardinality({}) = 0
  BY FS_EmptySet
<1>3. OrderIsExact
  BY <1>1, <1>2 DEF OrderIsExact
<1>4. NoBoard \in BoardRow
  BY MaxBoardsAssumption, MaxEditsAssumption, MaxReturnsAssumption DEF NoBoard, BoardRow
<1>5. Existing = 1..Cardinality(Existing)
  BY <1>1, <1>2
<1>6. TypeOK
  BY <1>1, <1>4, <1>5, NoRequestIsTyped, MaxReturnsAssumption DEF Init, TypeOK, PrdRow
<1>7. OrdersRepeatNothing
  BY NoRequestIsTyped DEF Init, OrdersRepeatNothing
<1> QED
  BY <1>3, <1>6, <1>7 DEF VersionsInv

(* What a page sends.                                                      *)
LEMMA AdmitKeeps ==
  ASSUME VersionsInv, NEW u \in Users, NEW r \in Request, Admit(u, r),
         r.op = "reorder" => IsInjective(r.order)
  PROVE  VersionsInv'
<1>1. request' \in [Users -> Request]
  BY DEF VersionsInv, TypeOK, Admit
<1>2. OrdersRepeatNothing'
  BY DEF VersionsInv, TypeOK, OrdersRepeatNothing, Admit
<1>3. prd' \in PrdRow /\ UNCHANGED board
  BY DEF VersionsInv, TypeOK, Admit
<1> QED
  BY <1>1, <1>2, <1>3, Unwritten

LEMMA OrdersAreSequences ==
  ASSUME TypeOK, NEW s \in SetToSeqs(Active)
  PROVE  s \in BoundedSeq(Boards, MaxBoards) /\ IsInjective(s)
<1> DEFINE n == Cardinality(Active)
<1>1. n \in 0..MaxBoards /\ Active \subseteq Boards
  BY ActiveIsFinite
<1>2. s \in [1..n -> Active] /\ \A i, j \in 1..n : i # j => s[i] # s[j]
  BY DEF SetToSeqs
<1> HIDE DEF n
<1>3. s \in [1..n -> Boards]
  BY <1>1, <1>2
<1>4. s \in BoundedSeq(Boards, MaxBoards)
  BY <1>1, <1>3 DEF BoundedSeq, SeqOf
<1> QED
  BY <1>2, <1>4 DEF IsInjective

LEMMA AdmitRequestKeeps ==
  ASSUME VersionsInv, NEW u \in Users, AdmitRequest(u)
  PROVE  VersionsInv'
<1>1. TypeOK /\ Active \subseteq Boards
  BY DEF VersionsInv, Active
<1>2. ASSUME NEW k \in Keys, Admit(u, [op |-> "first", key |-> k])
      PROVE  VersionsInv'
  <2>1. [op |-> "first", key |-> k] \in Request
    BY DEF Request
  <2> QED
    BY <1>2, <2>1, AdmitKeeps
<1>3. ASSUME NEW b \in Active, NEW k \in Keys, Admit(u, [op |-> "create", source |-> b, key |-> k])
      PROVE  VersionsInv'
  <2>1. [op |-> "create", source |-> b, key |-> k] \in Request
    BY <1>1 DEF Request
  <2> QED
    BY <1>3, <2>1, AdmitKeeps
<1>4. ASSUME NEW b \in Active, NEW op \in {"delete", "edit"}, Admit(u, [op |-> op, board |-> b])
      PROVE  VersionsInv'
  <2>1. [op |-> op, board |-> b] \in Request
    BY <1>1 DEF Request
  <2> QED
    BY <1>4, <2>1, AdmitKeeps
<1>5. ASSUME NEW s \in SetToSeqs(Active), Admit(u, [op |-> "reorder", order |-> s])
      PROVE  VersionsInv'
  <2>1. [op |-> "reorder", order |-> s] \in Request /\ IsInjective(s)
    BY <1>1, OrdersAreSequences DEF Request
  <2> QED
    BY <1>5, <2>1, AdmitKeeps
<1> QED
  BY <1>2, <1>3, <1>4, <1>5 DEF AdmitRequest

LEMMA OthersKeep ==
  ASSUME VersionsInv, PrdChanges \/ \E u \in Users : Refuse(u)
  PROVE  VersionsInv'
<1>1. CASE PrdChanges
  <2>1. prd \in PrdRow /\ MaxDue \in Nat
    BY MaxReturnsAssumption DEF VersionsInv, TypeOK
  <2>2. /\ UNCHANGED <<board, request>>
        /\ \/ prd.due < MaxDue /\ prd' = [prd EXCEPT !.completed = TRUE, !.due = @ + 1]
           \/ prd' = [prd EXCEPT !.completed = FALSE]
           \/ \E t \in BOOLEAN : prd' = [prd EXCEPT !.trashed = t]
    BY <1>1 DEF PrdChanges
  <2>3. prd' \in PrdRow
    <3>1. prd.due \in 0..MaxDue /\ prd.due < MaxDue => prd.due + 1 \in 0..MaxDue
      BY <2>1
    <3>2. \A c \in BOOLEAN, d \in 0..MaxDue :
             [prd EXCEPT !.completed = c, !.due = d] \in PrdRow
      BY <2>1 DEF PrdRow
    <3>3. prd.due \in 0..MaxDue
      BY <2>1 DEF PrdRow
    <3>4. \A c \in BOOLEAN :
            [prd EXCEPT !.completed = c] \in PrdRow /\ [prd EXCEPT !.trashed = c] \in PrdRow
      BY <2>1 DEF PrdRow
    <3>5. ASSUME prd.due < MaxDue, prd' = [prd EXCEPT !.completed = TRUE, !.due = @ + 1]
          PROVE  prd' \in PrdRow
      <4>1. PICK d \in 0..MaxDue : d = prd.due + 1
        BY <3>1, <3>5, <3>3
      <4>2. prd' = [prd EXCEPT !.completed = TRUE, !.due = d]
        BY <3>5, <4>1
      <4>3. [prd EXCEPT !.completed = TRUE, !.due = d] \in PrdRow
        BY <3>2
      <4> QED
        BY <4>2, <4>3
    <3> QED
      BY <2>2, <3>4, <3>5
  <2>4. request' \in [Users -> Request] /\ OrdersRepeatNothing'
    BY <2>2 DEF VersionsInv, TypeOK, OrdersRepeatNothing
  <2> QED
    BY <2>2, <2>3, <2>4, Unwritten
<1>2. ASSUME NEW u \in Users, Refuse(u) PROVE VersionsInv'
  BY <1>2, Unwritten, RequestEnds DEF Refuse, VersionsInv, TypeOK
<1> QED
  BY <1>1, <1>2
-----------------------------------------------------------------------------
(* What runs.                                                              *)

LEMMA CreateFirstKeeps ==
  ASSUME VersionsInv, NEW u \in Users, CreateFirst(u)
  PROVE  VersionsInv'
<1> DEFINE row == [status |-> "active", order |-> 0, key |-> request[u].key,
                   edits |-> 0, returns |-> 0]
           rows == [board EXCEPT ![1] = row]
<1>1. TypeOK /\ request[u] \in Request /\ request[u].op = "first" /\ 1 \in Boards
  BY MaxBoardsAssumption DEF VersionsInv, TypeOK, CreateFirst, Boards
<1>2. request[u].key \in Keys
  BY <1>1 DEF Request
<1>3. row \in BoardRow /\ row.status = "active" /\ row.order = 0
  BY <1>2, MaxBoardsAssumption, MaxEditsAssumption, MaxReturnsAssumption DEF BoardRow
<1>4. Existing = {}
  <2>1. Cardinality(Existing) \in Nat /\ 1 \notin Existing
    BY <1>1, ActiveIsFinite DEF Existing, CreateFirst
  <2> QED
    BY <1>1, <2>1 DEF TypeOK
<1>5. Runs(u, "first", rows)
  BY DEF CreateFirst
<1> HIDE DEF row
<1>6. rows \in [Boards -> BoardRow] /\ rows[1] = row
        /\ \A b \in Boards \ {1} : rows[b].status = "absent"
  BY <1>1, <1>3, <1>4 DEF TypeOK, Existing
<1> HIDE DEF rows
<1>7. Existing' = {1} /\ Active' = {1}
  BY <1>1, <1>3, <1>5, <1>6 DEF Existing, Active, Runs
<1>8. Cardinality({1}) = 1
  BY FS_Singleton
<1>9. Existing' = 1..Cardinality(Existing')
  BY <1>7, <1>8
<1>10. OrderIsExact'
  <2>1. board'[1].order = 0
    BY <1>3, <1>5, <1>6 DEF Runs
  <2> QED
    BY <1>7, <1>8, <2>1 DEF OrderIsExact
<1> QED
  BY <1>5, <1>6, <1>7, <1>9, <1>10, RunLeaves, Written

LEMMA CreateVersionKeeps ==
  ASSUME VersionsInv, NEW u \in Users, CreateVersion(u)
  PROVE  VersionsInv'
<1> DEFINE r == request[u]
           k == Cardinality(Existing)
           n == Cardinality(Active)
           new == k + 1
           row == [status |-> "active", order |-> 0, key |-> r.key,
                   edits |-> board[r.source].edits, returns |-> board[r.source].returns]
           rows == [b \in Boards |-> IF b = new THEN row
                    ELSE IF b \in Active THEN [board[b] EXCEPT !.order = @ + 1] ELSE board[b]]
<1>1. TypeOK /\ OrderIsExact /\ r \in Request /\ r.op = "create" /\ KeyIsFree(r.key)
        /\ r.source \in Active /\ new \in Boards /\ Runs(u, "create", rows)
  BY DEF VersionsInv, TypeOK, CreateVersion
<1>2. /\ IsFiniteSet(Active) /\ n \in 0..MaxBoards /\ k \in 0..MaxBoards
      /\ Active \subseteq Existing /\ Existing \subseteq Boards /\ Existing = 1..k
  BY <1>1, ActiveIsFinite DEF TypeOK
<1>3. r.key \in Keys
  BY <1>1 DEF Request
<1>4. row \in BoardRow /\ row.status = "active" /\ row.order = 0 /\ row.key = r.key
  <2>1. board[r.source] \in BoardRow
    BY <1>1, <1>2 DEF TypeOK
  <2> QED
    BY <1>3, <2>1, MaxBoardsAssumption DEF BoardRow
<1>5. new \notin Existing /\ new \notin Active /\ n <= k
  <2>1. new \notin 1..k
    BY <1>2
  <2>2. IsFiniteSet(Existing)
    BY <1>2, FS_Interval
  <2>3. n <= k
    BY <1>2, <2>2, FS_Subset
  <2> QED
    BY <1>2, <2>1, <2>3
<1>6. \A b \in Active : board[b].order \in 0..(n - 1) /\ board[b] \in BoardRow
  BY <1>1, <1>2, OrderIsOwn DEF TypeOK
<1>7. ASSUME NEW b \in Active
      PROVE  /\ [board[b] EXCEPT !.order = @ + 1] \in BoardRow
             /\ [board[b] EXCEPT !.order = @ + 1].order = board[b].order + 1
             /\ [board[b] EXCEPT !.order = @ + 1].status = board[b].status
             /\ [board[b] EXCEPT !.order = @ + 1].key = board[b].key
  <2>1. board[b].order + 1 \in 0..MaxBoards
    BY <1>2, <1>6, MaxBoardsAssumption
  <2> QED
    BY <1>6, <2>1 DEF BoardRow
<1> HIDE DEF row
<1>8. /\ rows \in [Boards -> BoardRow]
      /\ rows[new] = row
      /\ \A b \in Active : rows[b].order = board[b].order + 1 /\ rows[b].status = board[b].status
                           /\ rows[b].key = board[b].key
      /\ \A b \in Boards \ (Active \cup {new}) : rows[b] = board[b]
  BY <1>1, <1>2, <1>4, <1>5, <1>7 DEF TypeOK
<1> HIDE DEF rows
<1>9. board' = rows
  BY <1>1 DEF Runs
<1>10. Existing' = Existing \cup {new} /\ Active' = Active \cup {new}
  <2>1. \A b \in Boards : b # new => rows[b].status = board[b].status
    BY <1>8
  <2>2. rows[new].status = "active" /\ new \in Boards
    BY <1>1, <1>4, <1>8
  <2> HIDE DEF new
  <2>3. Existing' = Existing \cup {new}
    BY <1>9, <2>1, <2>2 DEF Existing
  <2>4. Active' = Active \cup {new}
    BY <1>9, <2>1, <2>2 DEF Active
  <2> QED
    BY <2>3, <2>4
<1>11. Existing' = 1..Cardinality(Existing')
  <2>1. Existing' = 1..new
    BY <1>2, <1>10
  <2>2. Cardinality(1..new) = new
    BY <1>2, FS_Interval
  <2> QED
    BY <2>1, <2>2
<1>12. \A b, c \in Existing' : rows[b].key = rows[c].key => b = c
  <2>1. \A b \in Existing : rows[b].key = board[b].key
    BY <1>2, <1>5, <1>8
  <2>2. \A b \in Existing : board[b].key # r.key
    BY <1>1 DEF KeyIsFree
  <2> QED
    BY <1>1, <1>4, <1>8, <1>10, <2>1, <2>2 DEF TypeOK
<1>13. OrderIsExact'
  <2>1. Cardinality(Active') = n + 1
    BY <1>2, <1>5, <1>10, FS_AddElement
  <2>2. \A b \in Active' : board'[b].order \in 0..n
    BY <1>2, <1>4, <1>6, <1>8, <1>9, <1>10
  <2>3. ASSUME NEW i \in 0..n PROVE \E b \in Active' : board'[b].order = i
    <3>1. CASE i = 0
      BY <1>4, <1>8, <1>9, <1>10, <3>1
    <3>2. CASE i # 0
      <4>1. i - 1 \in 0..(n - 1)
        BY <1>2, <3>2
      <4>2. PICK b \in Active : board[b].order = i - 1
        BY <1>1, <4>1, OrderIsOwn
      <4> QED
        BY <1>8, <1>9, <1>10, <4>2
    <3> QED
      BY <3>1, <3>2
  <2>4. {board'[b].order : b \in Active'} = 0..n
    BY <2>2, <2>3
  <2>5. Cardinality(Active') - 1 = n
    BY <1>2, <2>1
  <2> QED
    BY <2>4, <2>5 DEF OrderIsExact
<1> QED
  BY <1>1, <1>8, <1>11, <1>12, <1>13, RunLeaves, Written

LEMMA ReorderKeeps ==
  ASSUME VersionsInv, NEW u \in Users, ReorderVersions(u)
  PROVE  VersionsInv'
<1> DEFINE s == request[u].order
           n == Cardinality(Active)
           RowAt(b) == CHOOSE i \in DOMAIN s : s[i] = b
           rows == Renumbered(s)
<1>1. TypeOK /\ request[u] \in Request /\ request[u].op = "reorder" /\ IsInjective(s)
        /\ ToSet(s) = Active /\ Runs(u, "reorder", rows)
  BY DEF VersionsInv, TypeOK, OrdersRepeatNothing, ReorderVersions
<1>2. IsFiniteSet(Active) /\ n \in 0..MaxBoards /\ Active \subseteq Boards
  BY <1>1, ActiveIsFinite
<1>3. PICK m \in 0..MaxBoards : s \in [1..m -> Boards]
  <2>1. s \in BoundedSeq(Boards, MaxBoards)
    BY <1>1 DEF Request
  <2> QED
    BY <2>1 DEF BoundedSeq, SeqOf
<1> HIDE DEF s
<1>4. s \in [1..m -> Active] /\ \A b \in Active : \E i \in 1..m : s[i] = b
  BY <1>1, <1>3 DEF ToSet
<1>5. n = m
  <2>1. s \in Surjection(1..m, Active) /\ s \in Injection(1..m, Active)
    BY <1>1, <1>4 DEF Surjection, Injection
  <2>2. IsFiniteSet(1..m) /\ Cardinality(1..m) = m
    BY FS_Interval
  <2> QED
    BY <2>1, <2>2, FS_Surjection
<1>6. \A b \in Active : RowAt(b) \in 1..n /\ s[RowAt(b)] = b
  BY <1>4, <1>5
<1>7. \A i \in 1..n : RowAt(s[i]) = i
  BY <1>1, <1>4, <1>5, <1>6 DEF IsInjective
<1> HIDE DEF RowAt
<1>8. /\ \A b \in Active : rows[b] = [board[b] EXCEPT !.order = RowAt(b) - 1]
      /\ \A b \in Boards \ Active : rows[b] = board[b]
      /\ rows = [b \in Boards |-> rows[b]]
  BY <1>1, <1>2 DEF Renumbered, RowAt
<1> HIDE DEF rows
<1>9. ASSUME NEW b \in Active
      PROVE  /\ rows[b] \in BoardRow /\ rows[b].order = RowAt(b) - 1
             /\ rows[b].status = board[b].status /\ rows[b].key = board[b].key
  <2>1. RowAt(b) - 1 \in 0..MaxBoards
    BY <1>2, <1>6, MaxBoardsAssumption
  <2>2. board[b] \in BoardRow
    BY <1>1, <1>2 DEF TypeOK
  <2> QED
    BY <1>8, <2>1, <2>2 DEF BoardRow
<1>10. rows \in [Boards -> BoardRow]
  BY <1>1, <1>8, <1>9 DEF TypeOK
<1>11. board' = rows /\ Active' = Active
  BY <1>1, <1>2, <1>8, <1>9 DEF Runs, Active
<1>12. OrderIsExact'
  <2>1. \A b \in Active : board'[b].order \in 0..(n - 1)
    BY <1>2, <1>6, <1>9, <1>11
  <2>2. ASSUME NEW i \in 0..(n - 1) PROVE \E b \in Active : board'[b].order = i
    <3>1. i + 1 \in 1..n
      BY <1>2
    <3>2. s[i + 1] \in Active /\ RowAt(s[i + 1]) = i + 1
      BY <1>4, <1>5, <1>7, <3>1
    <3> QED
      BY <1>9, <1>11, <3>1, <3>2
  <2> QED
    BY <1>11, <2>1, <2>2 DEF OrderIsExact
<1>13. \A b \in Boards : rows[b].key = board[b].key
          /\ (rows[b].status = "absent" <=> board[b].status = "absent")
  BY <1>8, <1>9
<1> QED
  BY <1>1, <1>10, <1>12, <1>13, RunLeaves, Rewritten

(* The boards that are left when b goes, counted before c.                 *)
Before(b, c) == {d \in Active \ {b, c} : IsBefore(d, c)}

LEMMA BeforeIsCounted ==
  ASSUME TypeOK, OrderIsExact, NEW b, IsLatest(b), NEW c \in Active \ {b}
  PROVE  Cardinality(Before(b, c)) = board[c].order - 1 /\ board[c].order > 0
<1> DEFINE n == Cardinality(Active)
<1>1. /\ \A d \in Active : board[d].order \in 0..(n - 1)
      /\ \A i \in 0..(n - 1) : \E d \in Active : board[d].order = i
      /\ \A d, e \in Active : board[d].order = board[e].order => d = e
  BY OrderIsOwn
<1>2. n \in Nat /\ b \in Active /\ n > 0
  BY ActiveIsFinite DEF IsLatest
<1> HIDE DEF n
<1>3. board[b].order = 0
  <2>1. PICK a \in Active : board[a].order = 0
    BY <1>1, <1>2
  <2>2. a # b => board[b].order < board[a].order
    BY <1>1, <2>1 DEF IsLatest, IsBefore
  <2> QED
    BY <1>1, <1>2, <2>1, <2>2
<1>4. board[c].order \in 0..(n - 1) /\ board[c].order # 0
  BY <1>1, <1>2, <1>3
<1> DEFINE o == board[c].order
           S == Before(b, c)
           f == [d \in S |-> board[d].order]
<1>5. o - 1 \in Nat
  BY <1>2, <1>4
<1>6. \A d \in S : d \in Active /\ board[d].order \in 1..(o - 1)
  <2>1. ASSUME NEW d \in S PROVE d \in Active /\ board[d].order \in 1..(o - 1)
    <3>1. d \in Active /\ d # b /\ d # c /\ IsBefore(d, c)
      BY DEF Before
    <3>2. board[d].order \in 0..(n - 1) /\ board[d].order # 0 /\ board[d].order # o
      BY <1>1, <1>2, <1>3, <3>1
    <3> QED
      BY <1>2, <1>4, <3>1, <3>2 DEF IsBefore
  <2> QED
    BY <2>1
<1>7. \A i \in 1..(o - 1) : \E d \in S : board[d].order = i
  <2>1. ASSUME NEW i \in 1..(o - 1) PROVE \E d \in S : board[d].order = i
    <3>1. i \in 0..(n - 1) /\ i < o /\ i # 0
      BY <1>2, <1>4
    <3>2. PICK d \in Active : board[d].order = i
      BY <1>1, <3>1
    <3>3. d # b /\ d # c /\ IsBefore(d, c)
      BY <1>3, <3>1, <3>2 DEF IsBefore
    <3> QED
      BY <3>2, <3>3 DEF Before
  <2> QED
    BY <2>1
<1>8. 1 + (o - 1) - 1 = o - 1
  BY <1>5
<1> HIDE DEF o, S
<1>9. f \in [S -> 1..(1 + (o - 1) - 1)]
  BY <1>6, <1>8
<1>10. \A d, e \in S : f[d] = f[e] => d = e
  BY <1>1, <1>6
<1>11. \A i \in 1..(1 + (o - 1) - 1) : \E d \in S : f[d] = i
  BY <1>7, <1>8
<1>12. Cardinality(S) = o - 1
  <2> DEFINE k == o - 1
  <2>1. k \in Nat /\ f \in [S -> 1..(1 + k - 1)]
          /\ \A i \in 1..(1 + k - 1) : \E d \in S : f[d] = i
    BY <1>5, <1>9, <1>11
  <2> HIDE DEF f, k
  <2>2. Cardinality(S) = k
    BY <1>10, <2>1, CountIs
  <2> QED
    BY <2>2 DEF k
<1> QED
  BY <1>4, <1>2, <1>12 DEF o, S

LEMMA DeleteKeeps ==
  ASSUME VersionsInv, NEW u \in Users, DeleteLatestVersion(u)
  PROVE  VersionsInv'
<1> DEFINE b == request[u].board
           n == Cardinality(Active)
           left == [c \in Boards |-> IF c \in Active \ {b}
                      THEN [board[c] EXCEPT !.order = Cardinality(Before(b, c))]
                      ELSE board[c]]
           rows == [left EXCEPT ![b].status = "deleted"]
<1>1. TypeOK /\ OrderIsExact /\ IsLatest(b) /\ b \in Active /\ Runs(u, "delete", rows)
  BY DEF VersionsInv, DeleteLatestVersion, IsLatest, Before
<1>2. IsFiniteSet(Active) /\ n \in 0..MaxBoards /\ Active \subseteq Boards
  BY <1>1, ActiveIsFinite
<1> HIDE DEF b
<1>3. \A c \in Active : board[c] \in BoardRow /\ board[c].order \in 0..(n - 1)
  BY <1>1, <1>2, OrderIsOwn DEF TypeOK
<1>4. ASSUME NEW c \in Active \ {b}
      PROVE  /\ rows[c] \in BoardRow /\ rows[c].order = board[c].order - 1
             /\ rows[c].status = "active" /\ rows[c].key = board[c].key
             /\ board[c].order > 0
  <2>1. Cardinality(Before(b, c)) = board[c].order - 1 /\ board[c].order > 0
    BY <1>1, BeforeIsCounted
  <2>2. board[c].order - 1 \in 0..MaxBoards
    BY <1>2, <1>3, <2>1, MaxBoardsAssumption
  <2>3. rows[c] = [board[c] EXCEPT !.order = board[c].order - 1]
    BY <1>1, <1>2, <2>1
  <2>4. board[c].status = "active"
    BY DEF Active
  <2> HIDE DEF rows
  <2> QED
    BY <1>3, <2>1, <2>2, <2>3, <2>4 DEF BoardRow
<1>5. rows[b] = [board[b] EXCEPT !.status = "deleted"]
  BY <1>1, <1>2
<1>6. \A c \in Boards \ Active : rows[c] = board[c]
  BY <1>1
<1>7. rows = [c \in Boards |-> rows[c]]
  OBVIOUS
<1> HIDE DEF rows
<1>8. rows[b] \in BoardRow /\ rows[b].status = "deleted" /\ rows[b].key = board[b].key
  BY <1>1, <1>3, <1>5 DEF BoardRow
<1>9. rows \in [Boards -> BoardRow]
  BY <1>1, <1>4, <1>6, <1>7, <1>8 DEF TypeOK
<1>10. board' = rows
  BY <1>1 DEF Runs
<1>11. Active' = Active \ {b}
  <2>1. \A c \in Boards : rows[c].status = "active" <=> c \in Active \ {b}
    BY <1>4, <1>6, <1>8 DEF Active
  <2> QED
    BY <1>2, <1>10, <2>1 DEF Active
<1>12. OrderIsExact'
  <2>1. Cardinality(Active') = n - 1
    BY <1>1, <1>2, <1>11, FS_RemoveElement
  <2>2. \A c \in Active' : board'[c].order \in 0..(n - 2)
    BY <1>2, <1>3, <1>4, <1>10, <1>11
  <2>3. ASSUME NEW i \in 0..(n - 2) PROVE \E c \in Active' : board'[c].order = i
    <3>1. i + 1 \in 0..(n - 1)
      BY <1>2
    <3>2. PICK c \in Active : board[c].order = i + 1
      BY <1>1, <3>1, OrderIsOwn
    <3>3. c # b
      <4>1. PICK d \in Active : board[d].order = 0
        BY <1>1, <1>2, <3>1, OrderIsOwn
      <4>2. d = b
        BY <1>4, <4>1
      <4> QED
        BY <3>2, <4>1, <4>2
    <3> QED
      BY <1>4, <1>10, <1>11, <3>2, <3>3
  <2>4. {board'[c].order : c \in Active'} = 0..(n - 2)
    BY <2>2, <2>3
  <2>5. Cardinality(Active') - 1 = n - 2
    BY <1>2, <2>1
  <2> QED
    BY <2>4, <2>5 DEF OrderIsExact
<1>13. \A c \in Boards : rows[c].key = board[c].key
          /\ (rows[c].status = "absent" <=> board[c].status = "absent")
  BY <1>1, <1>4, <1>6, <1>8 DEF Active
<1> QED
  BY <1>1, <1>9, <1>12, <1>13, RunLeaves, Rewritten

LEMMA EditKeeps ==
  ASSUME VersionsInv, NEW u \in Users, Edit(u)
  PROVE  VersionsInv'
<1> DEFINE b == request[u].board
           rows == [board EXCEPT ![b].edits = @ + 1]
<1>1. TypeOK /\ OrderIsExact /\ b \in Active /\ b \in Boards /\ Runs(u, "edit", rows)
        /\ board[b].edits < MaxEdits
  BY DEF VersionsInv, Edit, IsLatest, Active
<1> HIDE DEF b
<1>2. board[b] \in BoardRow /\ board[b].edits + 1 \in 0..MaxEdits
  <2>1. board[b] \in BoardRow
    BY <1>1 DEF TypeOK
  <2> QED
    BY <1>1, <2>1, MaxEditsAssumption DEF BoardRow
<1>3. [board[b] EXCEPT !.edits = @ + 1] \in BoardRow
  BY <1>2 DEF BoardRow
<1>4. rows \in [Boards -> BoardRow] /\ \A c \in Boards : rows[c].key = board[c].key
        /\ rows[c].status = board[c].status /\ rows[c].order = board[c].order
  BY <1>1, <1>2, <1>3 DEF TypeOK
<1> HIDE DEF rows
<1>5. board' = rows /\ Active' = Active
  BY <1>1, <1>4 DEF Runs, Active
<1>6. OrderIsExact'
  <2>1. \A c \in Active : board'[c].order = board[c].order
    BY <1>4, <1>5 DEF Active
  <2> QED
    BY <1>1, <1>5, <2>1 DEF OrderIsExact
<1> QED
  BY <1>1, <1>4, <1>6, RunLeaves, Rewritten

LEMMA GiveBackKeeps ==
  ASSUME VersionsInv, RemoveParticipant \/ RestoreRemovedAssignees
  PROVE  VersionsInv'
<1>1. PICK S \in SUBSET Boards : GiveBack(S)
  BY DEF RemoveParticipant, RestoreRemovedAssignees, Existing, Active
<1>2. PICK rows : rows = [b \in Boards |->
                    IF b \in S THEN [board[b] EXCEPT !.returns = @ + 1] ELSE board[b]]
  OBVIOUS
<1>3. TypeOK /\ OrderIsExact /\ MaxDue \in Nat /\ MaxReturns \in Nat
  BY MaxReturnsAssumption DEF VersionsInv
<1>4. Leaves(rows)
  <2>1. prd \in PrdRow
    BY <1>3 DEF TypeOK
  <2>2. prd' \in PrdRow
    BY <1>3, <2>1 DEF PrdRow, RemoveParticipant, RestoreRemovedAssignees
  <2>3. request' = request /\ board' = rows
    BY <1>1, <1>2 DEF GiveBack
  <2> QED
    BY <2>2, <2>3 DEF Leaves, VersionsInv, TypeOK, OrdersRepeatNothing
<1>5. ASSUME NEW b \in Boards
      PROVE  /\ rows[b] \in BoardRow /\ rows[b].key = board[b].key
             /\ rows[b].status = board[b].status /\ rows[b].order = board[b].order
  <2>1. board[b] \in BoardRow
    BY <1>3 DEF TypeOK
  <2>2. CASE b \in S
    <3>1. board[b].returns + 1 \in 0..MaxReturns
      BY <1>1, <1>3, <2>1, <2>2 DEF GiveBack, BoardRow
    <3> QED
      BY <1>2, <2>1, <2>2, <3>1 DEF BoardRow
  <2>3. CASE b \notin S
    BY <1>2, <2>1, <2>3
  <2> QED
    BY <2>2, <2>3
<1>6. rows \in [Boards -> BoardRow]
  BY <1>2, <1>5
<1>7. Active' = Active
  BY <1>4, <1>5 DEF Leaves, Active
<1>8. OrderIsExact'
  <2>1. \A c \in Active : board'[c].order = board[c].order
    BY <1>4, <1>5 DEF Leaves, Active
  <2> QED
    BY <1>3, <1>7, <2>1 DEF OrderIsExact
<1> QED
  BY <1>4, <1>5, <1>6, <1>8, Rewritten
-----------------------------------------------------------------------------
LEMMA InvariantIsKept == VersionsInv /\ [Next]_vars => VersionsInv'
<1> SUFFICES ASSUME VersionsInv, [Next]_vars PROVE VersionsInv'
  OBVIOUS
<1>1. CASE PrdChanges \/ \E u \in Users : Refuse(u)
  BY <1>1, OthersKeep
<1>2. ASSUME NEW u \in Users, AdmitRequest(u) \/ CreateFirst(u) \/ ManageVersions(u) \/ Edit(u)
      PROVE  VersionsInv'
  <2>1. CASE AdmitRequest(u) \/ CreateFirst(u) \/ Edit(u)
    BY <2>1, AdmitRequestKeeps, CreateFirstKeeps, EditKeeps
  <2>2. CASE ManageVersions(u)
    BY <2>2, CreateVersionKeeps, ReorderKeeps, DeleteKeeps DEF ManageVersions
  <2> QED
    BY <1>2, <2>1, <2>2
<1>3. CASE RemoveParticipant \/ RestoreRemovedAssignees
  BY <1>3, GiveBackKeeps
<1>4. CASE UNCHANGED vars
  <2>1. UNCHANGED <<prd, board, request>>
    BY <1>4 DEF vars
  <2>2. /\ prd' \in PrdRow
        /\ request' \in [Users -> Request]
    BY <2>1 DEF VersionsInv, TypeOK
  <2>3. OrdersRepeatNothing'
    BY <2>1 DEF VersionsInv, OrdersRepeatNothing
  <2> QED
    BY <2>1, <2>2, <2>3, Unwritten
<1> QED
  BY <1>1, <1>2, <1>3, <1>4 DEF Next

LEMMA InvariantHolds == Spec => []VersionsInv
  BY InvariantAtFirst, InvariantIsKept, PTL DEF Spec

(* Numbers are given in a row, keys are used once (the constraints of      *)
(* brainstorm_canvases), and every order is one the boards can have.       *)
THEOREM VersionsTypes == Spec => []TypeOK
<1>1. VersionsInv => TypeOK
  BY DEF VersionsInv
<1> QED
  BY <1>1, InvariantHolds, PTL

(* No step takes the last board away.                                      *)
LEMMA ABoardStays ==
  ASSUME VersionsInv, [Next]_vars, Active # {}
  PROVE  Active' # {}
<1>1. CASE UNCHANGED board
  BY <1>1 DEF Active
<1>2. ASSUME NEW u \in Users, DeleteLatestVersion(u)
      PROVE  Active' # {}
  <2> DEFINE b == request[u].board
  <2>1. PICK c \in Active : c # b
    BY <1>2 DEF DeleteLatestVersion, IsLatest
  <2>2. c \in Boards /\ board[c].status = "active"
    BY DEF Active
  <2>3. board'[c].status = "active"
    BY <1>2, <2>1, <2>2 DEF DeleteLatestVersion, Runs, VersionsInv, TypeOK, BoardRow
  <2> QED
    BY <2>2, <2>3 DEF Active
<1>3. ASSUME NEW u \in Users, CreateFirst(u) \/ CreateVersion(u) \/ ReorderVersions(u) \/ Edit(u)
      PROVE  Active' # {}
  <2>1. PICK c \in Active : TRUE
    OBVIOUS
  <2>2. c \in Boards /\ board[c].status = "active" /\ board[c] \in BoardRow
          /\ board \in [Boards -> BoardRow]
    BY DEF Active, VersionsInv, TypeOK
  <2>3. CASE CreateFirst(u)
    <3>1. c # 1
      BY <2>2, <2>3 DEF CreateFirst
    <3>2. board'[c] = board[c]
      BY <2>2, <2>3, <3>1 DEF CreateFirst, Runs
    <3> QED
      BY <2>2, <3>2 DEF Active
  <2>4. CASE CreateVersion(u)
    <3>1. board'[c].status = "active"
      BY <2>1, <2>2, <2>4 DEF CreateVersion, Runs, BoardRow
    <3> QED
      BY <2>2, <3>1 DEF Active
  <2>5. CASE ReorderVersions(u)
    <3>1. board'[c].status = "active"
      BY <2>2, <2>5 DEF ReorderVersions, Runs, Renumbered, BoardRow
    <3> QED
      BY <2>2, <3>1 DEF Active
  <2>6. CASE Edit(u)
    <3>1. board'[c].status = "active"
      BY <2>2, <2>6 DEF Edit, Runs, BoardRow
    <3> QED
      BY <2>2, <3>1 DEF Active
  <2> QED
    BY <1>3, <2>3, <2>4, <2>5, <2>6
<1>4. ASSUME RemoveParticipant \/ RestoreRemovedAssignees
      PROVE  Active' # {}
  <2>1. PICK c \in Active : TRUE
    OBVIOUS
  <2>2. c \in Boards /\ board[c].status = "active" /\ board[c] \in BoardRow
    BY DEF Active, VersionsInv, TypeOK
  <2>3. PICK S : GiveBack(S)
    BY <1>4 DEF RemoveParticipant, RestoreRemovedAssignees
  <2>4. board'[c].status = "active"
    BY <2>2, <2>3 DEF GiveBack, BoardRow
  <2> QED
    BY <2>2, <2>4 DEF Active
<1> QED
  BY <1>1, <1>2, <1>3, <1>4 DEF Next, PrdChanges, AdmitRequest, Admit, Refuse, ManageVersions, vars

(* Whatever creations, reorderings and deletions overlap, the active       *)
(* boards are numbered without a gap, and one always remains               *)
(* (create_version, reorder_versions, delete_latest_version).              *)
THEOREM BoardsKeepTheirOrder == Spec => BoardsStayInOrder
<1>1. VersionsInv => OrderIsExact
  BY DEF VersionsInv
<1>2. VersionsInv /\ [Next]_vars => [Active # {} => Active' # {}]_vars
  BY ABoardStays
<1> QED
  BY <1>1, <1>2, InvariantHolds, PTL DEF Spec, BoardsStayInOrder, ABoardRemains

(* A step that manages the boards leaves what is written on them.          *)
Content(row) == <<row.edits, row.returns>>

LEMMA RowsCarryContent ==
  ASSUME NEW row \in BoardRow
  PROVE  /\ \A o : Content([row EXCEPT !.order = o]) = Content(row)
         /\ \A st : Content([row EXCEPT !.status = st]) = Content(row)
  BY DEF Content, BoardRow

LEMMA ManagingLeavesContent ==
  ASSUME VersionsInv, NEW b \in Existing, NEW u \in Users, CreateFirst(u) \/ ManageVersions(u)
  PROVE  Content(board'[b]) = Content(board[b])
<1>1. TypeOK /\ b \in Boards /\ board[b] \in BoardRow /\ board \in [Boards -> BoardRow]
  <2>1. TypeOK /\ b \in Boards
    BY DEF VersionsInv, Existing
  <2> QED
    BY <2>1 DEF TypeOK
<1>2. PICK row : row = board[b]
  OBVIOUS
<1>3. /\ \A o : Content([row EXCEPT !.order = o]) = Content(row)
      /\ \A st : Content([row EXCEPT !.status = st]) = Content(row)
  BY <1>1, <1>2, RowsCarryContent
<1>4. CASE CreateFirst(u)
  <2>1. b # 1
    BY <1>4 DEF CreateFirst, Existing
  <2>2. board'[b] = board[b]
    BY <1>1, <1>4, <2>1 DEF CreateFirst, Runs
  <2> QED
    BY <2>2
<1>5. CASE CreateVersion(u)
  <2>1. Cardinality(Existing) + 1 # b
    <3>1. Existing = 1..Cardinality(Existing) /\ Cardinality(Existing) \in Nat
      BY <1>1, ActiveIsFinite DEF TypeOK
    <3> QED
      BY <3>1
  <2>2. board'[b] = IF b \in Active THEN [board[b] EXCEPT !.order = @ + 1] ELSE board[b]
    BY <1>1, <1>5, <2>1 DEF CreateVersion, Runs
  <2> QED
    BY <1>2, <1>3, <2>2
<1>6. CASE ReorderVersions(u)
  <2>1. board'[b] = row \/ \E o : board'[b] = [row EXCEPT !.order = o]
    BY <1>1, <1>2, <1>6 DEF ReorderVersions, Runs, Renumbered
  <2> QED
    BY <1>2, <1>3, <2>1
<1>7. CASE DeleteLatestVersion(u)
  <2> DEFINE d == request[u].board
             left == [c \in Boards |-> IF c \in Active \ {d}
                        THEN [board[c] EXCEPT !.order = Cardinality(Before(d, c))]
                        ELSE board[c]]
  <2>1. board' = [left EXCEPT ![d].status = "deleted"] /\ d \in Active
    BY <1>7 DEF DeleteLatestVersion, Runs, Before, IsLatest
  <2> HIDE DEF d
  <2>2. b # d => board'[b] = left[b]
    BY <1>1, <2>1
  <2>3. b = d => board'[b] = [row EXCEPT !.status = "deleted"]
    BY <1>1, <1>2, <2>1
  <2>4. left[b] = row \/ \E o : left[b] = [row EXCEPT !.order = o]
    BY <1>1, <1>2
  <2> HIDE DEF left
  <2> QED
    BY <1>2, <1>3, <2>2, <2>3, <2>4
<1> QED
  BY <1>4, <1>5, <1>6, <1>7 DEF ManageVersions

(* An edit sees the board as the latest and the PRD in progress            *)
(* (_lock_canvas), whatever was true when its request was admitted; what   *)
(* else comes to a board is notes given back, while the PRD is in progress *)
(* (remove_participant) or to an active board (_restore_removed_assignees).*)
THEOREM OnlyLatestBoardIsEdited == Spec => OnlyLatestIsEdited
<1>1. ASSUME VersionsInv, [Next]_vars, NEW b \in Existing
      PROVE  /\ board'[b].edits # board[b].edits => IsLatest(b) /\ Writable
             /\ board'[b].returns # board[b].returns => Writable \/ (b \in Active /\ prd.due > 0)
  <2>1. b \in Boards /\ board[b] \in BoardRow /\ board \in [Boards -> BoardRow]
    <3>1. TypeOK /\ b \in Boards
      BY <1>1 DEF VersionsInv, Existing
    <3> QED
      BY <3>1 DEF TypeOK
  <2>2. CASE UNCHANGED board
    BY <2>2
  <2>3. ASSUME NEW u \in Users, Edit(u)
        PROVE  /\ board'[b].returns = board[b].returns
               /\ board'[b].edits # board[b].edits => IsLatest(b) /\ Writable
    <3>1. board' = [board EXCEPT ![request[u].board].edits = @ + 1]
      BY <2>3 DEF Edit, Runs
    <3>2. CASE b = request[u].board
      BY <2>1, <2>3, <3>1, <3>2 DEF Edit, BoardRow
    <3>3. CASE b # request[u].board
      <4>1. board'[b] = board[b]
        BY <2>1, <3>1, <3>3
      <4> QED
        BY <4>1
    <3> QED
      BY <3>2, <3>3
  <2>4. ASSUME NEW S, GiveBack(S)
        PROVE  board'[b].edits = board[b].edits /\ (b \notin S => board'[b] = board[b])
    BY <2>1, <2>4 DEF GiveBack, BoardRow
  <2>5. CASE RemoveParticipant
    <3>1. PICK S : GiveBack(S)
      BY <2>5 DEF RemoveParticipant
    <3> QED
      BY <2>4, <2>5, <3>1 DEF RemoveParticipant
  <2>6. CASE RestoreRemovedAssignees
    <3>1. PICK S \in SUBSET Active : GiveBack(S)
      BY <2>6 DEF RestoreRemovedAssignees
    <3>2. b \in S => b \in Active
      BY <3>1
    <3> QED
      BY <2>4, <2>6, <3>1, <3>2 DEF RestoreRemovedAssignees
  <2>7. ASSUME NEW u \in Users, CreateFirst(u) \/ ManageVersions(u)
        PROVE  board'[b].edits = board[b].edits /\ board'[b].returns = board[b].returns
    <3>1. Content(board'[b]) = Content(board[b])
      BY <1>1, <2>7, ManagingLeavesContent
    <3> QED
      BY <3>1 DEF Content
  <2> QED
    BY <1>1, <2>2, <2>3, <2>5, <2>6, <2>7 DEF Next, PrdChanges, AdmitRequest, Admit, Refuse, vars
<1>2. VersionsInv /\ [Next]_vars => [\A b \in Existing :
        /\ board'[b].edits # board[b].edits => IsLatest(b) /\ Writable
        /\ board'[b].returns # board[b].returns => Writable \/ (b \in Active /\ prd.due > 0)]_vars
  BY <1>1
<1> QED
  BY <1>2, InvariantHolds, PTL DEF Spec, OnlyLatestIsEdited
-----------------------------------------------------------------------------
(***************************************************************************)
(* Polling.                                                                *)
(***************************************************************************)
(* Who has what the notes or the lines were after k changes, and read some *)
(* of them later, is wrong only about what has changed since.              *)
NotesFollow(note, k) ==
    \A n \in Notes : note[n] # canvas.note[n] =>
        \E i \in DOMAIN log : i > k /\ ChangesNote(log[i], n)
LinesFollow(line, k) ==
    \A pair \in Pairs : (pair \in line) # (pair \in canvas.line) =>
        \E i \in DOMAIN log : i > k /\ ChangesLine(log[i], pair)
Follows(view, k) == NotesFollow(view.note, k) /\ LinesFollow(view.line, k)

(* The last event of a line says whether there is one.                     *)
LogTellsLines ==
    \A i \in DOMAIN log :
        log[i].target = "connection" /\ (log[i].line \in canvas.line) = log[i].deleted =>
            \E j \in DOMAIN log : j > i /\ ChangesLine(log[j], log[i].line)

LoadFollows ==
    /\ sync.step = "notes" => NotesFollow(sync.note, sync.cursor)
    /\ sync.step = "answered" => Follows(sync.view, sync.cursor)

(* A poll is of the rows after the cursor it was asked with; what else it  *)
(* reads it reads later.                                                   *)
PollFollows ==
    /\ poll.step \in {"rows", "notes", "answered"} =>
         \A i \in DOMAIN poll.rows : After + i \in DOMAIN log /\ poll.rows[i] = log[After + i]
    /\ poll.step = "notes" => NotesFollow(poll.note, poll.cursor)
    /\ poll.step = "answered" => Follows(poll.view, poll.cursor)

(* The answer to a change made here holds the note as it was then.         *)
SavedFollows ==
    saved # Idle /\ saved.version # canvas.note[saved.note] =>
        \E i \in DOMAIN log : i > saved.at /\ ChangesNote(log[i], saved.note)

(* A poll is asked for by a page that has loaded.                          *)
PollIsAsked ==
    poll.step \in {"asked", "rows", "notes", "answered"} => seen # NoCursor /\ After \in 0..Latest

ReadsFollow ==
    /\ PollingTypeOK /\ LogTellsLines /\ LoadFollows
    /\ PollFollows /\ PollIsAsked /\ SavedFollows

(* What is shown is wrong only about what some changes have changed.       *)
NotesWithin(note, S) ==
    \A n \in Notes : note[n] # canvas.note[n] => \E i \in S : ChangesNote(log[i], n)
LinesWithin(line, S) ==
    \A pair \in Pairs : (pair \in line) # (pair \in canvas.line) =>
        \E i \in S : ChangesLine(log[i], pair)
Within(view, S) == NotesWithin(view.note, S) /\ LinesWithin(view.line, S)

PageFollows == seen # NoCursor => Within(page, NotShown)

PollingInv == ReadsFollow /\ PageFollows
-----------------------------------------------------------------------------
(* Numbers, sequences and folds.                                           *)

LEMMA UpTo ==
  ASSUME NEW n \in Nat, NEW T, 0 \in T, \A i \in 0..(n - 1) : i \in T => i + 1 \in T
  PROVE  n \in T
<1> DEFINE U == {i \in 0..n : i \notin T}
<1> SUFFICES ASSUME U # {} PROVE FALSE
  OBVIOUS
<1>1. PICK x \in U : \A y \in U : ~(<<y, x>> \in OpToRel(<, Nat))
  <2>1. U \subseteq Nat
    OBVIOUS
  <2> HIDE DEF U
  <2> QED
    BY <2>1, NatLessThanWellFounded, WFMin
<1>2. x \in 0..n /\ x \notin T /\ x # 0
  OBVIOUS
<1>3. x - 1 \in 0..(n - 1) /\ x - 1 \in Nat /\ x - 1 < x /\ x \in Nat
  BY <1>2
<1>4. x - 1 \in T
  <2>1. ~(x - 1 \in U)
    <3> HIDE DEF U
    <3> QED
      BY <1>1, <1>3 DEF OpToRel
  <2> QED
    BY <1>3, <2>1
<1>5. (x - 1) + 1 \in T
  BY <1>3, <1>4
<1> QED
  BY <1>2, <1>3, <1>5

LEMMA MinOfTwo ==
  ASSUME NEW a \in Nat, NEW b \in Nat
  PROVE  Min({a, b}) \in {a, b} /\ Min({a, b}) <= a /\ Min({a, b}) <= b
<1>1. \E x \in {a, b} : \A y \in {a, b} : x <= y
  <2>1. CASE a <= b
    BY <2>1
  <2>2. CASE b <= a
    BY <2>2
  <2> QED
    BY <2>1, <2>2
<1> QED
  BY <1>1 DEF Min

(* What the page shows after a batch follows from one row after the other. *)
LEMMA ShownIsApplied ==
  ASSUME NEW rows, Len(rows) \in Nat, NEW read
  PROVE  \E f : /\ f[0] = page
                /\ \A i \in 1..Len(rows) : f[i] = Apply(f[i - 1], rows[i], read)
                /\ Shown(rows, read) = f[Len(rows)]
<1> DEFINE G(f, k) == f = [i \in 0..k |-> IF i = 0 THEN page ELSE Apply(f[i - 1], rows[i], read)]
           T == {k \in 0..Len(rows) : \E f : G(f, k)}
<1>1. 0 \in T
  <2>1. PICK f : f = [i \in 0..0 |-> page]
    OBVIOUS
  <2>2. G(f, 0)
    <3>1. [i \in 0..0 |-> page] = [i \in 0..0 |-> IF i = 0 THEN page ELSE Apply(f[i - 1], rows[i], read)]
      OBVIOUS
    <3> QED
      BY <2>1, <3>1
  <2> QED
    BY <2>2
<1>2. ASSUME NEW k \in 0..(Len(rows) - 1), k \in T
      PROVE  k + 1 \in T
  <2>1. PICK f : G(f, k)
    BY <1>2
  <2>2. PICK g : g = [i \in 0..(k + 1) |-> IF i = 0 THEN page ELSE Apply(f[i - 1], rows[i], read)]
    OBVIOUS
  <2>3. \A i \in 0..k : g[i] = f[i]
    BY <2>1, <2>2
  <2>4. \A i \in 0..(k + 1) : i # 0 => g[i - 1] = f[i - 1]
    BY <2>3
  <2>5. [i \in 0..(k + 1) |-> IF i = 0 THEN page ELSE Apply(f[i - 1], rows[i], read)]
          = [i \in 0..(k + 1) |-> IF i = 0 THEN page ELSE Apply(g[i - 1], rows[i], read)]
    BY <2>4
  <2>6. G(g, k + 1)
    BY <2>2, <2>5
  <2> QED
    BY <2>6
<1>3. \E f : G(f, Len(rows))
  <2>1. Len(rows) \in T
    <3> HIDE DEF T
    <3> QED
      BY <1>1, <1>2, UpTo
  <2> QED
    BY <2>1
<1>4. PICK f : f = CHOOSE h : G(h, Len(rows))
  OBVIOUS
<1>5. G(f, Len(rows))
  <2> HIDE DEF G
  <2> QED
    BY <1>3, <1>4
<1>6. Shown(rows, read) = f[Len(rows)]
  BY <1>4 DEF Shown
<1>7. f[0] = page /\ \A i \in 1..Len(rows) : f[i] = Apply(f[i - 1], rows[i], read)
  BY <1>5
<1> QED
  BY <1>6, <1>7
-----------------------------------------------------------------------------
(* Changes of the board.                                                   *)

LEMMA LogIsNumbered ==
  ASSUME PollingTypeOK
  PROVE  /\ log \in Seq(Event) /\ Latest \in Nat /\ Latest <= MaxLog /\ MaxLog \in Nat
         /\ DOMAIN log = 1..Latest /\ \A i \in DOMAIN log : log[i] \in Event
<1>1. log \in Seq(Event) /\ Latest <= MaxLog /\ MaxLog \in Nat
  BY BoundAssumption DEF PollingTypeOK
<1>2. Latest \in Nat /\ DOMAIN log = 1..Latest
  BY <1>1, LenProperties DEF Latest
<1>3. \A i \in DOMAIN log : log[i] \in Event
  BY <1>1, <1>2, ElementOfSeq DEF Latest
<1> QED
  BY <1>1, <1>2, <1>3

(* A change touches no notes and lines but those its event tells of.       *)
Changes(event) ==
    /\ event \in Event
    /\ Changed(canvas', event)
    /\ canvas' \in View /\ canvas'.line \subseteq Among(canvas'.note)
    /\ \A n \in Notes : canvas'.note[n] # canvas.note[n] => ChangesNote(event, n)
    /\ \A pair \in Pairs :
         (pair \in canvas'.line) # (pair \in canvas.line) => ChangesLine(event, pair)
    /\ event.target = "connection" => (event.line \in canvas'.line) # event.deleted

LEMMA NoteChanges ==
  ASSUME PollingTypeOK, NEW n \in Notes, NEW version \in {Gone, Latest + 1},
         NoteBecomes(n, version)
  PROVE  Changes([target |-> "node", note |-> n]) /\ version \in {Gone} \cup 0..MaxLog
<1>1. PICK event : event = [target |-> "node", note |-> n]
  OBVIOUS
<1>2. event \in Event /\ event.target = "node" /\ event.note = n
  BY <1>1 DEF Event
<1>3. PICK back \in SUBSET (At(n) \cap Among([canvas.note EXCEPT ![n] = version])) :
        /\ canvas.note[n] = Gone => version # Gone
        /\ canvas.note[n] # Gone => back = {}
        /\ Changed([canvas EXCEPT !.note[n] = version,
                                   !.line = IF version = Gone THEN @ \ At(n) ELSE @ \cup back],
                   event)
  BY <1>1 DEF NoteBecomes
<1>4. /\ canvas' = [canvas EXCEPT !.note[n] = version,
                                  !.line = IF version = Gone THEN @ \ At(n) ELSE @ \cup back]
      /\ Changed(canvas', event) /\ Latest < MaxLog
  BY <1>3 DEF Changed
<1>5. /\ canvas.note \in NoteStates /\ canvas.line \subseteq Pairs
      /\ canvas.line \subseteq Among(canvas.note)
      /\ canvas.given \in Givings
      /\ canvas = [note |-> canvas.note, given |-> canvas.given, line |-> canvas.line]
  BY DEF PollingTypeOK, View
<1>14. /\ canvas'.note = [canvas.note EXCEPT ![n] = version]
       /\ canvas'.line = IF version = Gone THEN canvas.line \ At(n) ELSE canvas.line \cup back
       /\ canvas' = [note |-> canvas'.note, given |-> canvas.given, line |-> canvas'.line]
  BY <1>4, <1>5
<1>6. version \in {Gone} \cup 0..MaxLog /\ Latest + 1 # Gone
  BY <1>4, LogIsNumbered DEF Gone
<1>7. canvas'.note \in NoteStates
  BY <1>14, <1>5, <1>6 DEF NoteStates
<1>8. \A m \in Notes : canvas'.note[m] = IF m = n THEN version ELSE canvas.note[m]
  BY <1>14, <1>5 DEF NoteStates
<1>9. canvas'.line \subseteq Among(canvas'.note) /\ canvas'.line \subseteq Pairs
  <2>1. \A pair \in Pairs : pair \subseteq Notes
    BY DEF Pairs, kSubset
  <2>2. CASE version = Gone
    <3>1. \A pair \in canvas'.line : pair \in canvas.line /\ n \notin pair /\ pair \in Pairs
      BY <1>14, <1>5, <2>2 DEF At
    <3>2. \A pair \in canvas'.line : \A m \in pair : canvas'.note[m] # Gone
      BY <1>5, <1>8, <2>1, <3>1 DEF Among
    <3> QED
      BY <3>1, <3>2 DEF Among
  <2>3. CASE version # Gone
    <3>1. \A pair \in canvas.line : pair \in Among(canvas'.note)
      BY <1>5, <1>8, <2>1, <2>3 DEF Among
    <3>2. back \subseteq Among(canvas'.note)
      BY <1>3, <1>14
    <3> QED
      BY <1>14, <2>3, <3>1, <3>2 DEF Among
  <2> QED
    BY <2>2, <2>3
<1>10. canvas' \in View
  BY <1>5, <1>7, <1>9, <1>14 DEF View
<1>11. \A m \in Notes : canvas'.note[m] # canvas.note[m] => ChangesNote(event, m)
  BY <1>1, <1>8 DEF ChangesNote
<1>12. \A pair \in Pairs : (pair \in canvas'.line) # (pair \in canvas.line) => ChangesLine(event, pair)
  <2>1. back \subseteq At(n)
    BY <1>3
  <2> QED
    BY <1>2, <1>14, <2>1 DEF ChangesLine, At
<1> QED
  BY <1>1, <1>2, <1>6, <1>9, <1>10, <1>11, <1>12, <1>4 DEF Changes

LEMMA LineChanges ==
  ASSUME PollingTypeOK, NEW pair \in Pairs, DrawLine(pair) \/ EraseLine(pair)
  PROVE  \E event : Changes(event)
<1>1. PICK deleted \in BOOLEAN : IF deleted THEN EraseLine(pair) ELSE DrawLine(pair)
  OBVIOUS
<1>2. PICK event : event = [target |-> "connection", line |-> pair, deleted |-> deleted]
  OBVIOUS
<1>3. event \in Event /\ event.target = "connection" /\ event.line = pair /\ event.deleted = deleted
  BY <1>2 DEF Event
<1>4. /\ canvas \in [note : NoteStates, given : Givings, line : SUBSET Pairs]
      /\ canvas.line \subseteq Among(canvas.note)
  BY DEF PollingTypeOK, View
<1>5. CASE deleted
  <2>1. EraseLine(pair) /\ event = [target |-> "connection", line |-> pair, deleted |-> TRUE]
    BY <1>1, <1>2, <1>5
  <2>2. Changed([canvas EXCEPT !.line = @ \ {pair}], event)
    BY <2>1 DEF EraseLine
  <2>3. Changed(canvas', event) /\ canvas' = [canvas EXCEPT !.line = @ \ {pair}]
    BY <2>2 DEF Changed
  <2>4. canvas'.note = canvas.note /\ canvas'.line = canvas.line \ {pair}
    BY <1>4, <2>3
  <2>5. canvas' \in View /\ canvas'.line \subseteq Among(canvas'.note)
    BY <1>4, <2>3, <2>4 DEF View
  <2>6. event.deleted = TRUE /\ (event.line \in canvas'.line) = FALSE
    BY <1>3, <1>5, <2>4
  <2>7. (event.line \in canvas'.line) # event.deleted
    BY <2>6
  <2>8. \A q \in Pairs : (q \in canvas'.line) # (q \in canvas.line) => ChangesLine(event, q)
    BY <1>3, <2>4 DEF ChangesLine
  <2> QED
    BY <1>3, <2>3, <2>4, <2>5, <2>7, <2>8 DEF Changes
<1>6. CASE ~deleted
  <2>1. DrawLine(pair) /\ event = [target |-> "connection", line |-> pair, deleted |-> FALSE]
    BY <1>1, <1>2, <1>6
  <2>2. Changed([canvas EXCEPT !.line = @ \cup {pair}], event) /\ pair \in Among(canvas.note)
    BY <2>1 DEF DrawLine
  <2>3. Changed(canvas', event) /\ canvas' = [canvas EXCEPT !.line = @ \cup {pair}]
    BY <2>2 DEF Changed
  <2>4. canvas'.note = canvas.note /\ canvas'.line = canvas.line \cup {pair}
    BY <1>4, <2>3
  <2>5. canvas' \in View /\ canvas'.line \subseteq Among(canvas'.note)
    BY <1>4, <2>2, <2>3, <2>4 DEF View
  <2>6. event.deleted = FALSE /\ (event.line \in canvas'.line) = TRUE
    BY <1>3, <1>6, <2>4
  <2>7. (event.line \in canvas'.line) # event.deleted
    BY <2>6
  <2>8. \A q \in Pairs : (q \in canvas'.line) # (q \in canvas.line) => ChangesLine(event, q)
    BY <1>3, <2>4 DEF ChangesLine
  <2> QED
    BY <1>3, <2>3, <2>4, <2>5, <2>7, <2>8 DEF Changes
<1> QED
  BY <1>5, <1>6

LEMMA AllChanges ==
  ASSUME PollingTypeOK, ChangeCanvas
  PROVE  \E event : Changes(event)
<1>1. PICK notes \in SUBSET {n \in Notes : canvas.note[n] # Gone} :
        Changed([canvas EXCEPT !.note = [n \in Notes |->
                     IF n \in notes THEN Latest + 1 ELSE canvas.note[n]]],
                [target |-> "canvas"])
  BY DEF ChangeCanvas
<1>2. PICK event : event = [target |-> "canvas"]
  OBVIOUS
<1>3. event \in Event /\ event.target = "canvas"
  BY <1>2 DEF Event
<1>4. PICK note : note = [n \in Notes |-> IF n \in notes THEN Latest + 1 ELSE canvas.note[n]]
  OBVIOUS
<1>5. Changed(canvas', event) /\ canvas' = [canvas EXCEPT !.note = note] /\ Latest < MaxLog
  BY <1>1, <1>2, <1>4 DEF Changed
<1>6. /\ canvas \in [note : NoteStates, given : Givings, line : SUBSET Pairs]
      /\ canvas.line \subseteq Among(canvas.note)
  BY DEF PollingTypeOK, View
<1>7. canvas'.note = note /\ canvas'.line = canvas.line
  BY <1>5, <1>6
<1>8. Latest + 1 \in 0..MaxLog /\ Latest + 1 # Gone
  BY <1>5, LogIsNumbered DEF Gone
<1>9. note \in NoteStates
  BY <1>4, <1>6, <1>8 DEF NoteStates
<1>10. \A n \in Notes : canvas.note[n] # Gone => note[n] # Gone
  BY <1>4, <1>6, <1>8 DEF NoteStates
<1>11. canvas.line \subseteq Among(note)
  <2>1. \A pair \in Pairs : pair \subseteq Notes
    BY DEF Pairs, kSubset
  <2> QED
    BY <1>6, <1>10, <2>1 DEF Among
<1>12. canvas' \in View
  BY <1>5, <1>6, <1>9 DEF View
<1> QED
  BY <1>3, <1>5, <1>7, <1>11, <1>12 DEF Changes, ChangesNote, ChangesLine

LEMMA LogGrows ==
  ASSUME PollingTypeOK, NEW event, Changes(event)
  PROVE  /\ log' \in Seq(Event) /\ Latest' = Latest + 1 /\ Latest' <= MaxLog
         /\ DOMAIN log' = DOMAIN log \cup {Latest + 1} /\ Latest + 1 \in DOMAIN log'
         /\ \A i \in DOMAIN log : log'[i] = log[i] /\ i < Latest + 1
         /\ log'[Latest + 1] = event
<1>1. /\ log \in Seq(Event) /\ Latest \in Nat /\ MaxLog \in Nat /\ DOMAIN log = 1..Latest
      /\ event \in Event /\ log' = Append(log, event) /\ Latest < MaxLog
  BY LogIsNumbered DEF Changes, Changed
<1>2. /\ log' \in Seq(Event) /\ Len(log') = Latest + 1
      /\ \A i \in 1..Latest : log'[i] = log[i]
      /\ log'[Latest + 1] = event
  BY <1>1, AppendProperties DEF Latest
<1>3. Latest' = Latest + 1 /\ DOMAIN log' = 1..(Latest + 1)
  BY <1>2, LenProperties DEF Latest
<1> QED
  BY <1>1, <1>2, <1>3

(* What follows the board goes on following it.                            *)
LEMMA FollowsOn ==
  ASSUME PollingTypeOK, NEW event, Changes(event), NEW k \in Int, k <= Latest
  PROVE  /\ \A note : NotesFollow(note, k) => NotesFollow(note, k)'
         /\ \A line : LinesFollow(line, k) => LinesFollow(line, k)'
<1>1. /\ DOMAIN log' = DOMAIN log \cup {Latest + 1} /\ log'[Latest + 1] = event
      /\ \A i \in DOMAIN log : log'[i] = log[i]
      /\ Latest + 1 > k
  <2>1. Latest \in Nat
    BY LogIsNumbered
  <2>2. Latest + 1 > k
    BY <2>1
  <2> QED
    BY <2>2, LogGrows
<1>2. ASSUME NEW note, NotesFollow(note, k)
      PROVE  NotesFollow(note, k)'
  <2>1. ASSUME NEW n \in Notes, note[n] # canvas'.note[n]
        PROVE  \E i \in DOMAIN log' : i > k /\ ChangesNote(log'[i], n)
    <3>1. CASE canvas'.note[n] = canvas.note[n]
      BY <1>1, <1>2, <2>1, <3>1 DEF NotesFollow
    <3>2. CASE canvas'.note[n] # canvas.note[n]
      <4>1. ChangesNote(log'[Latest + 1], n)
        BY <1>1, <3>2 DEF Changes
      <4> QED
        BY <1>1, <4>1
    <3> QED
      BY <3>1, <3>2
  <2> QED
    BY <2>1 DEF NotesFollow
<1>3. ASSUME NEW line, LinesFollow(line, k)
      PROVE  LinesFollow(line, k)'
  <2>1. ASSUME NEW pair \in Pairs, (pair \in line) # (pair \in canvas'.line)
        PROVE  \E i \in DOMAIN log' : i > k /\ ChangesLine(log'[i], pair)
    <3>1. CASE (pair \in canvas'.line) = (pair \in canvas.line)
      BY <1>1, <1>3, <2>1, <3>1 DEF LinesFollow
    <3>2. CASE (pair \in canvas'.line) # (pair \in canvas.line)
      <4>1. ChangesLine(log'[Latest + 1], pair)
        BY <1>1, <3>2 DEF Changes
      <4> QED
        BY <1>1, <4>1
    <3> QED
      BY <3>1, <3>2
  <2> QED
    BY <2>1 DEF LinesFollow
<1> QED
  BY <1>2, <1>3

LEMMA WithinGoesOn ==
  ASSUME PollingTypeOK, NEW event, Changes(event),
         NEW S \in SUBSET DOMAIN log, NEW T, S \subseteq T, Latest + 1 \in T
  PROVE  /\ \A note : NotesWithin(note, S) => NotesWithin(note, T)'
         /\ \A line : LinesWithin(line, S) => LinesWithin(line, T)'
<1>1. /\ log'[Latest + 1] = event
      /\ \A i \in S : i \in T /\ log'[i] = log[i]
  BY LogGrows
<1>2. ASSUME NEW note, NotesWithin(note, S)
      PROVE  NotesWithin(note, T)'
  <2>1. ASSUME NEW n \in Notes, note[n] # canvas'.note[n]
        PROVE  \E i \in T : ChangesNote(log'[i], n)
    <3>1. CASE canvas'.note[n] = canvas.note[n]
      BY <1>1, <1>2, <2>1, <3>1 DEF NotesWithin
    <3>2. CASE canvas'.note[n] # canvas.note[n]
      <4>1. ChangesNote(log'[Latest + 1], n)
        BY <1>1, <3>2 DEF Changes
      <4> QED
        BY <4>1
    <3> QED
      BY <3>1, <3>2
  <2> QED
    BY <2>1 DEF NotesWithin
<1>3. ASSUME NEW line, LinesWithin(line, S)
      PROVE  LinesWithin(line, T)'
  <2>1. ASSUME NEW pair \in Pairs, (pair \in line) # (pair \in canvas'.line)
        PROVE  \E i \in T : ChangesLine(log'[i], pair)
    <3>1. CASE (pair \in canvas'.line) = (pair \in canvas.line)
      BY <1>1, <1>3, <2>1, <3>1 DEF LinesWithin
    <3>2. CASE (pair \in canvas'.line) # (pair \in canvas.line)
      <4>1. ChangesLine(log'[Latest + 1], pair)
        BY <1>1, <3>2 DEF Changes
      <4> QED
        BY <4>1
    <3> QED
      BY <3>1, <3>2
  <2> QED
    BY <2>1 DEF LinesWithin
<1> QED
  BY <1>2, <1>3

LEMMA LogGoesOnTelling ==
  ASSUME PollingTypeOK, LogTellsLines, NEW event, Changes(event)
  PROVE  LogTellsLines'
<1>1. /\ DOMAIN log' = DOMAIN log \cup {Latest + 1} /\ log'[Latest + 1] = event
      /\ \A i \in DOMAIN log : log'[i] = log[i] /\ i < Latest + 1
  BY LogGrows
<1>2. ASSUME NEW i \in DOMAIN log', log'[i].target = "connection",
             (log'[i].line \in canvas'.line) = log'[i].deleted
      PROVE  \E j \in DOMAIN log' : j > i /\ ChangesLine(log'[j], log'[i].line)
  <2>1. i # Latest + 1
    BY <1>1, <1>2 DEF Changes
  <2>2. PICK pair : pair = log[i].line
    OBVIOUS
  <2>3. /\ i \in DOMAIN log /\ log'[i] = log[i] /\ i < Latest + 1
        /\ log[i] \in Event /\ pair \in Pairs /\ log[i].deleted \in BOOLEAN
    BY <1>1, <1>2, <2>1, <2>2, LogIsNumbered DEF Event
  <2>4. CASE (pair \in canvas'.line) = (pair \in canvas.line)
    <3>1. PICK j \in DOMAIN log : j > i /\ ChangesLine(log[j], pair)
      BY <1>2, <2>2, <2>3, <2>4 DEF LogTellsLines
    <3> QED
      BY <1>1, <2>2, <2>3, <3>1
  <2>5. CASE (pair \in canvas'.line) # (pair \in canvas.line)
    <3>1. ChangesLine(event, pair)
      BY <2>3, <2>5 DEF Changes
    <3> QED
      BY <1>1, <2>2, <2>3, <3>1
  <2> QED
    BY <2>4, <2>5
<1> QED
  BY <1>2 DEF LogTellsLines
-----------------------------------------------------------------------------
(* What a batch of changes makes of the page.                              *)

LEMMA AppliedIsView ==
  ASSUME NEW v \in View, NEW e \in Event, e.target # "canvas", NEW read \in View
  PROVE  Apply(v, e, read) \in View
<1>1. /\ v.note \in NoteStates /\ v.given \in Givings /\ v.line \in SUBSET Pairs
      /\ read.note \in NoteStates /\ read.given \in Givings /\ read.line \in SUBSET Pairs
      /\ v = [note |-> v.note, given |-> v.given, line |-> v.line]
  BY DEF View
<1>2. CASE e.target = "node"
  <2>1. e.note \in Notes
    BY <1>2 DEF Event
  <2>2. PICK note : note = [v.note EXCEPT ![e.note] = read.note[e.note]]
    OBVIOUS
  <2>3. PICK line : line = (v.line \ At(e.note)) \cup
                     (IF read.note[e.note] = Gone THEN {} ELSE read.line \cap At(e.note))
    OBVIOUS
  <2>4. PICK given : given = [v.given EXCEPT ![e.note] = read.given[e.note]]
    OBVIOUS
  <2>5. Apply(v, e, read) = [note |-> note, given |-> given, line |-> line]
    BY <1>2, <2>2, <2>3, <2>4 DEF Apply
  <2>6. note \in NoteStates /\ given \in Givings
    BY <1>1, <2>1, <2>2, <2>4 DEF NoteStates, Givings
  <2>7. line \in SUBSET Pairs
    BY <1>1, <2>3
  <2> QED
    BY <2>5, <2>6, <2>7 DEF View
<1>3. CASE e.target = "connection"
  <2>1. e.line \in Pairs
    BY <1>3 DEF Event
  <2>2. PICK line : line = IF e.deleted THEN v.line \ {e.line} ELSE v.line \cup {e.line}
    OBVIOUS
  <2>3. Apply(v, e, read) = [v EXCEPT !.line = line]
    BY <1>3, <2>2 DEF Apply
  <2>4. line \in SUBSET Pairs
    BY <1>1, <2>1, <2>2
  <2> QED
    BY <1>1, <2>3, <2>4 DEF View
<1> QED
  BY <1>2, <1>3 DEF Event

(* One row: what it may have changed is taken from what was read, later    *)
(* than the row, or from the row itself.                                   *)
LEMMA RowFollows ==
  ASSUME PollingTypeOK, LogTellsLines, NEW i \in DOMAIN log, log[i].target # "canvas",
         NEW m \in Int, i <= m, NEW read \in View, Follows(read, m),
         NEW v \in View, NEW S \in SUBSET DOMAIN log, Within(v, S),
         NEW T, \A j \in S : j # i => j \in T, \A j \in DOMAIN log : j > i => j \in T
  PROVE  Within(Apply(v, log[i], read), T)
<1>1. PICK e : e = log[i]
  OBVIOUS
<1>2. PICK w : w = Apply(v, e, read)
  OBVIOUS
<1>3. e \in Event /\ e.target # "canvas" /\ DOMAIN log \subseteq Nat
  BY <1>1, LogIsNumbered
<1>4. /\ v.note \in NoteStates /\ v.line \in SUBSET Pairs
      /\ canvas.line \subseteq Among(canvas.note)
  BY DEF View, PollingTypeOK
<1>5. \A j \in DOMAIN log : j > m => j \in T
  <2>1. \A j \in DOMAIN log : j > m => j > i
    BY <1>3
  <2> QED
    BY <2>1
<1>6. \A j \in S : j # i => j \in T /\ j \in DOMAIN log
  OBVIOUS
<1>7. CASE e.target = "node"
  <2>1. e.note \in Notes
    BY <1>3, <1>7 DEF Event
  <2>2. /\ w.note = [v.note EXCEPT ![e.note] = read.note[e.note]]
        /\ w.line = (v.line \ At(e.note)) \cup
                     (IF read.note[e.note] = Gone THEN {} ELSE read.line \cap At(e.note))
    BY <1>2, <1>7 DEF Apply
  <2>3. ASSUME NEW n \in Notes, w.note[n] # canvas.note[n]
        PROVE  \E j \in T : ChangesNote(log[j], n)
    <3>1. CASE n = e.note
      <4>1. read.note[n] # canvas.note[n]
        BY <1>4, <2>2, <2>3, <3>1 DEF NoteStates
      <4> QED
        BY <1>5, <4>1 DEF Follows, NotesFollow
    <3>2. CASE n # e.note
      <4>1. v.note[n] # canvas.note[n]
        BY <1>4, <2>2, <2>3, <3>2 DEF NoteStates
      <4>2. PICK j \in S : ChangesNote(log[j], n)
        BY <4>1 DEF Within, NotesWithin
      <4>3. j # i
        <5>1. ~ChangesNote(e, n)
          BY <1>3, <3>2 DEF ChangesNote
        <5> QED
          BY <1>1, <4>2, <5>1
      <4> QED
        BY <1>6, <4>2, <4>3
    <3> QED
      BY <3>1, <3>2
  <2>4. ASSUME NEW pair \in Pairs, (pair \in w.line) # (pair \in canvas.line)
        PROVE  \E j \in T : ChangesLine(log[j], pair)
    <3>1. CASE e.note \in pair /\ read.note[e.note] # Gone
      <4>1. (pair \in read.line) # (pair \in canvas.line)
        BY <2>2, <2>4, <3>1 DEF At
      <4> QED
        BY <1>5, <4>1 DEF Follows, LinesFollow
    <3>2. CASE e.note \in pair /\ read.note[e.note] = Gone
      <4>1. pair \in canvas.line
        BY <2>2, <2>4, <3>2 DEF At
      <4>2. canvas.note[e.note] # Gone
        BY <1>4, <3>2, <4>1 DEF Among
      <4>3. PICK j \in DOMAIN log : j > m /\ ChangesNote(log[j], e.note)
        BY <2>1, <3>2, <4>2 DEF Follows, NotesFollow
      <4>4. ChangesLine(log[j], pair)
        BY <3>2, <4>3 DEF ChangesLine, ChangesNote
      <4> QED
        BY <1>5, <4>3, <4>4
    <3>3. CASE e.note \notin pair
      <4>1. (pair \in v.line) # (pair \in canvas.line)
        BY <2>2, <2>4, <3>3 DEF At
      <4>2. PICK j \in S : ChangesLine(log[j], pair)
        BY <4>1 DEF Within, LinesWithin
      <4>3. j # i
        <5>1. ~ChangesLine(e, pair)
          BY <1>7, <3>3 DEF ChangesLine
        <5> QED
          BY <1>1, <4>2, <5>1
      <4> QED
        BY <1>6, <4>2, <4>3
    <3> QED
      BY <3>1, <3>2, <3>3
  <2>5. Within(w, T)
    BY <2>3, <2>4 DEF Within, NotesWithin, LinesWithin
  <2> QED
    BY <1>1, <1>2, <2>5
<1>8. CASE e.target = "connection"
  <2>1. e.line \in Pairs /\ e.deleted \in BOOLEAN
    BY <1>3, <1>8 DEF Event
  <2>2. w = [v EXCEPT !.line = IF e.deleted THEN @ \ {e.line} ELSE @ \cup {e.line}]
    BY <1>2, <1>8 DEF Apply
  <2>3. /\ w.note = v.note
        /\ w.line = IF e.deleted THEN v.line \ {e.line} ELSE v.line \cup {e.line}
    BY <2>2 DEF View
  <2>4. ASSUME NEW n \in Notes, w.note[n] # canvas.note[n]
        PROVE  \E j \in T : ChangesNote(log[j], n)
    <3>1. PICK j \in S : ChangesNote(log[j], n)
      BY <2>3, <2>4 DEF Within, NotesWithin
    <3>2. j # i
      <4>1. ~ChangesNote(e, n)
        <5>1. [target |-> "node", note |-> n].target = "node"
          OBVIOUS
        <5> QED
          BY <1>8, <5>1 DEF ChangesNote
      <4> QED
        BY <1>1, <3>1, <4>1
    <3> QED
      BY <1>6, <3>1, <3>2
  <2>5. ASSUME NEW pair \in Pairs, (pair \in w.line) # (pair \in canvas.line)
        PROVE  \E j \in T : ChangesLine(log[j], pair)
    <3>1. CASE pair = e.line
      <4>1. (pair \in canvas.line) = e.deleted
        <5>1. CASE e.deleted = TRUE
          <6>1. w.line = v.line \ {e.line}
            BY <2>3, <5>1
          <6>2. ~(pair \in w.line)
            BY <3>1, <6>1
          <6>3. pair \in canvas.line
            BY <2>5, <6>2
          <6> QED
            BY <5>1, <6>3
        <5>2. CASE e.deleted = FALSE
          <6>1. w.line = v.line \cup {e.line}
            BY <2>3, <5>2
          <6>2. pair \in w.line
            BY <3>1, <6>1
          <6>3. ~(pair \in canvas.line)
            BY <2>5, <6>2
          <6>4. (pair \in canvas.line) = FALSE
            BY <6>3
          <6> QED
            BY <5>2, <6>4
        <5> QED
          BY <2>1, <5>1, <5>2
      <4>2. PICK j \in DOMAIN log : j > i /\ ChangesLine(log[j], pair)
        BY <1>1, <1>8, <3>1, <4>1 DEF LogTellsLines
      <4> QED
        BY <4>2
    <3>2. CASE pair # e.line
      <4>1. (pair \in v.line) # (pair \in canvas.line)
        BY <2>3, <2>5, <3>2
      <4>2. PICK j \in S : ChangesLine(log[j], pair)
        BY <4>1 DEF Within, LinesWithin
      <4>3. j # i
        <5>1. ~ChangesLine(e, pair)
          BY <1>8, <3>2 DEF ChangesLine
        <5> QED
          BY <1>1, <4>2, <5>1
      <4> QED
        BY <1>6, <4>2, <4>3
    <3> QED
      BY <3>1, <3>2
  <2>6. Within(w, T)
    BY <2>4, <2>5 DEF Within, NotesWithin, LinesWithin
  <2> QED
    BY <1>1, <1>2, <2>6
<1> QED
  BY <1>3, <1>7, <1>8 DEF Event

LEMMA ShownIsView ==
  ASSUME page \in View, NEW rows \in Seq(Event), ~NeedsLoad(rows), NEW read \in View
  PROVE  Shown(rows, read) \in View
<1>1. PICK n \in Nat : n = Len(rows)
  OBVIOUS
<1>2. PICK f : /\ f[0] = page
               /\ \A i \in 1..n : f[i] = Apply(f[i - 1], rows[i], read)
               /\ Shown(rows, read) = f[n]
  BY <1>1, ShownIsApplied
<1> DEFINE T == {i \in 0..n : f[i] \in View}
<1>3. 0 \in T
  BY <1>2
<1>4. ASSUME NEW i \in 0..(n - 1), i \in T
      PROVE  i + 1 \in T
  <2>1. i + 1 \in 1..n /\ (i + 1) - 1 = i /\ i + 1 \in 0..n
    OBVIOUS
  <2>2. f[i + 1] = Apply(f[i], rows[i + 1], read)
    BY <1>2, <2>1
  <2>3. rows[i + 1] \in Event /\ rows[i + 1].target # "canvas"
    <3>1. DOMAIN rows = 1..n
      BY <1>1, LenProperties
    <3> QED
      BY <1>1, <2>1, <3>1, ElementOfSeq DEF NeedsLoad
  <2>4. f[i] \in View
    BY <1>4
  <2>5. f[i + 1] \in View
    BY <2>2, <2>3, <2>4, AppliedIsView
  <2> QED
    BY <2>1, <2>5
<1>5. n \in T
  <2> HIDE DEF T
  <2> QED
    BY <1>3, <1>4, UpTo
<1> QED
  BY <1>2, <1>5

LEMMA ShownFollows ==
  ASSUME PollingTypeOK, LogTellsLines, NEW rows \in Seq(Event), ~NeedsLoad(rows), NEW a \in Nat,
         \A i \in DOMAIN rows : a + i \in DOMAIN log /\ rows[i] = log[a + i],
         NEW read \in View, Follows(read, a + Len(rows)),
         NEW S \in SUBSET DOMAIN log, Within(page, S)
  PROVE  Within(Shown(rows, read), {j \in S : j \notin (a + 1)..(a + Len(rows))} \cup
                                   {j \in DOMAIN log : j > a + Len(rows)})
<1>1. PICK n \in Nat : n = Len(rows)
  OBVIOUS
<1>2. PICK f : /\ f[0] = page
               /\ \A i \in 1..n : f[i] = Apply(f[i - 1], rows[i], read)
               /\ Shown(rows, read) = f[n]
  BY <1>1, ShownIsApplied
<1> DEFINE Left(k) == {j \in S : j \notin (a + 1)..k} \cup {j \in DOMAIN log : j > k}
           T == {i \in 0..n : f[i] \in View /\ Within(f[i], Left(a + i))}
<1>3. 0 \in T
  <2>1. a + 0 = a /\ 0 \in 0..n /\ (a + 1)..a = {}
    OBVIOUS
  <2>2. f[0] \in View
    BY <1>2 DEF PollingTypeOK
  <2>3. Within(f[0], Left(a))
    BY <1>2, <2>1 DEF Within, NotesWithin, LinesWithin
  <2> QED
    BY <2>1, <2>2, <2>3
<1>4. ASSUME NEW i \in 0..(n - 1), i \in T
      PROVE  i + 1 \in T
  <2>1. /\ i + 1 \in 1..n /\ (i + 1) - 1 = i /\ i + 1 \in 0..n
        /\ a + (i + 1) <= a + n /\ a + n \in Int
    OBVIOUS
  <2>2. f[i + 1] = Apply(f[i], rows[i + 1], read)
    BY <1>2, <2>1
  <2>3. PICK k \in Nat : k = a + (i + 1)
    OBVIOUS
  <2>4. rows[i + 1] = log[k] /\ k \in DOMAIN log /\ rows[i + 1].target # "canvas"
    <3>1. DOMAIN rows = 1..n
      BY <1>1, LenProperties
    <3> QED
      BY <2>1, <2>3, <3>1 DEF NeedsLoad
  <2>5. PICK U : U = Left(a + i)
    OBVIOUS
  <2>6. f[i] \in View /\ Within(f[i], U) /\ U \in SUBSET DOMAIN log
    BY <1>4, <2>5
  <2>7. Follows(read, a + n) /\ k <= a + n
    BY <1>1, <2>1, <2>3
  <2>8. rows[i + 1] \in Event /\ DOMAIN log \subseteq Nat
    BY <2>4, LogIsNumbered
  <2>9. PICK V : V = Left(k)
    OBVIOUS
  <2>10. \A j \in U : j # k => j \in V
    BY <2>3, <2>5, <2>8, <2>9
  <2>11. \A j \in DOMAIN log : j > k => j \in V
    BY <2>9
  <2>12. Within(Apply(f[i], log[k], read), V)
    <3> HIDE DEF Left, T
    <3> QED
      BY <2>1, <2>4, <2>6, <2>7, <2>10, <2>11, RowFollows
  <2>13. f[i + 1] \in View
    BY <2>2, <2>4, <2>6, <2>8, AppliedIsView
  <2> QED
    BY <2>1, <2>2, <2>3, <2>4, <2>9, <2>12, <2>13
<1>5. n \in T
  <2> HIDE DEF T
  <2> QED
    BY <1>3, <1>4, UpTo
<1> QED
  BY <1>1, <1>2, <1>5
-----------------------------------------------------------------------------
(* What the requests of the page carry.                                    *)

LEMMA SyncMeans ==
  ASSUME PollingTypeOK
  PROVE  /\ sync = Idle <=> sync.step = "idle"
         /\ sync.step \in {"cursor", "notes", "answered"} => sync.cursor \in 0..Latest
         /\ sync.step = "notes" => sync.note \in NoteStates /\ sync.given \in Givings
         /\ sync.step = "answered" => sync.view \in View
  BY DEF PollingTypeOK, SyncTypes, Idle

LEMMA PollMeans ==
  ASSUME PollingTypeOK
  PROVE  /\ poll = Idle <=> poll.step = "idle"
         /\ poll.step \in {"idle", "loading", "asked", "rows", "notes", "answered"}
         /\ poll.step = "asked" => poll.after \in 0..Latest
         /\ poll.step \in {"rows", "notes", "answered"} =>
              poll.cursor \in 0..Latest /\ poll.rows \in Seq(Event)
         /\ poll.step = "notes" => poll.note \in NoteStates /\ poll.given \in Givings
         /\ poll.step = "answered" => poll.view \in View
  BY DEF PollingTypeOK, PollTypes, Idle

(* What the log tells of stays: the page takes a step, or notes go back to *)
(* their authors.                                                          *)
Stays ==
    /\ canvas'.note = canvas.note /\ canvas'.line = canvas.line /\ canvas' \in View
    /\ UNCHANGED log

LEMMA PageStepStays ==
  ASSUME PollingTypeOK, UNCHANGED server
  PROVE  Stays
BY DEF PollingTypeOK, server, Stays

LEMMA ReturnStays ==
  ASSUME PollingTypeOK, ReturnNotes
  PROVE  Stays
<1>1. PICK notes \in SUBSET {n \in Notes : canvas.note[n] # Gone} :
        /\ \A n \in notes : canvas.given[n] < MaxGiven
        /\ canvas' = [canvas EXCEPT !.given = [n \in Notes |->
                          IF n \in notes THEN canvas.given[n] + 1 ELSE canvas.given[n]]]
  BY DEF ReturnNotes
<1>2. PICK given : given = [n \in Notes |->
                          IF n \in notes THEN canvas.given[n] + 1 ELSE canvas.given[n]]
  OBVIOUS
<1>3. canvas \in [note : NoteStates, given : Givings, line : SUBSET Pairs]
  BY DEF PollingTypeOK, View
<1>4. given \in Givings
  <2>1. \A n \in Notes : canvas.given[n] \in 0..MaxGiven
    BY <1>3 DEF Givings
  <2>2. \A n \in notes : canvas.given[n] + 1 \in 0..MaxGiven
    BY <1>1, <2>1, BoundAssumption
  <2> QED
    BY <1>2, <2>1, <2>2 DEF Givings
<1>5. canvas' = [canvas EXCEPT !.given = given] /\ UNCHANGED log
  BY <1>1, <1>2 DEF ReturnNotes
<1> QED
  BY <1>3, <1>4, <1>5 DEF Stays, View

LEMMA BoardStays ==
  ASSUME PollingTypeOK, Stays
  PROVE  /\ UNCHANGED log /\ Latest' = Latest
         /\ canvas'.note = canvas.note /\ canvas'.line = canvas.line
         /\ canvas' \in View /\ canvas'.line \subseteq Among(canvas'.note)
         /\ log' \in Seq(Event) /\ Latest' <= MaxLog
         /\ LogTellsLines => LogTellsLines'
<1>1. Latest' = Latest
  BY DEF Stays, Latest
<1> QED
  BY <1>1 DEF Stays, PollingTypeOK, LogTellsLines, ChangesLine, Among

LEMMA LoadStays ==
  ASSUME PollingTypeOK, Stays, UNCHANGED sync
  PROVE  SyncTypes' /\ (LoadFollows => LoadFollows')
<1>1. UNCHANGED log /\ canvas'.note = canvas.note /\ canvas'.line = canvas.line /\ Latest' = Latest
  BY BoardStays
<1> QED
  BY <1>1 DEF PollingTypeOK, SyncTypes, LoadFollows, Follows, NotesFollow, LinesFollow

LEMMA PollStays ==
  ASSUME PollingTypeOK, Stays, UNCHANGED poll
  PROVE  PollTypes' /\ (PollFollows => PollFollows') /\ After' = After
<1>1. UNCHANGED log /\ canvas'.note = canvas.note /\ canvas'.line = canvas.line /\ Latest' = Latest
  BY BoardStays
<1>2. After' = After
  BY DEF After
<1> QED
  BY <1>1, <1>2 DEF PollingTypeOK, PollTypes, PollFollows, Follows, NotesFollow, LinesFollow

LEMMA SavedStays ==
  ASSUME PollingTypeOK, Stays, UNCHANGED saved
  PROVE  SavedTypes' /\ (SavedFollows => SavedFollows')
<1>1. UNCHANGED log /\ canvas'.note = canvas.note /\ Latest' = Latest
  BY BoardStays
<1> QED
  BY <1>1 DEF PollingTypeOK, SavedTypes, SavedFollows

(* What goes on when the board changes.                                    *)
LEMMA LoadGoesOn ==
  ASSUME PollingTypeOK, LoadFollows, NEW event, Changes(event), UNCHANGED sync
  PROVE  SyncTypes' /\ LoadFollows'
<1>1. Latest \in Nat /\ Latest' = Latest + 1
  BY LogIsNumbered, LogGrows
<1>2. SyncTypes'
  <2>1. \A k \in 0..Latest : k \in 0..(Latest')
    BY <1>1
  <2> QED
    BY <2>1 DEF PollingTypeOK, SyncTypes
<1>3. ASSUME sync.step \in {"notes", "answered"}
      PROVE  LoadFollows'
  <2>1. PICK k \in Int : k = sync.cursor /\ k <= Latest
    BY <1>1, <1>3, SyncMeans
  <2>2. ASSUME sync.step = "notes"
        PROVE  NotesFollow(sync.note, sync.cursor)'
    <3>1. PICK note : note = sync.note
      OBVIOUS
    <3>2. NotesFollow(note, k)
      BY <2>1, <2>2, <3>1 DEF LoadFollows
    <3>3. NotesFollow(note, k)'
      BY <2>1, <3>2, FollowsOn
    <3> QED
      BY <2>1, <3>1, <3>3 DEF NotesFollow
  <2>3. ASSUME sync.step = "answered"
        PROVE  Follows(sync.view, sync.cursor)'
    <3>1. PICK note : note = sync.view.note
      OBVIOUS
    <3>2. PICK line : line = sync.view.line
      OBVIOUS
    <3>3. NotesFollow(note, k) /\ LinesFollow(line, k)
      BY <2>1, <2>3, <3>1, <3>2 DEF LoadFollows, Follows
    <3>4. NotesFollow(note, k)' /\ LinesFollow(line, k)'
      BY <2>1, <3>3, FollowsOn
    <3> QED
      BY <2>1, <3>1, <3>2, <3>4 DEF Follows, NotesFollow, LinesFollow
  <2> QED
    BY <2>2, <2>3 DEF LoadFollows
<1> QED
  BY <1>2, <1>3 DEF LoadFollows

LEMMA PollGoesOn ==
  ASSUME PollingTypeOK, PollFollows, NEW event, Changes(event), UNCHANGED poll
  PROVE  PollTypes' /\ PollFollows' /\ After' = After
<1>1. Latest \in Nat /\ Latest' = Latest + 1
  BY LogIsNumbered, LogGrows
<1>2. PollTypes'
  <2>1. \A k \in 0..Latest : k \in 0..(Latest')
    BY <1>1
  <2> QED
    BY <2>1 DEF PollingTypeOK, PollTypes
<1>3. After' = After
  BY DEF After
<1>4. ASSUME poll.step \in {"rows", "notes", "answered"}
      PROVE  PollFollows'
  <2>1. PICK k \in Int : k = poll.cursor /\ k <= Latest
    BY <1>1, <1>4, PollMeans
  <2>2. \A i \in DOMAIN poll'.rows : After' + i \in DOMAIN log' /\ poll'.rows[i] = log'[After' + i]
    BY <1>3, <1>4, LogGrows DEF PollFollows
  <2>3. ASSUME poll.step = "notes"
        PROVE  NotesFollow(poll.note, poll.cursor)'
    <3>1. PICK note : note = poll.note
      OBVIOUS
    <3>2. NotesFollow(note, k)
      BY <2>1, <2>3, <3>1 DEF PollFollows
    <3>3. NotesFollow(note, k)'
      BY <2>1, <3>2, FollowsOn
    <3> QED
      BY <2>1, <3>1, <3>3 DEF NotesFollow
  <2>4. ASSUME poll.step = "answered"
        PROVE  Follows(poll.view, poll.cursor)'
    <3>1. PICK note : note = poll.view.note
      OBVIOUS
    <3>2. PICK line : line = poll.view.line
      OBVIOUS
    <3>3. NotesFollow(note, k) /\ LinesFollow(line, k)
      BY <2>1, <2>4, <3>1, <3>2 DEF PollFollows, Follows
    <3>4. NotesFollow(note, k)' /\ LinesFollow(line, k)'
      BY <2>1, <3>3, FollowsOn
    <3> QED
      BY <2>1, <3>1, <3>2, <3>4 DEF Follows, NotesFollow, LinesFollow
  <2> QED
    BY <2>2, <2>3, <2>4 DEF PollFollows
<1> QED
  BY <1>2, <1>3, <1>4 DEF PollFollows
LEMMA SavedGoesOn ==
  ASSUME PollingTypeOK, SavedFollows, NEW event, Changes(event), UNCHANGED saved
  PROVE  SavedTypes' /\ SavedFollows'
<1>1. /\ Latest \in Nat /\ Latest' = Latest + 1 /\ Latest + 1 \in DOMAIN log'
      /\ log'[Latest + 1] = event
      /\ DOMAIN log \subseteq DOMAIN log' /\ \A i \in DOMAIN log : log'[i] = log[i]
  BY LogIsNumbered, LogGrows
<1>2. SavedTypes'
  <2>1. \A k \in 1..Latest : k \in 1..(Latest')
    BY <1>1
  <2> QED
    BY <2>1 DEF PollingTypeOK, SavedTypes
<1>3. ASSUME saved # Idle, saved.version # canvas'.note[saved.note]
      PROVE  \E i \in DOMAIN log' : i > saved.at /\ ChangesNote(log'[i], saved.note)
  <2>1. saved.note \in Notes /\ saved.at \in 1..Latest /\ Latest + 1 > saved.at
    BY <1>1, <1>3, OwnAssumption DEF PollingTypeOK, SavedTypes
  <2>2. CASE canvas'.note[saved.note] = canvas.note[saved.note]
    BY <1>1, <1>3, <2>2 DEF SavedFollows
  <2>3. CASE canvas'.note[saved.note] # canvas.note[saved.note]
    BY <1>1, <2>1, <2>3 DEF Changes
  <2> QED
    BY <2>2, <2>3
<1> QED
  BY <1>2, <1>3 DEF SavedFollows

-----------------------------------------------------------------------------
(* What is read follows the board.                                         *)

LEMMA BoardKeepsReads ==
  ASSUME ReadsFollow, NEW event, Changes(event),
         UNCHANGED <<page, cursor, poll, sync, troubles, history>>, SavedTypes', SavedFollows'
  PROVE  ReadsFollow'
<1>1. PollingTypeOK /\ LogTellsLines /\ LoadFollows /\ PollFollows /\ PollIsAsked
  BY DEF ReadsFollow
<1>2. LogTellsLines' /\ SyncTypes' /\ LoadFollows' /\ PollTypes' /\ PollFollows' /\ After' = After
  BY <1>1, LogGoesOnTelling, LoadGoesOn, PollGoesOn
<1>3. Latest \in Nat /\ Latest' = Latest + 1 /\ log' \in Seq(Event) /\ Latest' <= MaxLog
  BY <1>1, LogIsNumbered, LogGrows
<1>4. canvas' \in View /\ canvas'.line \subseteq Among(canvas'.note)
  BY DEF Changes
<1>5. UNCHANGED <<seen, skipped>>
  BY DEF history
<1>6. \A k \in 0..Latest : k \in 0..(Latest')
  BY <1>3
<1>7. /\ seen' \in {NoCursor} \cup 0..(Latest') /\ cursor' \in {NoCursor, seen'}
      /\ skipped' \in SUBSET (1..(Latest'))
  <2>1. \A k \in 1..Latest : k \in 1..(Latest')
    BY <1>3
  <2> QED
    BY <1>1, <1>5, <1>6, <2>1 DEF PollingTypeOK
<1>8. page' \in View /\ troubles' \in 0..MaxTroubles
  BY <1>1 DEF PollingTypeOK
<1>9. PollIsAsked'
  BY <1>1, <1>2, <1>5, <1>6 DEF PollIsAsked
<1>10. PollingTypeOK'
  BY <1>2, <1>3, <1>4, <1>7, <1>8 DEF PollingTypeOK, Among
<1> QED
  BY <1>2, <1>9, <1>10 DEF ReadsFollow

(* The page takes a step, or notes are given back: what is left to show of *)
(* what it asks for, and of what it has seen.                              *)
LEMMA StepKeepsReads ==
  ASSUME ReadsFollow, Stays,
         SyncTypes' /\ LoadFollows', PollTypes' /\ PollFollows' /\ PollIsAsked',
         SavedTypes' /\ SavedFollows', page' \in View, troubles' \in 0..MaxTroubles,
         seen' \in {NoCursor} \cup 0..Latest, cursor' \in {NoCursor, seen'},
         skipped' \in SUBSET (1..Latest)
  PROVE  ReadsFollow'
<1>1. PollingTypeOK /\ LogTellsLines
  BY DEF ReadsFollow
<1>2. /\ Latest' = Latest /\ LogTellsLines'
      /\ canvas' \in View /\ canvas'.line \subseteq Among(canvas'.note)
      /\ log' \in Seq(Event) /\ Latest' <= MaxLog
  BY <1>1, BoardStays
<1>3. PollingTypeOK'
  BY <1>2 DEF PollingTypeOK, Among
<1> QED
  BY <1>2, <1>3 DEF ReadsFollow

LEMMA LoadKeepsReads ==
  ASSUME ReadsFollow, ReadCursor \/ LoadNotes \/ LoadLines
  PROVE  ReadsFollow'
<1>1. PollingTypeOK /\ LoadFollows /\ PollFollows /\ PollIsAsked /\ SavedFollows
  BY DEF ReadsFollow
<1>2. UNCHANGED <<server, page, cursor, poll, saved, troubles, seen, skipped>>
  BY DEF ReadCursor, LoadNotes, LoadLines, SyncStep, history
<1>3. /\ Stays /\ PollTypes' /\ PollFollows' /\ After' = After
      /\ SavedTypes' /\ SavedFollows'
  BY <1>1, <1>2, PageStepStays, PollStays, SavedStays
<1>4. UNCHANGED log /\ canvas'.note = canvas.note /\ canvas'.line = canvas.line /\ Latest' = Latest
  BY <1>1, <1>3, BoardStays
<1>5. /\ Latest \in Nat /\ canvas.note \in NoteStates /\ canvas.given \in Givings
      /\ canvas.line \in SUBSET Pairs
  BY <1>1, LogIsNumbered DEF PollingTypeOK, View
<1>6. SyncTypes' /\ LoadFollows'
  <2>1. CASE ReadCursor
    <3>1. sync' = [step |-> "cursor", cursor |-> Latest] /\ Latest \in 0..Latest
      BY <1>5, <2>1 DEF ReadCursor, SyncStep
    <3> QED
      BY <1>4, <3>1 DEF SyncTypes, LoadFollows
  <2>2. CASE LoadNotes
    <3>1. sync' = [step |-> "notes", cursor |-> sync.cursor,
                   note |-> canvas.note, given |-> canvas.given]
      BY <2>2 DEF LoadNotes, SyncStep
    <3>2. sync.cursor \in 0..Latest
      BY <1>1, <2>2, SyncMeans DEF LoadNotes, SyncStep
    <3>3. SyncTypes'
      BY <1>4, <1>5, <3>1, <3>2 DEF SyncTypes
    <3>4. sync'.step = "notes" /\ sync'.note = canvas'.note
      BY <1>4, <3>1
    <3> QED
      BY <3>3, <3>4 DEF LoadFollows, NotesFollow
  <2>3. CASE LoadLines
    <3>1. PICK k \in 0..Latest : k = sync.cursor
      BY <1>1, <2>3, SyncMeans DEF LoadLines, SyncStep
    <3>2. PICK note \in NoteStates, given \in Givings : note = sync.note /\ given = sync.given
      BY <1>1, <2>3, SyncMeans DEF LoadLines, SyncStep
    <3>3. PICK line \in SUBSET Pairs : line = canvas.line \cap Among(note)
      BY <1>5
    <3>4. sync' = [step |-> "answered", cursor |-> k,
                   view |-> [note |-> note, given |-> given, line |-> line]]
      BY <2>3, <3>1, <3>2, <3>3 DEF LoadLines, SyncStep
    <3>5. [note |-> note, given |-> given, line |-> line] \in View
      BY <3>2, <3>3 DEF View
    <3>6. SyncTypes'
      BY <1>4, <3>1, <3>4, <3>5 DEF SyncTypes
    <3>7. NotesFollow(note, k)
      BY <1>1, <2>3, <3>1, <3>2 DEF LoadLines, SyncStep, LoadFollows
    <3>8. LinesFollow(line, k)
      <4>1. ASSUME NEW pair \in Pairs, (pair \in line) # (pair \in canvas.line)
            PROVE  \E i \in DOMAIN log : i > k /\ ChangesLine(log[i], pair)
        <5>1. pair \in canvas.line /\ pair \notin Among(note)
          BY <3>3, <4>1
        <5>2. PICK n \in pair : note[n] = Gone
          BY <4>1, <5>1 DEF Among
        <5>3. canvas.note[n] # Gone /\ n \in Notes
          <6>1. pair \subseteq Notes
            BY <4>1 DEF Pairs, kSubset
          <6> QED
            BY <1>1, <5>1, <6>1 DEF PollingTypeOK, Among
        <5>4. PICK i \in DOMAIN log : i > k /\ ChangesNote(log[i], n)
          BY <3>7, <5>2, <5>3 DEF NotesFollow
        <5>5. ChangesLine(log[i], pair)
          BY <5>2, <5>4 DEF ChangesNote, ChangesLine
        <5> QED
          BY <5>4, <5>5
      <4> QED
        BY <4>1 DEF LinesFollow
    <3>9. NotesFollow(note, k)' /\ LinesFollow(line, k)'
      BY <1>4, <3>7, <3>8 DEF NotesFollow, LinesFollow
    <3>10. /\ sync'.step = "answered" /\ sync'.cursor = k
           /\ sync'.view.note = note /\ sync'.view.line = line
      BY <3>4
    <3> QED
      BY <3>6, <3>9, <3>10 DEF LoadFollows, Follows, NotesFollow, LinesFollow
  <2> QED
    BY <2>1, <2>2, <2>3
<1>7. PollIsAsked'
  BY <1>1, <1>2, <1>3, <1>4 DEF PollIsAsked
<1> QED
  BY <1>1, <1>2, <1>3, <1>6, <1>7, StepKeepsReads DEF PollingTypeOK

(* The rows are those after the cursor the poll was asked with.            *)
LEMMA RowsAreRead ==
  ASSUME PollingTypeOK, ReadRows
  PROVE  \E last \in poll.after..Latest, rows \in Seq(Event) :
           /\ poll' = [step |-> "rows", rows |-> rows, cursor |-> last]
           /\ Len(rows) = last - poll.after
           /\ \A i \in DOMAIN rows : poll.after + i \in DOMAIN log /\ rows[i] = log[poll.after + i]
<1>1. poll.step = "asked" /\ poll.after \in 0..Latest /\ Latest \in Nat
  BY PollMeans, LogIsNumbered DEF ReadRows, PollStep
<1>2. PICK a \in Nat : a = poll.after /\ a <= Latest
  BY <1>1
<1>3. PICK last : last = Min({Latest, a + Limit})
  OBVIOUS
<1>4. a + Limit \in Nat /\ a <= a + Limit
  BY LimitAssumption
<1>5. last \in a..Latest /\ last \in Nat
  BY <1>1, <1>2, <1>3, <1>4, MinOfTwo
<1>6. PICK rows : rows = SubSeq(log, a + 1, last)
  OBVIOUS
<1>7. poll' = [step |-> "rows", rows |-> rows, cursor |-> last]
  BY <1>2, <1>3, <1>6 DEF ReadRows, PollStep
<1>8. /\ rows \in Seq(Event) /\ Len(rows) = last - a
      /\ \A i \in 1..(last - a) : rows[i] = log[a + i]
  <2>1. log \in Seq(Event) /\ Len(log) = Latest
    BY LogIsNumbered DEF Latest
  <2>2. \A i \in 1..(last - a) : (a + 1) + i - 1 = a + i
    BY <1>5
  <2>3. CASE last = a
    <3>1. rows = << >>
      BY <1>5, <1>6, <2>1, <2>3, SubSeqProperties
    <3> QED
      BY <1>5, <2>3, <3>1
  <2>4. CASE last # a
    <3>1. PICK m \in Nat : m = a + 1
      OBVIOUS
    <3>2. m \in 1..(Len(log) + 1) /\ last \in (m - 1)..Len(log)
      BY <1>5, <2>1, <2>4, <3>1
    <3>3. /\ rows \in Seq(Event)
          /\ Len(rows) = last - m + 1
          /\ \A i \in 1..(last - m + 1) : rows[i] = log[m + i - 1]
      <4>1. rows = SubSeq(log, m, last)
        BY <1>6, <3>1
      <4> QED
        BY <2>1, <3>2, <4>1, SubSeqProperties
    <3>4. last - m + 1 = last - a
      BY <1>5, <3>1
    <3> QED
      BY <2>2, <3>1, <3>3, <3>4
  <2> QED
    BY <2>3, <2>4
<1>9. DOMAIN rows = 1..(last - a)
  BY <1>8, LenProperties
<1>10. \A i \in DOMAIN rows : a + i \in DOMAIN log /\ rows[i] = log[a + i]
  <2>1. DOMAIN log = 1..Latest
    BY LogIsNumbered
  <2>2. \A i \in 1..(last - a) : a + i \in 1..Latest
    BY <1>1, <1>2, <1>5
  <2> QED
    BY <1>8, <1>9, <2>1, <2>2
<1> QED
  BY <1>2, <1>5, <1>7, <1>8, <1>10

LEMMA PollKeepsReads ==
  ASSUME ReadsFollow, ReadRows \/ ReadNotes \/ ReadLines
  PROVE  ReadsFollow' /\ After' = After
<1>1. PollingTypeOK /\ LoadFollows /\ PollFollows /\ PollIsAsked /\ SavedFollows
  BY DEF ReadsFollow
<1>2. UNCHANGED <<server, page, cursor, sync, saved, troubles, seen, skipped>>
  BY DEF ReadRows, ReadNotes, ReadLines, PollStep, history
<1>3. /\ Stays /\ SyncTypes' /\ LoadFollows' /\ SavedTypes' /\ SavedFollows'
  BY <1>1, <1>2, PageStepStays, LoadStays, SavedStays
<1>4. UNCHANGED log /\ canvas'.note = canvas.note /\ canvas'.line = canvas.line /\ Latest' = Latest
  BY <1>1, <1>3, BoardStays
<1>5. /\ Latest \in Nat /\ canvas.note \in NoteStates /\ canvas.given \in Givings
      /\ canvas.line \in SUBSET Pairs
  BY <1>1, LogIsNumbered DEF PollingTypeOK, View
<1>6. PollTypes' /\ PollFollows' /\ After' = After
  <2>1. CASE ReadRows
    <3>1. poll.step = "asked" /\ poll.after \in 0..Latest
      BY <1>1, <2>1, PollMeans DEF ReadRows, PollStep
    <3>2. PICK a \in 0..Latest : a = poll.after
      BY <3>1
    <3>3. PICK last \in a..Latest, rows \in Seq(Event) :
            /\ poll' = [step |-> "rows", rows |-> rows, cursor |-> last]
            /\ Len(rows) = last - a
            /\ \A i \in DOMAIN rows : a + i \in DOMAIN log /\ rows[i] = log[a + i]
      BY <1>1, <2>1, <3>2, RowsAreRead
    <3>4. last \in 0..Latest /\ last - (last - a) = a
      <4>1. \A m \in Nat : \A k \in 0..m : \A l \in k..m : l \in 0..m /\ l - (l - k) = k
        OBVIOUS
      <4> QED
        BY <1>5, <3>2, <3>3, <4>1
    <3>5. poll'.step = "rows" /\ poll'.rows = rows /\ poll'.cursor = last
      BY <3>3
    <3>6. After = a /\ After' = a
      BY <3>1, <3>2, <3>3, <3>4, <3>5 DEF After
    <3>7. PollTypes'
      BY <1>4, <3>3, <3>4 DEF PollTypes
    <3>8. PollFollows'
      BY <1>4, <3>3, <3>5, <3>6 DEF PollFollows
    <3> QED
      BY <3>6, <3>7, <3>8
  <2>2. CASE ReadNotes
    <3>1. /\ poll.step = "rows" /\ poll.cursor \in 0..Latest /\ poll.rows \in Seq(Event)
          /\ poll' = [step |-> "notes", rows |-> poll.rows, cursor |-> poll.cursor,
                      note |-> canvas.note, given |-> canvas.given]
      BY <1>1, <2>2, PollMeans DEF ReadNotes, PollStep
    <3>2. /\ poll'.step = "notes" /\ poll'.rows = poll.rows /\ poll'.cursor = poll.cursor
          /\ poll'.note = canvas'.note
      BY <1>4, <3>1
    <3>3. After' = After
      BY <3>1, <3>2 DEF After
    <3>4. PollTypes'
      BY <1>4, <1>5, <3>1 DEF PollTypes
    <3>5. \A i \in DOMAIN poll.rows : After + i \in DOMAIN log /\ poll.rows[i] = log[After + i]
      BY <1>1, <3>1 DEF PollFollows
    <3>6. PollFollows'
      BY <1>4, <3>2, <3>3, <3>5 DEF PollFollows, NotesFollow
    <3> QED
      BY <3>3, <3>4, <3>6
  <2>3. CASE ReadLines
    <3>1. /\ poll.step = "notes" /\ poll.cursor \in 0..Latest /\ poll.rows \in Seq(Event)
          /\ poll.note \in NoteStates /\ poll.given \in Givings
          /\ poll' = [step |-> "answered", rows |-> poll.rows, cursor |-> poll.cursor,
                      view |-> [note |-> poll.note, given |-> poll.given, line |-> canvas.line]]
      BY <1>1, <2>3, PollMeans DEF ReadLines, PollStep
    <3>2. /\ poll'.step = "answered" /\ poll'.rows = poll.rows /\ poll'.cursor = poll.cursor
          /\ poll'.view.note = poll.note /\ poll'.view.line = canvas'.line
      BY <1>4, <3>1
    <3>3. After' = After
      BY <3>1, <3>2 DEF After
    <3>4. [note |-> poll.note, given |-> poll.given, line |-> canvas.line] \in View
      BY <1>5, <3>1 DEF View
    <3>5. PollTypes'
      BY <1>4, <3>1, <3>4 DEF PollTypes
    <3>6. /\ \A i \in DOMAIN poll.rows : After + i \in DOMAIN log /\ poll.rows[i] = log[After + i]
          /\ NotesFollow(poll.note, poll.cursor)
      BY <1>1, <3>1 DEF PollFollows
    <3>7. PollFollows'
      BY <1>4, <3>2, <3>3, <3>6 DEF PollFollows, Follows, NotesFollow, LinesFollow
    <3> QED
      BY <3>3, <3>5, <3>7
  <2> QED
    BY <2>1, <2>2, <2>3
<1>7. PollIsAsked'
  <2>1. poll.step \in {"asked", "rows", "notes"}
    BY DEF ReadRows, ReadNotes, ReadLines, PollStep
  <2> QED
    BY <1>1, <1>2, <1>4, <1>6, <2>1 DEF PollIsAsked
<1> QED
  BY <1>1, <1>2, <1>3, <1>6, <1>7, StepKeepsReads DEF PollingTypeOK

LEMMA BoardStepReads ==
  ASSUME ReadsFollow,
         \/ \E n \in Notes : ChangeNote(n)
         \/ \E pair \in Pairs : DrawLine(pair) \/ EraseLine(pair)
         \/ ChangeCanvas
  PROVE  /\ \E event : Changes(event)
         /\ UNCHANGED <<page, history>>
         /\ ReadsFollow'
<1>1. PollingTypeOK /\ SavedFollows
  BY DEF ReadsFollow
<1>2. UNCHANGED <<page, cursor, poll, sync, saved, troubles, history>>
  BY DEF ChangeNote, DrawLine, EraseLine, ChangeCanvas
<1>3. PICK event : Changes(event)
  <2>1. ASSUME NEW n \in Notes, ChangeNote(n)
        PROVE  \E event : Changes(event)
    BY <1>1, <2>1, NoteChanges DEF ChangeNote
  <2> QED
    BY <1>1, <2>1, LineChanges, AllChanges
<1>4. SavedTypes' /\ SavedFollows'
  BY <1>1, <1>2, <1>3, SavedGoesOn
<1> QED
  BY <1>2, <1>3, <1>4, BoardKeepsReads

LEMMA OwnStepReads ==
  ASSUME ReadsFollow, NEW n \in Own, ChangeOwn(n)
  PROVE  /\ \E event : Changes(event)
         /\ UNCHANGED <<page, history>>
         /\ ReadsFollow'
<1>1. PollingTypeOK /\ n \in Notes
  BY OwnAssumption DEF ReadsFollow
<1>2. PICK version \in {Gone, Latest + 1} :
        /\ NoteBecomes(n, version)
        /\ saved' = [note |-> n, version |-> version, given |-> canvas.given[n], at |-> Latest + 1]
  BY DEF ChangeOwn
<1>3. PICK event : event = [target |-> "node", note |-> n]
  OBVIOUS
<1>4. Changes(event) /\ version \in {Gone} \cup 0..MaxLog
  BY <1>1, <1>2, <1>3, NoteChanges
<1>5. UNCHANGED <<page, cursor, poll, sync, troubles, history>>
  BY DEF ChangeOwn
<1>6. SavedTypes'
  <2>1. canvas.given[n] \in 0..MaxGiven
    BY <1>1 DEF PollingTypeOK, View, Givings
  <2>2. Latest + 1 \in 1..(Latest')
    BY <1>1, <1>4, LogIsNumbered, LogGrows
  <2> QED
    BY <1>2, <1>4, <2>1, <2>2 DEF SavedTypes
<1>7. SavedFollows'
  <2>1. canvas'.note[n] = version
    <3>1. canvas.note \in NoteStates /\ canvas \in View
      BY <1>1 DEF PollingTypeOK, View
    <3> QED
      BY <1>1, <1>2, <3>1 DEF NoteBecomes, Changed, View, NoteStates
  <2> QED
    BY <1>2, <2>1 DEF SavedFollows
<1> QED
  BY <1>4, <1>5, <1>6, <1>7, BoardKeepsReads

(* Notes go back to their authors.                                         *)
LEMMA ReturnStepReads ==
  ASSUME ReadsFollow, ReturnNotes
  PROVE  Stays /\ UNCHANGED <<page, history>> /\ ReadsFollow'
<1>1. PollingTypeOK /\ LoadFollows /\ PollFollows /\ PollIsAsked /\ SavedFollows
  BY DEF ReadsFollow
<1>2. UNCHANGED <<page, cursor, poll, sync, saved, troubles, history, seen, skipped>>
  BY DEF ReturnNotes, history
<1>3. /\ Stays /\ SyncTypes' /\ LoadFollows' /\ SavedTypes' /\ SavedFollows'
      /\ PollTypes' /\ PollFollows' /\ After' = After /\ Latest' = Latest
  BY <1>1, <1>2, ReturnStays, LoadStays, PollStays, SavedStays, BoardStays
<1>4. PollIsAsked'
  BY <1>1, <1>2, <1>3 DEF PollIsAsked
<1> QED
  BY <1>1, <1>2, <1>3, <1>4, StepKeepsReads DEF PollingTypeOK

(* A load, a poll or a change made here ends, or one is asked for.         *)
LEMMA PageStepReads ==
  ASSUME ReadsFollow,
         ShowLoad \/ Tick \/ ShowPoll \/ ShowOwn \/ LoadFails \/ Reload \/ PollFails
  PROVE  ReadsFollow'
<1>1. PollingTypeOK /\ LoadFollows /\ PollFollows /\ PollIsAsked /\ SavedFollows
  BY DEF ReadsFollow
<1>2. UNCHANGED server
  BY DEF ShowLoad, Tick, ShowPoll, ShowOwn, LoadFails, Reload, PollFails
<1>3. Stays /\ Latest' = Latest /\ Latest \in Nat
  BY <1>1, <1>2, PageStepStays, BoardStays, LogIsNumbered
<1>4. SyncTypes' /\ LoadFollows'
  <2>1. CASE UNCHANGED sync
    BY <1>1, <1>3, <2>1, LoadStays
  <2>2. CASE sync' = Idle \/ sync' = [step |-> "asked"]
    BY <2>2 DEF SyncTypes, LoadFollows, Idle
  <2> QED
    BY <2>1, <2>2 DEF ShowLoad, Tick, ShowPoll, ShowOwn, LoadFails, Reload, PollFails, LoadInstead
<1>5. /\ seen' \in {NoCursor} \cup 0..Latest /\ cursor' \in {NoCursor, seen'}
      /\ seen # NoCursor => seen' # NoCursor
  <2>1. seen \in {NoCursor} \cup 0..Latest /\ cursor \in {NoCursor, seen}
    BY <1>1 DEF PollingTypeOK
  <2>2. CASE ShowLoad
    BY <1>1, <1>3, <2>2, SyncMeans DEF ShowLoad, NoCursor
  <2>3. CASE ShowPoll
    BY <1>1, <1>3, <2>3, PollMeans DEF ShowPoll, NoCursor
  <2> QED
    BY <2>1, <2>2, <2>3 DEF Tick, ShowOwn, LoadFails, Reload, PollFails, history
<1>6. PollTypes' /\ PollFollows' /\ PollIsAsked'
  <2>1. CASE UNCHANGED poll
    BY <1>1, <1>3, <1>5, <2>1, PollStays DEF PollIsAsked
  <2>2. CASE poll' = Idle \/ poll' = [step |-> "loading"]
    BY <2>2 DEF PollTypes, PollFollows, PollIsAsked, Idle
  <2>3. CASE Tick /\ cursor # NoCursor /\ poll' = [step |-> "asked", after |-> cursor]
    <3>1. cursor = seen /\ cursor \in 0..(Latest') /\ seen' = seen
      BY <1>1, <1>3, <2>3 DEF PollingTypeOK, Tick, history
    <3>2. After' = cursor
      BY <2>3 DEF After
    <3> QED
      BY <2>3, <3>1, <3>2 DEF PollTypes, PollFollows, PollIsAsked
  <2> QED
    BY <2>1, <2>2, <2>3
       DEF ShowLoad, Tick, ShowPoll, ShowOwn, LoadFails, Reload, PollFails, PollOver, LoadInstead
<1>7. page' \in View
  <2>1. CASE ShowLoad
    BY <1>1, <2>1, SyncMeans DEF ShowLoad
  <2>2. CASE ShowPoll
    <3>1. poll.view \in View /\ poll.rows \in Seq(Event) /\ page \in View
      BY <1>1, <2>2, PollMeans DEF ShowPoll, PollingTypeOK
    <3> QED
      BY <2>2, <3>1, ShownIsView DEF ShowPoll
  <2>3. CASE ShowOwn
    <3>1. /\ page.note \in NoteStates /\ page.given \in Givings /\ page.line \in SUBSET Pairs
          /\ saved.note \in Notes /\ saved.version \in {Gone} \cup 0..MaxLog
          /\ saved.given \in 0..MaxGiven
      BY <1>1, <2>3, OwnAssumption DEF ShowOwn, PollingTypeOK, SavedTypes, View
    <3>2. PICK note : note = [page.note EXCEPT ![saved.note] = saved.version]
      OBVIOUS
    <3>3. PICK line : line = IF saved.version = Gone THEN page.line \ At(saved.note) ELSE page.line
      OBVIOUS
    <3>4. PICK given : given = [page.given EXCEPT ![saved.note] = saved.given]
      OBVIOUS
    <3>5. note \in NoteStates /\ given \in Givings
      BY <3>1, <3>2, <3>4 DEF NoteStates, Givings
    <3>6. line \in SUBSET Pairs
      BY <3>1, <3>3
    <3>7. page' = [note |-> note, given |-> given, line |-> line]
      BY <2>3, <3>2, <3>3, <3>4 DEF ShowOwn
    <3> QED
      BY <3>5, <3>6, <3>7 DEF View
  <2>4. CASE UNCHANGED page
    BY <1>1, <2>4 DEF PollingTypeOK
  <2> QED
    BY <2>1, <2>2, <2>3, <2>4 DEF Tick, LoadFails, Reload, PollFails
<1>8. skipped' \in SUBSET (1..Latest)
  <2>1. skipped \in SUBSET (1..Latest) /\ seen \in {NoCursor} \cup 0..Latest
    BY <1>1 DEF PollingTypeOK
  <2>2. CASE ShowLoad
    BY <2>2 DEF ShowLoad
  <2>3. CASE ShowPoll
    <3>1. /\ poll.cursor \in 0..Latest /\ After \in 0..Latest /\ seen \in 0..Latest
      BY <1>1, <2>1, <2>3, PollMeans DEF ShowPoll, PollIsAsked
    <3>2. (seen + 1)..poll.cursor \subseteq 1..Latest /\ (seen + 1)..After \subseteq 1..Latest
      BY <1>3, <3>1
    <3> QED
      BY <2>1, <2>3, <3>2 DEF ShowPoll
  <2>4. CASE ShowOwn
    <3>1. saved.at \in 1..Latest
      BY <1>1, <2>4 DEF ShowOwn, PollingTypeOK, SavedTypes
    <3>2. (saved.at + 1)..seen \subseteq 1..Latest
      BY <1>3, <2>1, <3>1 DEF NoCursor
    <3> QED
      BY <2>1, <2>4, <3>2 DEF ShowOwn
  <2> QED
    BY <2>1, <2>2, <2>3, <2>4 DEF Tick, LoadFails, Reload, PollFails, history
<1>9. SavedTypes' /\ SavedFollows'
  <2>1. CASE UNCHANGED saved
    BY <1>1, <1>3, <2>1, SavedStays
  <2>2. CASE saved' = Idle
    BY <2>2 DEF SavedTypes, SavedFollows
  <2> QED
    BY <2>1, <2>2 DEF ShowLoad, Tick, ShowPoll, ShowOwn, LoadFails, Reload, PollFails
<1>10. troubles' \in 0..MaxTroubles
  <2>1. troubles \in 0..MaxTroubles /\ MaxTroubles \in Nat
    BY <1>1, BoundAssumption DEF PollingTypeOK
  <2>2. CASE UNCHANGED troubles
    BY <2>1, <2>2
  <2>3. CASE Trouble
    BY <2>1, <2>3 DEF Trouble
  <2> QED
    BY <2>2, <2>3 DEF ShowLoad, Tick, ShowPoll, ShowOwn, LoadFails, Reload, PollFails
<1> QED
  BY <1>3, <1>4, <1>5, <1>6, <1>7, <1>8, <1>9, <1>10, StepKeepsReads

LEMMA ReadsGoOn == PollingSpec => []ReadsFollow
<1>1. PollingInit => ReadsFollow
  <2> SUFFICES ASSUME PollingInit PROVE ReadsFollow
    OBVIOUS
  <2>1. MaxLog \in Nat /\ MaxGiven \in Nat /\ MaxTroubles \in Nat
    BY BoundAssumption
  <2>2. Blank \in View /\ [n \in Notes |-> 0] \in Givings
    BY <2>1 DEF View, NoteStates, Givings, Blank
  <2>3. PICK there \in SUBSET Notes :
          canvas = [note |-> [n \in Notes |-> IF n \in there THEN 0 ELSE Gone],
                    given |-> [n \in Notes |-> 0], line |-> {}]
    BY DEF PollingInit, Blank
  <2>4. [n \in Notes |-> IF n \in there THEN 0 ELSE Gone] \in NoteStates
    BY <2>1 DEF NoteStates
  <2>5. canvas \in View /\ canvas.line \subseteq Among(canvas.note)
    BY <2>2, <2>3, <2>4 DEF View
  <2>6. log = <<>> /\ Latest = 0 /\ log \in Seq(Event) /\ DOMAIN log = {}
    BY DEF PollingInit, Latest
  <2>7. PollingTypeOK
    BY <2>1, <2>2, <2>5, <2>6
       DEF PollingInit, PollingTypeOK, PollTypes, SyncTypes, SavedTypes, Idle, NoCursor
  <2>8. LogTellsLines /\ LoadFollows /\ PollFollows /\ PollIsAsked /\ SavedFollows
    BY <2>6
       DEF PollingInit, LogTellsLines, LoadFollows, PollFollows, PollIsAsked, SavedFollows, Idle
  <2> QED
    BY <2>7, <2>8 DEF ReadsFollow
<1>2. ReadsFollow /\ [PollingNext]_pollingVars => ReadsFollow'
  <2> SUFFICES ASSUME ReadsFollow, [PollingNext]_pollingVars
               PROVE  ReadsFollow'
    OBVIOUS
  <2>1. CASE PollingNext
    <3>1. ASSUME NEW n \in Own, ChangeOwn(n)
          PROVE  ReadsFollow'
      BY <3>1, OwnStepReads
    <3> QED
      BY <2>1, <3>1, BoardStepReads, ReturnStepReads, LoadKeepsReads, PollKeepsReads, PageStepReads
         DEF PollingNext, Browser
  <2>2. CASE UNCHANGED pollingVars
    <3>1. UNCHANGED server /\ UNCHANGED <<page, cursor, poll, sync, saved, troubles, seen, skipped>>
      BY <2>2 DEF pollingVars, history
    <3>2. PollingTypeOK /\ LoadFollows /\ PollFollows /\ PollIsAsked /\ SavedFollows
      BY DEF ReadsFollow
    <3>3. /\ Stays /\ SyncTypes' /\ LoadFollows' /\ PollTypes' /\ PollFollows' /\ After' = After
          /\ SavedTypes' /\ SavedFollows' /\ Latest' = Latest
      BY <3>1, <3>2, PageStepStays, LoadStays, PollStays, SavedStays, BoardStays
    <3>4. PollIsAsked'
      BY <3>1, <3>2, <3>3 DEF PollIsAsked
    <3> QED
      BY <3>1, <3>2, <3>3, <3>4, StepKeepsReads DEF PollingTypeOK
  <2> QED
    BY <2>1, <2>2
<1> QED
  BY <1>1, <1>2, PTL DEF PollingSpec

(* Types of the polling state: the canvas holds lines only between notes   *)
(* that are on it, a cursor never passes the log, and every request under  *)
(* way carries notes, lines and rows that the board can have had.          *)
THEOREM PollingTypes == PollingSpec => []PollingTypeOK
<1>1. ReadsFollow => PollingTypeOK
  BY DEF ReadsFollow
<1> QED
  BY <1>1, ReadsGoOn, PTL
-----------------------------------------------------------------------------
(* What the page shows is wrong only about changes it need not show.       *)

LEMMA NotShownIsLogged ==
  ASSUME PollingTypeOK, seen # NoCursor
  PROVE  /\ seen \in 0..Latest /\ Latest \in Nat /\ DOMAIN log = 1..Latest
         /\ NotShown \in SUBSET DOMAIN log
<1>1. seen \in 0..Latest /\ Latest \in Nat /\ DOMAIN log = 1..Latest /\ skipped \in SUBSET (1..Latest)
  BY LogIsNumbered DEF PollingTypeOK
<1>2. (seen + 1)..Latest \subseteq 1..Latest
  BY <1>1
<1> QED
  BY <1>1, <1>2 DEF NotShown

(* A change of the board is one that the page has still to poll.           *)
LEMMA BoardKeepsPage ==
  ASSUME PollingInv, NEW event, Changes(event), UNCHANGED <<page, history>>
  PROVE  PageFollows'
<1>1. PollingTypeOK /\ PageFollows
  BY DEF PollingInv, ReadsFollow
<1>2. UNCHANGED <<page, seen, skipped>> /\ Latest' = Latest + 1
  BY <1>1, LogGrows DEF history
<1>3. ASSUME seen # NoCursor
      PROVE  Within(page, NotShown)'
  <2>1. PICK S \in SUBSET DOMAIN log : S = NotShown /\ Within(page, S)
    BY <1>1, <1>3, NotShownIsLogged DEF PageFollows
  <2>2. PICK T : T = NotShown'
    OBVIOUS
  <2>3. S \subseteq T /\ Latest + 1 \in T
    <3>1. T = (seen + 1)..(Latest + 1) \cup skipped
      BY <1>2, <2>2 DEF NotShown
    <3> QED
      BY <1>1, <1>3, <2>1, <3>1, NotShownIsLogged DEF NotShown
  <2>4. PICK note : note = page.note
    OBVIOUS
  <2>5. PICK line : line = page.line
    OBVIOUS
  <2>6. NotesWithin(note, S) /\ LinesWithin(line, S)
    BY <2>1, <2>4, <2>5 DEF Within
  <2>7. NotesWithin(note, T)' /\ LinesWithin(line, T)'
    BY <1>1, <2>3, <2>6, WithinGoesOn
  <2> QED
    BY <1>2, <2>2, <2>4, <2>5, <2>7 DEF Within, NotesWithin, LinesWithin
<1> QED
  BY <1>2, <1>3 DEF PageFollows

(* Reading changes nothing of what is shown, and giving notes back changes *)
(* nothing that the log tells of.                                          *)
LEMMA StepKeepsPage ==
  ASSUME PollingInv, Stays, UNCHANGED <<page, history>>
  PROVE  PageFollows'
<1>1. PollingTypeOK /\ PageFollows
  BY DEF PollingInv, ReadsFollow
<1>2. UNCHANGED <<page, log, seen, skipped>> /\ Latest' = Latest
  BY <1>1, BoardStays DEF history
<1>3. canvas'.note = canvas.note /\ canvas'.line = canvas.line
  BY <1>1, BoardStays
<1>4. NotShown' = NotShown
  BY <1>2 DEF NotShown
<1> QED
  BY <1>1, <1>2, <1>3, <1>4 DEF PageFollows, Within, NotesWithin, LinesWithin

(* A load that is shown is wrong only about what came after its cursor.    *)
LEMMA ShowLoadKeepsPage ==
  ASSUME PollingInv, ShowLoad
  PROVE  PageFollows'
<1>1. PollingTypeOK /\ LoadFollows
  BY DEF PollingInv, ReadsFollow
<1>2. /\ sync.step = "answered" /\ page' = sync.view /\ seen' = sync.cursor /\ skipped' = {}
      /\ UNCHANGED <<canvas, log>> /\ Latest' = Latest
  BY DEF ShowLoad, server, Latest
<1>3. PICK k \in 0..Latest : k = sync.cursor
  BY <1>1, <1>2, SyncMeans
<1>4. PICK view : view = sync.view
  OBVIOUS
<1>5. Follows(view, k)
  BY <1>1, <1>2, <1>3, <1>4 DEF LoadFollows
<1>6. NotShown' = (k + 1)..Latest
  BY <1>2, <1>3 DEF NotShown
<1>7. \A i \in DOMAIN log : i > k => i \in (k + 1)..Latest
  BY <1>1, <1>3, LogIsNumbered
<1>8. PICK T : T = NotShown'
  OBVIOUS
<1>9. Within(view, T)
  BY <1>5, <1>6, <1>7, <1>8 DEF Follows, NotesFollow, LinesFollow, Within, NotesWithin, LinesWithin
<1> QED
  BY <1>2, <1>4, <1>8, <1>9 DEF PageFollows, Within, NotesWithin, LinesWithin

(* What a poll shows, or leaves to a load: the changes that are passed by  *)
(* are those between what the page had seen and what was asked for.        *)
LEMMA ShowPollKeepsPage ==
  ASSUME PollingInv, ShowPoll
  PROVE  PageFollows'
<1>1. PollingTypeOK /\ LogTellsLines /\ PollFollows /\ PollIsAsked /\ PageFollows
  BY DEF PollingInv, ReadsFollow
<1>2. /\ poll.step = "answered" /\ seen' = poll.cursor
      /\ UNCHANGED <<canvas, log>> /\ Latest' = Latest
  BY DEF ShowPoll, server, Latest
<1>3. /\ poll.cursor \in 0..Latest /\ poll.rows \in Seq(Event) /\ poll.view \in View
      /\ seen # NoCursor /\ After \in 0..Latest
  BY <1>1, <1>2, PollMeans DEF PollIsAsked
<1>4. /\ seen \in 0..Latest /\ Latest \in Nat /\ DOMAIN log = 1..Latest
      /\ NotShown \in SUBSET DOMAIN log
  BY <1>1, <1>3, NotShownIsLogged
<1>5. PICK S \in SUBSET DOMAIN log : S = NotShown /\ Within(page, S)
  BY <1>1, <1>3, <1>4 DEF PageFollows
<1>6. PICK k \in 0..Latest : k = poll.cursor
  BY <1>3
<1>7. PICK T : T = NotShown'
  OBVIOUS
<1>8. T = (k + 1)..Latest \cup skipped'
  BY <1>2, <1>6, <1>7 DEF NotShown
<1>9. PICK view : view = page'
  OBVIOUS
<1>10. Within(view, T)
  <2>1. CASE NeedsLoad(poll.rows)
    <3>1. view = page /\ skipped' = skipped \cup (seen + 1)..k
      BY <1>6, <1>9, <2>1 DEF ShowPoll
    <3>2. \A i \in (seen + 1)..Latest : i \in (seen + 1)..k \/ i \in (k + 1)..Latest
      BY <1>4, <1>6
    <3>3. S \subseteq T
      BY <1>5, <1>8, <3>1, <3>2 DEF NotShown
    <3> QED
      BY <1>5, <3>1, <3>3 DEF Within, NotesWithin, LinesWithin
  <2>2. CASE ~NeedsLoad(poll.rows)
    <3>1. PICK rows \in Seq(Event), read \in View, a \in Nat :
            rows = poll.rows /\ read = poll.view /\ a = After /\ a <= Latest
      BY <1>3
    <3>2. a + Len(rows) = k
      <4>1. Len(rows) \in Nat
        BY LenProperties
      <4>2. a = k - Len(rows)
        BY <1>2, <1>6, <3>1 DEF After
      <4> QED
        BY <4>1, <4>2
    <3>3. view = Shown(rows, read)
      BY <1>9, <2>2, <3>1 DEF ShowPoll
    <3>4. skipped' = (skipped \cup (seen + 1)..a) \ ((a + 1)..k)
      BY <1>6, <2>2, <3>1 DEF ShowPoll
    <3>5. /\ \A i \in DOMAIN rows : a + i \in DOMAIN log /\ rows[i] = log[a + i]
          /\ Follows(read, k)
      BY <1>1, <1>2, <1>6, <3>1 DEF PollFollows
    <3>6. PICK U : U = {j \in S : j \notin (a + 1)..k} \cup {j \in DOMAIN log : j > k}
      OBVIOUS
    <3>7. Within(view, U)
      <4>1. Follows(read, a + Len(rows)) /\ ~NeedsLoad(rows)
        BY <2>2, <3>1, <3>2, <3>5
      <4>2. Within(Shown(rows, read), {j \in S : j \notin (a + 1)..(a + Len(rows))} \cup
                                      {j \in DOMAIN log : j > a + Len(rows)})
        BY <1>1, <1>5, <3>5, <4>1, ShownFollows
      <4> QED
        BY <3>2, <3>3, <3>6, <4>2
    <3>8. \A j \in U : j \in T
      <4>1. \A j \in (seen + 1)..Latest : j \in (seen + 1)..a \/ j \in (a + 1)..k \/ j \in (k + 1)..Latest
        BY <1>4, <1>6, <3>1
      <4>2. \A j \in DOMAIN log : j > k => j \in (k + 1)..Latest
        BY <1>4, <1>6
      <4> QED
        BY <1>5, <1>8, <3>4, <3>6, <4>1, <4>2 DEF NotShown
    <3> QED
      BY <3>7, <3>8 DEF Within, NotesWithin, LinesWithin
  <2> QED
    BY <2>1, <2>2
<1> QED
  BY <1>2, <1>7, <1>9, <1>10 DEF PageFollows, Within, NotesWithin, LinesWithin

(* The answer to a change made here is older than the board only if the    *)
(* note was changed again, which is still to be polled or passed by.  The  *)
(* same change tells of the lines at the note.                             *)
LEMMA ShowOwnKeepsPage ==
  ASSUME PollingInv, ShowOwn
  PROVE  PageFollows'
<1>1. PollingTypeOK /\ SavedFollows /\ PageFollows
  BY DEF PollingInv, ReadsFollow
<1>2. saved # Idle /\ UNCHANGED <<canvas, log, seen>> /\ Latest' = Latest
  BY DEF ShowOwn, server, Latest
<1>3. ASSUME seen # NoCursor
      PROVE  Within(page, NotShown)'
  <2>1. PICK S \in SUBSET DOMAIN log : S = NotShown /\ Within(page, S)
    BY <1>1, <1>3, NotShownIsLogged DEF PageFollows
  <2>2. PICK T : T = NotShown'
    OBVIOUS
  <2>3. PICK n \in Notes, at \in Nat : n = saved.note /\ at = saved.at
    BY <1>1, <1>2, OwnAssumption DEF PollingTypeOK, SavedTypes
  <2>4. T = (seen + 1)..Latest \cup skipped \cup {i \in (at + 1)..seen : ChangesNote(log[i], n)}
    BY <1>2, <2>2, <2>3 DEF NotShown, ShowOwn
  <2>5. S \subseteq T
    BY <2>1, <2>4 DEF NotShown
  <2>6. \A i \in DOMAIN log : i > at /\ ChangesNote(log[i], n) => i \in T
    <3>1. \A i \in DOMAIN log : i > at => i \in (at + 1)..seen \/ i \in (seen + 1)..Latest
      BY <1>1, <1>3, NotShownIsLogged
    <3> QED
      BY <2>4, <3>1
  <2>7. saved.version # canvas.note[n] => \E i \in T : ChangesNote(log[i], n)
    BY <1>1, <1>2, <2>3, <2>6 DEF SavedFollows
  <2>8. page.note \in NoteStates /\ canvas.line \subseteq Among(canvas.note)
    BY <1>1 DEF PollingTypeOK, View
  <2>9. /\ page'.note = [page.note EXCEPT ![n] = saved.version]
        /\ page'.line = IF saved.version = Gone THEN page.line \ At(n) ELSE page.line
    BY <2>3 DEF ShowOwn
  <2>10. ASSUME NEW m \in Notes, page'.note[m] # canvas.note[m]
         PROVE  \E i \in T : ChangesNote(log[i], m)
    <3>1. CASE m = n
      BY <2>7, <2>8, <2>9, <2>10, <3>1 DEF NoteStates
    <3>2. CASE m # n
      <4>1. page.note[m] # canvas.note[m]
        BY <2>8, <2>9, <2>10, <3>2 DEF NoteStates
      <4> QED
        BY <2>1, <2>5, <4>1 DEF Within, NotesWithin
    <3> QED
      BY <3>1, <3>2
  <2>11. ASSUME NEW pair \in Pairs, (pair \in page'.line) # (pair \in canvas.line)
         PROVE  \E i \in T : ChangesLine(log[i], pair)
    <3>1. CASE (pair \in page.line) # (pair \in canvas.line)
      BY <2>1, <2>5, <3>1 DEF Within, LinesWithin
    <3>2. CASE (pair \in page.line) = (pair \in canvas.line)
      <4>1. saved.version = Gone /\ n \in pair /\ pair \in canvas.line
        BY <2>9, <2>11, <3>2 DEF At
      <4>2. canvas.note[n] # Gone
        BY <2>8, <4>1 DEF Among
      <4>3. PICK i \in T : ChangesNote(log[i], n)
        BY <2>7, <4>1, <4>2
      <4>4. ChangesLine(log[i], pair)
        BY <4>1, <4>3 DEF ChangesNote, ChangesLine
      <4> QED
        BY <4>4
    <3> QED
      BY <3>1, <3>2
  <2> QED
    BY <1>2, <2>2, <2>10, <2>11 DEF Within, NotesWithin, LinesWithin
<1> QED
  BY <1>2, <1>3 DEF PageFollows

(* A page that has loaded shows wrongly only what a change it has still to *)
(* poll, or one that was passed by, has changed, however the queries of    *)
(* its loads and polls fall between the changes of the board, and however  *)
(* its requests overlap and fail.                                          *)
THEOREM NoOtherChangeIsMissed == PollingSpec => []NothingElseIsMissed
<1>1. PollingInit => PageFollows
  BY DEF PollingInit, PageFollows
<1>2. ReadsFollow /\ PageFollows /\ [PollingNext]_pollingVars => PageFollows'
  <2> SUFFICES ASSUME ReadsFollow, PageFollows, [PollingNext]_pollingVars
               PROVE  PageFollows'
    OBVIOUS
  <2>1. PollingInv /\ PollingTypeOK
    BY DEF PollingInv, ReadsFollow
  <2>2. CASE PollingNext
    <3>1. ASSUME \/ \E n \in Notes : ChangeNote(n)
                 \/ \E pair \in Pairs : DrawLine(pair) \/ EraseLine(pair)
                 \/ ChangeCanvas
                 \/ \E n \in Own : ChangeOwn(n)
          PROVE  PageFollows'
      <4>1. (\E event : Changes(event)) /\ UNCHANGED <<page, history>>
        BY <3>1, BoardStepReads, OwnStepReads
      <4> QED
        BY <2>1, <4>1, BoardKeepsPage
    <3>2. CASE ReturnNotes
      BY <2>1, <3>2, ReturnStepReads, StepKeepsPage
    <3>3. ASSUME \/ ReadCursor \/ LoadNotes \/ LoadLines \/ Tick
                 \/ ReadRows \/ ReadNotes \/ ReadLines
                 \/ LoadFails \/ Reload \/ PollFails
          PROVE  PageFollows'
      <4>1. UNCHANGED <<server, page, history>>
        BY <3>3 DEF ReadCursor, LoadNotes, LoadLines, SyncStep, Tick, ReadRows, ReadNotes,
                    ReadLines, PollStep, LoadFails, Reload, PollFails
      <4> QED
        BY <2>1, <4>1, PageStepStays, StepKeepsPage
    <3> QED
      BY <2>1, <2>2, <3>1, <3>2, <3>3, ShowLoadKeepsPage, ShowPollKeepsPage, ShowOwnKeepsPage
         DEF PollingNext, Browser
  <2>3. CASE UNCHANGED pollingVars
    <3>1. UNCHANGED server /\ UNCHANGED <<page, history>>
      BY <2>3 DEF pollingVars
    <3> QED
      BY <2>1, <3>1, PageStepStays, StepKeepsPage
  <2> QED
    BY <2>2, <2>3
<1>3. PageFollows => NothingElseIsMissed
  BY DEF PageFollows, Within, NotesWithin, LinesWithin, NothingElseIsMissed
<1> QED
  BY <1>1, <1>2, <1>3, ReadsGoOn, PTL DEF PollingSpec
=============================================================================
