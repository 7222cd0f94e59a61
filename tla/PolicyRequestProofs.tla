------------------------ MODULE PolicyRequestProofs ------------------------
(***************************************************************************)
(* Proofs about PolicyRequest, for any list of changes, any number of API  *)
(* calls at the same time, and every bound.                                *)
(***************************************************************************)
EXTENDS PolicyRequest, FiniteSetTheorems, TLAPS

-----------------------------------------------------------------------------
(* A finite set that is not empty has a least and a greatest number. *)
LEMMA MinInSet ==
  ASSUME NEW S \in SUBSET Nat, S # {}, IsFiniteSet(S)
  PROVE  Min(S) \in S
<1> DEFINE Below(x) == {y \in S : y < x}
           T == {Below(x) : x \in S}
           R == StrictSubsetOrdering(S)
<1>1. IsWellFoundedOn(R, SUBSET S)
  BY FS_StrictSubsetOrderingWellFounded, FS_FiniteSubsetsOfFinite
<1>2. T \subseteq SUBSET S /\ T # {}
  OBVIOUS
<1>3. PICK t \in T : \A s \in T : ~(<<s, t>> \in R)
  <2> HIDE DEF T, R
  <2> QED BY <1>1, <1>2, WFMin
<1>4. PICK x \in S : t = Below(x)
  OBVIOUS
<1>5. ASSUME NEW y \in S, y < x PROVE FALSE
  <2>1. ASSUME NEW z \in Below(y) PROVE z \in Below(x)
    <3>1. z \in Nat /\ y \in Nat /\ x \in Nat /\ z < y
      BY <2>1
    <3>2. z < x
      BY <1>5, <3>1
    <3> QED BY <2>1, <3>2
  <2>2. y \in Below(x) /\ y \notin Below(y)
    BY <1>5
  <2>3. <<Below(y), Below(x)>> \in R
    BY <2>1, <2>2 DEF StrictSubsetOrdering
  <2> QED BY <1>3, <1>4, <2>3
<1>6. \A y \in S : x =< y
  BY <1>5
<1> QED BY <1>6 DEF Min

(* The greatest number, which is found in the same way. *)
LEMMA MaxInSet ==
  ASSUME NEW S \in SUBSET Nat, S # {}, IsFiniteSet(S)
  PROVE  Max(S) \in S
<1> DEFINE Above(x) == {y \in S : y > x}
           T == {Above(x) : x \in S}
           R == StrictSubsetOrdering(S)
<1>1. IsWellFoundedOn(R, SUBSET S)
  BY FS_StrictSubsetOrderingWellFounded, FS_FiniteSubsetsOfFinite
<1>2. T \subseteq SUBSET S /\ T # {}
  OBVIOUS
<1>3. PICK t \in T : \A s \in T : ~(<<s, t>> \in R)
  <2> HIDE DEF T, R
  <2> QED BY <1>1, <1>2, WFMin
<1>4. PICK x \in S : t = Above(x)
  OBVIOUS
<1>5. ASSUME NEW y \in S, y > x PROVE FALSE
  <2>1. ASSUME NEW z \in Above(y) PROVE z \in Above(x)
    <3>1. z \in Nat /\ y \in Nat /\ x \in Nat /\ z > y
      BY <2>1
    <3>2. z > x
      BY <1>5, <3>1
    <3> QED BY <2>1, <3>2
  <2>2. y \in Above(x) /\ y \notin Above(y)
    BY <1>5
  <2>3. <<Above(y), Above(x)>> \in R
    BY <2>1, <2>2 DEF StrictSubsetOrdering
  <2> QED BY <1>3, <1>4, <2>3
<1>6. \A y \in S : x >= y
  BY <1>5
<1> QED BY <1>6 DEF Max

(* A list of changes that is not empty has a first and a last one. *)
LEMMA FirstAndLast ==
  ASSUME NEW C \in SUBSET Changes, C # {}
  PROVE  Min(C) \in C /\ Max(C) \in C
<1>1. IsFiniteSet(C) /\ C \in SUBSET Nat
  BY ChangesAssumption, FS_Subset
<1> QED BY <1>1, MinInSet, MaxInSet

-----------------------------------------------------------------------------
(* The records of which the state is made have their types. *)
LEMMA EmptyTypes == NoRow \in Row /\ Idle \in Memory /\ Resting \in Removal
<1>1. NoRow \in Row
  BY ChangesAssumption, BoundsAssumption DEF NoRow, Row, Marks, Statuses, Open, Closed
<1> QED BY <1>1 DEF Idle, Memory, Resting, Removal

(* Nothing else is known of who holds nothing. *)
LEMMA IdleFields ==
  Idle.pc = "idle" /\ Idle.todo = {} /\ Idle.rest = {} /\ ~Idle.post
BY DEF Idle

(* Types, and what is known of a request that was not created. *)
TypeInv == TypeOK /\ StartInv

(***************************************************************************)
(* One call goes on to hold something else, which keeps the types if what  *)
(* it holds and what it leaves to the others do.                           *)
(***************************************************************************)
LEMMA HandlerStep ==
  ASSUME TypeInv, NEW h \in Handlers, NEW m \in Memory,
         m.pc \in {"apply", "record"} => m.todo # {},
         m.pc # "idle" => m.copy.status # "absent",
         handler' = [handler EXCEPT ![h] = m],
         row' \in Row, row'.status # "absent",
         grants' \subseteq Changes \X Marks,
         marks' \in Marks, marks =< marks',
         UNCHANGED <<past, expirer>>,
         spoilt' \subseteq Changes,
         calls' \in 0 .. MaxCalls, faults' \in 0 .. MaxFaults
  PROVE  TypeInv'
<1>1. /\ handler' \in [Handlers -> Memory]
      /\ \A g \in Handlers :
           handler'[g].pc \in {"apply", "record"} => handler'[g].todo # {}
  BY DEF TypeInv, TypeOK
<1>2. past' \subseteq 1 .. marks'
  BY BoundsAssumption DEF TypeInv, TypeOK, Marks
<1>3. TypeOK'
  BY <1>1, <1>2 DEF TypeInv, TypeOK
<1>4. ASSUME NEW g \in Busy' PROVE handler'[g].copy.status # "absent"
  <2>1. CASE g = h
    BY <2>1, <1>4 DEF Busy, TypeInv, TypeOK
  <2>2. CASE g # h
    BY <2>2, <1>4 DEF Busy, TypeInv, TypeOK, StartInv
  <2> QED BY <2>1, <2>2
<1>5. expirer'.pc # "idle" => expirer'.copy.status # "absent"
  BY DEF TypeInv, StartInv
<1> QED BY <1>3, <1>4, <1>5 DEF TypeInv, StartInv

(* Who holds a request holds one that was created. *)
LEMMA HeldExists ==
  ASSUME TypeInv
  PROVE  /\ \A h \in Handlers : handler[h].pc # "idle" =>
              row.status # "absent" /\ handler[h].copy.status # "absent"
         /\ expirer.pc # "idle" =>
              row.status # "absent" /\ expirer.copy.status # "absent"
  BY DEF TypeInv, StartInv, Alone, Busy

(* What a call holds when it has read the row. *)
Holding(pc, copy, todo) ==
  [Idle EXCEPT !.pc = pc, !.copy = copy, !.todo = todo,
               !.account = IF todo = {} THEN 0 ELSE Max(todo)]

(* Its type, and its parts. *)
LEMMA HoldingType ==
  ASSUME NEW pc \in {"apply", "write", "settle", "view"}, NEW copy \in Row,
         NEW todo \in SUBSET Changes
  PROVE  /\ Holding(pc, copy, todo) \in Memory
         /\ Holding(pc, copy, todo).pc = pc
         /\ Holding(pc, copy, todo).copy = copy
         /\ Holding(pc, copy, todo).todo = todo
         /\ Holding(pc, copy, todo).rest = {}
         /\ ~Holding(pc, copy, todo).post
<1> DEFINE account == IF todo = {} THEN 0 ELSE Max(todo)
           m == Holding(pc, copy, todo)
<1>1. account \in Changes \cup {0}
  BY FirstAndLast
<1>2. m = [Idle EXCEPT !.pc = pc, !.copy = copy, !.todo = todo,
                       !.account = account]
  BY DEF Holding
<1> HIDE DEF account, m
<1>3. m \in Memory
  BY <1>1, <1>2, EmptyTypes DEF Memory
<1>4. m.pc = pc /\ m.copy = copy /\ m.todo = todo /\ m.rest = {} /\ ~m.post
  BY <1>2, EmptyTypes, IdleFields DEF Memory
<1> QED BY <1>3, <1>4 DEF m

(* The doubt there is stays a doubt about changes of the request. *)
LEMMA SpoilType ==
  ASSUME TypeOK, NEW C \in SUBSET Changes, Spoil(C)
  PROVE  spoilt' \in SUBSET Changes
  BY DEF TypeOK, Spoil

(* Every command reads the row, and holds what it made of it. *)
LEMMA BeginType ==
  ASSUME TypeInv, NEW h \in Handlers,
         NEW pc \in {"apply", "write", "settle", "view"}, NEW copy \in Row,
         NEW todo \in SUBSET Changes, pc = "apply" => todo # {},
         copy.status # "absent",
         Begin(h, pc, copy, todo), UNCHANGED marks
  PROVE  TypeInv'
<1> DEFINE m == Holding(pc, copy, todo)
<1>1. handler' = [handler EXCEPT ![h] = m]
  BY DEF Begin, Holding
<1>2. spoilt' \in SUBSET Changes
  <2>1. SpoilIfRaced
    BY DEF Begin
  <2>2. (IF Alone THEN {} ELSE Changes) \in SUBSET Changes
    OBVIOUS
  <2> QED BY <2>1, <2>2, SpoilType DEF SpoilIfRaced, TypeInv
<1>3. calls' \in 0 .. MaxCalls
  BY BoundsAssumption DEF Begin, TypeInv, TypeOK
<1>4. UNCHANGED <<row, grants, past, expirer, faults>> /\ row.status # "absent"
  BY DEF Begin
<1>5. m \in Memory /\ m.pc = pc /\ m.todo = todo /\ m.copy = copy
  BY HoldingType
<1> HIDE DEF m
<1>6. marks' \in Marks /\ marks =< marks'
  BY BoundsAssumption DEF TypeInv, TypeOK, Marks
<1>7. /\ row \in Row /\ grants \subseteq Changes \X Marks
      /\ faults \in 0 .. MaxFaults
  BY DEF TypeInv, TypeOK
<1> QED BY <1>1, <1>2, <1>3, <1>4, <1>5, <1>6, <1>7, HandlerStep

(* A write replaces the row by what was written, or is a failure. *)
LEMMA SaveType ==
  ASSUME TypeOK, NEW r \in Row, Save(r)
  PROVE  /\ row' \in Row /\ row' \in {r, row} /\ spoilt' \in SUBSET Changes
         /\ faults' \in 0 .. MaxFaults
<1>1. CASE row' = r /\ UNCHANGED <<spoilt, faults>>
  BY <1>1 DEF TypeOK
<1>2. CASE faults < MaxFaults /\ faults' = faults + 1
           /\ Spoil(Unsaved(r)) /\ UNCHANGED row
  <2>1. Unsaved(r) \in SUBSET Changes
    BY DEF Unsaved
  <2>2. spoilt' \in SUBSET Changes
    BY <1>2, <2>1, SpoilType
  <2> QED BY <1>2, <2>2, BoundsAssumption DEF TypeOK
<1> QED BY <1>1, <1>2 DEF Save

(* What a call holds after one change of an apply. *)
LEMMA TriedType ==
  ASSUME NEW m \in Memory, NEW c, m.todo # {}
  PROVE  /\ Tried(m, c) \in Memory
         /\ Tried(m, c).pc \in {"apply", "settle"}
         /\ Tried(m, c).pc = "apply" => Tried(m, c).todo # {}
         /\ Tried(m, c).todo = m.todo \ {c}
         /\ Tried(m, c).copy = m.copy /\ Tried(m, c).rest = m.rest
         /\ Tried(m, c).post = m.post
<1>1. Tried(m, c) \in Memory
  BY DEF Memory, Tried
<1>2. /\ Tried(m, c).pc \in {"apply", "settle"}
      /\ Tried(m, c).pc = "apply" => Tried(m, c).todo # {}
      /\ Tried(m, c).todo = m.todo \ {c}
      /\ Tried(m, c).copy = m.copy /\ Tried(m, c).rest = m.rest
      /\ Tried(m, c).post = m.post
  BY DEF Memory, Tried
<1> QED BY <1>1, <1>2

(* What a call holds after a command, or after one of those of a POST. *)
LEMMA FinishedType ==
  ASSUME NEW m \in Memory
  PROVE  /\ Finished(m) \in Memory
         /\ Finished(m).pc \in {"apply", "final", "idle"}
         /\ Finished(m).pc = "apply" =>
              /\ m.rest # {} /\ Finished(m).todo = {Min(m.rest)}
              /\ Finished(m).rest = m.rest \ {Min(m.rest)}
              /\ Min(m.rest) \in m.rest
         /\ Finished(m).pc = "final" => Finished(m).rest = {} /\ m.post
         /\ Finished(m).pc # "idle" =>
              Finished(m).copy = m.copy /\ Finished(m).post = m.post
         /\ Finished(m).pc = "idle" => Finished(m) = Idle
<1> DEFINE n == Finished(m)
<1>1. CASE m.rest # {}
  <2> DEFINE c == Min(m.rest)
  <2>1. c \in m.rest /\ m.rest \in SUBSET Changes
    BY <1>1, FirstAndLast DEF Memory
  <2>2. n = [m EXCEPT !.pc = "apply", !.todo = {c},
                      !.account = c, !.rest = @ \ {c}]
    BY <1>1 DEF Finished
  <2> HIDE DEF c, n
  <2>3. n \in Memory
    BY <2>1, <2>2 DEF Memory
  <2>4. n.pc = "apply" /\ n.todo = {c} /\ n.rest = m.rest \ {c}
        /\ n.copy = m.copy /\ n.post = m.post
    BY <2>2 DEF Memory
  <2> QED BY <1>1, <2>1, <2>3, <2>4 DEF c, n
<1>2. CASE m.rest = {} /\ m.post
  <2>1. n = [m EXCEPT !.pc = "final", !.todo = {}]
    BY <1>2 DEF Finished
  <2> HIDE DEF n
  <2>2. n \in Memory
    BY <2>1 DEF Memory
  <2>3. n.pc = "final" /\ n.rest = {} /\ n.copy = m.copy /\ n.post = m.post
    BY <1>2, <2>1 DEF Memory
  <2> QED BY <1>2, <2>2, <2>3 DEF n
<1>3. CASE m.rest = {} /\ ~m.post
  <2>1. n = Idle
    BY <1>3 DEF Finished
  <2> HIDE DEF n
  <2> QED BY <2>1, EmptyTypes, IdleFields DEF n
<1> QED BY <1>1, <1>2, <1>3 DEF Memory

-----------------------------------------------------------------------------
(* What is made of a row is a row. *)
LEMMA RowTypes ==
  ASSUME NEW r \in Row
  PROVE  /\ \A s \in {"absent"} \cup Open \cup Closed : [r EXCEPT !.status = s] \in Row
         /\ \A c \in Changes, s \in Statuses : [r EXCEPT !.ch[c] = s] \in Row
         /\ \A S \in SUBSET Changes : [r EXCEPT !.supported = S] \in Row
         /\ \A S \in SUBSET Changes : [r EXCEPT !.auto = S] \in Row
         /\ \A d, m \in Marks : Redate(r, d, m) \in Row
         /\ \A d \in Marks, b \in BOOLEAN : [r EXCEPT !.date = d, !.ttl = b] \in Row
<1>1. ASSUME NEW c \in Changes, NEW s \in Statuses
      PROVE  [r EXCEPT !.ch[c] = s] \in Row
  BY DEF Row
<1> QED BY <1>1 DEF Row, Redate

(* The first record of a request has its type, and so has who keeps it. *)
LEMMA CreateType ==
  ASSUME TypeInv, NEW h \in Handlers, NEW approved \in BOOLEAN,
         NEW allowed \in BOOLEAN, NEW dated \in BOOLEAN, NEW ttl \in BOOLEAN,
         Create(h, approved, allowed, dated, ttl)
  PROVE  TypeInv'
<1> DEFINE status == IF approved THEN "approved" ELSE "pending"
           mark == IF dated THEN 1 ELSE 0
           copy == [NoRow EXCEPT !.status = status, !.date = mark,
                                 !.mark = mark, !.ttl = ttl]
           own == Changes \ Generated
           new == [pc |-> "apply", copy |-> copy, todo |-> {Min(own)},
                   account |-> Min(own), rest |-> own \ {Min(own)}, post |-> TRUE]
           m == IF approved /\ allowed /\ own # {} THEN new ELSE handler[h]
<1>1. mark \in Marks /\ mark \in Nat
  BY BoundsAssumption DEF Create, Marks
<1>2. status \in {"absent"} \cup Open \cup Closed /\ status # "absent"
  BY DEF Open
<1>3. copy \in Row /\ copy.mark = mark /\ copy.status # "absent"
  <2> HIDE DEF mark, status
  <2> QED BY <1>1, <1>2, EmptyTypes DEF Row
<1>4. row' = copy /\ marks' = copy.mark /\ row.status = "absent"
  BY DEF Create
<1>5. UNCHANGED <<grants, past, expirer, spoilt, calls, faults>>
  BY DEF Create
<1>6. handler' = [handler EXCEPT ![h] = m]
  BY DEF Create
<1>7. /\ m \in Memory /\ (m.pc \in {"apply", "record"} => m.todo # {})
      /\ m.pc # "idle" => m.copy.status # "absent"
  <2>1. CASE approved /\ allowed /\ own # {}
    <3>1. Min(own) \in own
      BY <2>1, FirstAndLast
    <3>2. new \in Memory /\ new.todo # {} /\ new.copy = copy
      <4> HIDE DEF copy, own
      <4>1. own \subseteq Changes
        BY DEF own
      <4> QED BY <1>3, <3>1, <4>1 DEF Memory
    <3> HIDE DEF new
    <3> QED BY <1>3, <2>1, <3>2
  <2>2. CASE ~(approved /\ allowed /\ own # {})
    <3>1. m = handler[h]
      BY <2>2
    <3> HIDE DEF m
    <3> QED BY <3>1, HeldExists DEF TypeInv, TypeOK
  <2> QED BY <2>1, <2>2
<1>8. marks' \in Marks /\ marks =< marks'
  BY <1>1, <1>3, <1>4 DEF TypeInv, StartInv
<1>9. /\ grants \subseteq Changes \X Marks /\ spoilt \subseteq Changes
      /\ calls \in 0 .. MaxCalls /\ faults \in 0 .. MaxFaults
  BY DEF TypeInv, TypeOK
<1> HIDE DEF m, copy, mark
<1> QED BY <1>3, <1>4, <1>5, <1>6, <1>7, <1>8, <1>9, HandlerStep

(***************************************************************************)
(* Each command makes a row of the row it read.                            *)
(***************************************************************************)
LEMMA CommandType ==
  ASSUME TypeInv, NEW h \in Handlers, Command(h)
  PROVE  TypeInv'
<1>0. row \in Row
  BY DEF TypeInv, TypeOK
<1>1. ASSUME AddComment(h) PROVE TypeInv'
  <2>1. Begin(h, "write", row, {}) /\ UNCHANGED marks /\ row.status # "absent"
    BY <1>1 DEF AddComment, Begin
  <2> QED BY <1>0, <2>1, BeginType
<1>2. ASSUME UpdateTtl(h) PROVE TypeInv'
  <2> DEFINE copy == [row EXCEPT !.date = 0, !.ttl = TRUE]
  <2>1. Begin(h, "write", copy, {}) /\ UNCHANGED marks /\ row.status = "pending"
    BY <1>2 DEF UpdateTtl
  <2>2. copy \in Row /\ copy.status = row.status
    <3>1. 0 \in Marks
      BY BoundsAssumption DEF Marks
    <3> QED BY <1>0, <3>1 DEF Row
  <2> HIDE DEF copy
  <2> QED BY <2>1, <2>2, BeginType
<1>3. ASSUME ApproveRequest(h) PROVE TypeInv'
  <2> DEFINE copy == [row EXCEPT !.status = "approved"]
  <2>1. Begin(h, "write", copy, {}) /\ UNCHANGED marks
    BY <1>3 DEF ApproveRequest
  <2>2. copy \in Row /\ copy.status # "absent"
    BY <1>0 DEF Row, Open
  <2> HIDE DEF copy
  <2> QED BY <2>1, <2>2, BeginType
<1>4. ASSUME MoveBackToPending(h) PROVE TypeInv'
  <2> DEFINE copy == [row EXCEPT !.status = "pending"]
  <2>1. Begin(h, "write", copy, {}) /\ UNCHANGED marks
    BY <1>4 DEF MoveBackToPending
  <2>2. copy \in Row /\ copy.status # "absent"
    BY <1>0 DEF Row, Open
  <2> HIDE DEF copy
  <2> QED BY <2>1, <2>2, BeginType
<1>5. ASSUME NEW dated \in BOOLEAN, UpdateExpirationDate(h, dated)
      PROVE  TypeInv'
  <2> DEFINE date == IF dated THEN marks + 1 ELSE 0
             redated == Redate(row, date, marks + 1)
             copy == [redated EXCEPT !.ttl = FALSE]
             m == [Idle EXCEPT !.pc = "write", !.copy = copy]
  <2>1. /\ marks' = marks + 1 /\ marks < MaxMarks /\ row.status = "pending"
        /\ handler' = [handler EXCEPT ![h] = m]
        /\ UNCHANGED <<row, grants, past, expirer, faults>>
        /\ calls < MaxCalls /\ calls' = calls + 1
        /\ Spoil(IF Alone THEN In(row, "applied") \cap Marked ELSE Changes)
    BY <1>5 DEF UpdateExpirationDate
  <2>2. date \in Marks /\ marks' \in Marks /\ marks =< marks'
    BY <2>1, BoundsAssumption DEF TypeInv, TypeOK, Marks
  <2>3. redated \in Row /\ redated.status = row.status
    <3> HIDE DEF date
    <3> QED BY <1>0, <2>1, <2>2 DEF Row, Redate
  <2> HIDE DEF redated
  <2>4. copy \in Row /\ copy.status = row.status
    BY <2>3 DEF Row
  <2> HIDE DEF copy
  <2>5. m \in Memory /\ m.pc = "write" /\ m.copy = copy
    BY <2>4, EmptyTypes DEF Memory
  <2> HIDE DEF m
  <2>6. spoilt' \in SUBSET Changes
    <3>1. (IF Alone THEN In(row, "applied") \cap Marked ELSE Changes)
             \in SUBSET Changes
      BY DEF In
    <3> QED BY <2>1, <3>1, SpoilType DEF TypeInv
  <2>7. calls' \in 0 .. MaxCalls
    BY <2>1, BoundsAssumption DEF TypeInv, TypeOK
  <2>8. row \in Row /\ grants \subseteq Changes \X Marks /\ faults \in 0 .. MaxFaults
    BY DEF TypeInv, TypeOK
  <2> QED BY <2>1, <2>2, <2>4, <2>5, <2>6, <2>7, <2>8, HandlerStep
<1>6. ASSUME NEW status \in Closed, CloseRequest(h, status) PROVE TypeInv'
  <2> DEFINE copy == [row EXCEPT !.status = status]
  <2>1. copy \in Row /\ copy.status # "absent"
    BY <1>0 DEF Row, Closed
  <2>2. CASE In(row, "applied") = {}
    <3>1. Begin(h, "write", copy, {}) /\ UNCHANGED marks
      BY <1>6, <2>2 DEF CloseRequest
    <3> HIDE DEF copy
    <3> QED BY <2>1, <3>1, BeginType
  <2>3. CASE In(row, "applied") # {}
    <3>1. Begin(h, "settle", row, {}) /\ UNCHANGED marks /\ row.status = "pending"
      BY <1>6, <2>3 DEF CloseRequest
    <3> QED BY <1>0, <3>1, BeginType
  <2> QED BY <2>2, <2>3
<1>7. ASSUME NEW c \in Changes, UpdateChange(h, c) PROVE TypeInv'
  <2> DEFINE copy == [row EXCEPT !.auto = @ \ (Resource \cap {c})]
  <2>1. Begin(h, "write", copy, {}) /\ UNCHANGED marks /\ row.status # "absent"
    BY <1>7 DEF UpdateChange, Begin
  <2>2. copy \in Row /\ copy.status = row.status
    BY <1>0 DEF Row
  <2> HIDE DEF copy
  <2> QED BY <2>1, <2>2, BeginType
<1>8. ASSUME NEW c \in Changes, CancelChange(h, c) PROVE TypeInv'
  <2> DEFINE copy == [row EXCEPT !.ch[c] = "cancelled"]
  <2>1. Begin(h, "write", copy, {}) /\ UNCHANGED marks /\ row.status # "absent"
    BY <1>8 DEF CancelChange, Begin
  <2>2. copy \in Row /\ copy.status = row.status
    BY <1>0 DEF Row, Statuses
  <2> HIDE DEF copy
  <2> QED BY <2>1, <2>2, BeginType
<1>9. ASSUME NEW c \in Changes, ApplyChange(h, c) PROVE TypeInv'
  <2>1. Begin(h, "apply", row, {c}) /\ UNCHANGED marks /\ row.status # "absent"
    BY <1>9 DEF ApplyChange, Begin
  <2> QED BY <1>0, <2>1, BeginType
<1>10. ASSUME ApplyAllChanges(h) PROVE TypeInv'
  <2> DEFINE todo == In(row, "not_applied")
             copy == [row EXCEPT !.supported = @ \cup todo]
             pc == IF todo = {} THEN "settle" ELSE "apply"
  <2>1. Begin(h, pc, copy, todo) /\ UNCHANGED marks /\ row.status # "absent"
    BY <1>10 DEF ApplyAllChanges, Begin
  <2>2. todo \in SUBSET Changes
    BY DEF In
  <2>3. copy \in Row /\ copy.status = row.status
    <3> HIDE DEF todo
    <3> QED BY <1>0, <2>2 DEF Row
  <2>4. pc \in {"apply", "write", "settle", "view"} /\ (pc = "apply" => todo # {})
    OBVIOUS
  <2> HIDE DEF copy, todo, pc
  <2> QED BY <2>1, <2>2, <2>3, <2>4, BeginType
<1>11. ASSUME View(h) PROVE TypeInv'
  <2> DEFINE looked == (Resource \cup Lasting) \ In(row, "applied")
             copy == [row EXCEPT !.supported = (@ \ (looked \cap Resource))
                                   \cup ((looked \cap Resource) \ Foreign)]
  <2>1. Begin(h, "view", copy, {}) /\ UNCHANGED marks /\ row.status # "absent"
    BY <1>11 DEF View, Begin
  <2>2. copy \in Row /\ copy.status = row.status
    <3> HIDE DEF looked
    <3> QED BY <1>0, ChangesAssumption DEF Row
  <2> HIDE DEF copy
  <2> QED BY <2>1, <2>2, BeginType
<1> QED BY <1>1, <1>2, <1>3, <1>4, <1>5, <1>6, <1>7, <1>8, <1>9, <1>10, <1>11
        DEF Command

(***************************************************************************)
(* What a call does next leaves a row of what it holds.                    *)
(***************************************************************************)
LEMMA ServeType ==
  ASSUME TypeInv, NEW h \in Handlers, Serve(h) \/ Die(h)
  PROVE  TypeInv'
<1> DEFINE m == handler[h]
           c == Min(m.todo)
<1>0. /\ m \in Memory /\ (m.pc \in {"apply", "record"} => m.todo # {})
      /\ m.copy \in Row
  BY DEF TypeInv, TypeOK, Memory
<1>1. m.pc # "idle" => row.status # "absent" /\ m.copy.status # "absent"
  BY HeldExists
<1>2. m.pc \in {"apply", "record"} => c \in m.todo /\ c \in Changes
  <2>1. m.todo \in SUBSET Changes
    BY <1>0 DEF Memory
  <2> QED BY <1>0, <2>1, FirstAndLast
<1>3. /\ row \in Row /\ grants \subseteq Changes \X Marks /\ marks \in Marks
      /\ marks \in Nat /\ spoilt \subseteq Changes
      /\ calls \in 0 .. MaxCalls /\ faults \in 0 .. MaxFaults
  BY BoundsAssumption DEF TypeInv, TypeOK, Marks
<1>4. Finished(m) \in Memory
      /\ (Finished(m).pc \in {"apply", "record"} => Finished(m).todo # {})
      /\ (Finished(m).pc # "idle" => Finished(m).copy = m.copy)
  BY <1>0, FinishedType
<1>5. ASSUME AccountUnknown(h) PROVE TypeInv'
  <2>1. /\ m.pc = "apply"
        /\ handler' = [handler EXCEPT ![h] = Finished(m)]
        /\ UNCHANGED <<row, grants, past, marks, expirer, spoilt, calls, faults>>
    BY <1>5 DEF AccountUnknown
  <2> DEFINE n == Finished(m)
  <2>2. /\ n \in Memory
        /\ n.pc \in {"apply", "record"} => n.todo # {}
        /\ n.pc # "idle" => n.copy.status # "absent"
        /\ handler' = [handler EXCEPT ![h] = n]
    BY <1>1, <1>4, <2>1
  <2> HIDE DEF m, n
  <2>3. /\ row' \in Row /\ row'.status # "absent"
        /\ grants' \subseteq Changes \X Marks
        /\ marks' \in Marks /\ marks =< marks'
        /\ UNCHANGED <<past, expirer>>
        /\ spoilt' \subseteq Changes
        /\ calls' \in 0 .. MaxCalls /\ faults' \in 0 .. MaxFaults
    BY <1>1, <1>3, <2>1
  <2> QED BY <2>2, <2>3, HandlerStep
<1>6. ASSUME ApplyOne(h) PROVE TypeInv'
  <2> DEFINE applied == [m.copy EXCEPT !.ch[c] = "applied"]
             mixed == IF (c \in ReadOnly) = (m.account \in ReadOnly) THEN {} ELSE {c}
  <2>1. /\ m.pc = "apply" /\ Record(h, c)
        /\ UNCHANGED <<row, past, expirer, calls, faults>>
        /\ grants' = grants \/ grants' = grants \cup {<<c, MarkOf(m.copy, c)>>}
    BY <1>6 DEF ApplyOne
  <2>2. MarkOf(m.copy, c) \in Marks
    BY <1>0, BoundsAssumption DEF MarkOf, Row, Marks
  <2>3. grants' \subseteq Changes \X Marks
    BY <1>2, <1>3, <2>1, <2>2
  <2>4. applied \in Row /\ applied.status = m.copy.status
    <3> HIDE DEF c, m
    <3> QED BY <1>0, <1>2, <2>1 DEF Row, Statuses
  <2>5. mixed \in SUBSET Changes /\ In(applied, "applied") \in SUBSET Changes
    BY <1>2, <2>1 DEF In
  <2>6. CASE m.copy.ttl
    <3> DEFINE copy == Redate(applied, marks + 1, marks + 1)
               n == [m EXCEPT !.pc = "record", !.copy = copy]
    <3>1. /\ marks < MaxMarks /\ marks' = marks + 1
          /\ Spoil(mixed \cup (In(applied, "applied") \cap Marked))
          /\ handler' = [handler EXCEPT ![h] = n]
      BY <2>1, <2>6 DEF Record
    <3>2. marks' \in Marks /\ marks =< marks'
      BY <1>3, <3>1, BoundsAssumption DEF Marks
    <3>3. copy \in Row /\ copy.status = applied.status
      <4> HIDE DEF applied
      <4> QED BY <2>4, <3>1, <3>2 DEF Redate, Row
    <3> HIDE DEF applied, mixed
    <3>4. spoilt' \in SUBSET Changes
      <4>1. mixed \cup (In(applied, "applied") \cap Marked) \in SUBSET Changes
        BY <2>5
      <4> QED BY <3>1, <4>1, SpoilType DEF TypeInv
    <3> HIDE DEF copy
    <3>5. n \in Memory /\ n.pc = "record" /\ n.copy = copy /\ n.todo = m.todo
      <4> HIDE DEF m
      <4> QED BY <1>0, <3>3 DEF Memory
    <3> HIDE DEF n, m
    <3> QED BY <1>0, <1>1, <1>3, <2>1, <2>3, <2>4, <3>1, <3>2, <3>3, <3>4, <3>5,
               HandlerStep
  <2>7. CASE ~m.copy.ttl
    <3> DEFINE n == [m EXCEPT !.pc = "record", !.copy = applied]
    <3>1. /\ UNCHANGED marks /\ Spoil(mixed)
          /\ handler' = [handler EXCEPT ![h] = n]
      BY <2>1, <2>7 DEF Record
    <3> HIDE DEF applied, mixed
    <3>2. spoilt' \in SUBSET Changes
      BY <2>5, <3>1, SpoilType DEF TypeInv
    <3>3. n \in Memory /\ n.pc = "record" /\ n.copy = applied /\ n.todo = m.todo
      <4> HIDE DEF m
      <4> QED BY <1>0, <2>4 DEF Memory
    <3> HIDE DEF n, m
    <3>4. /\ n \in Memory
          /\ n.pc \in {"apply", "record"} => n.todo # {}
          /\ n.pc # "idle" => n.copy.status # "absent"
          /\ handler' = [handler EXCEPT ![h] = n]
      BY <1>0, <1>1, <2>1, <2>4, <3>1, <3>3
    <3>5. /\ row' \in Row /\ row'.status # "absent"
          /\ grants' \subseteq Changes \X Marks
          /\ marks' \in Marks /\ marks =< marks'
          /\ UNCHANGED <<past, expirer>>
          /\ spoilt' \subseteq Changes
          /\ calls' \in 0 .. MaxCalls /\ faults' \in 0 .. MaxFaults
      BY <1>1, <1>3, <2>1, <2>3, <3>1, <3>2
    <3> QED BY <3>4, <3>5, HandlerStep
  <2> QED BY <2>6, <2>7
<1>7. ASSUME ApplyFails(h) PROVE TypeInv'
  <2>1. /\ m.pc = "apply"
        /\ faults' \in {faults, faults + 1} /\ (faults' # faults => faults < MaxFaults)
        /\ handler' = [handler EXCEPT ![h] = Tried(m, c)]
        /\ UNCHANGED <<row, grants, past, marks, expirer, spoilt, calls>>
    BY <1>7 DEF ApplyFails
  <2>2. faults' \in 0 .. MaxFaults
    BY <1>3, <2>1, BoundsAssumption
  <2> HIDE DEF m, c
  <2>3. /\ Tried(m, c) \in Memory /\ Tried(m, c).pc \in {"apply", "settle"}
        /\ Tried(m, c).pc = "apply" => Tried(m, c).todo # {}
        /\ Tried(m, c).copy = m.copy
    BY <1>0, <2>1, TriedType
  <2> DEFINE next == Tried(m, c)
  <2>4. /\ next \in Memory
        /\ next.pc \in {"apply", "record"} => next.todo # {}
        /\ next.pc # "idle" => next.copy.status # "absent"
        /\ handler' = [handler EXCEPT ![h] = next]
    BY <1>1, <2>1, <2>3
  <2> HIDE DEF next
  <2>5. /\ row' \in Row /\ row'.status # "absent"
        /\ grants' \subseteq Changes \X Marks
        /\ marks' \in Marks /\ marks =< marks'
        /\ UNCHANGED <<past, expirer>>
        /\ spoilt' \subseteq Changes
        /\ calls' \in 0 .. MaxCalls /\ faults' \in 0 .. MaxFaults
    BY <1>1, <1>3, <2>1, <2>2
  <2> QED BY <2>4, <2>5, HandlerStep
<1>8. ASSUME RecordChange(h) PROVE TypeInv'
  <2>1. /\ m.pc = "record" /\ Save(m.copy)
        /\ handler' = [handler EXCEPT ![h] = Tried(m, c)]
        /\ UNCHANGED <<grants, past, marks, expirer, calls>>
    BY <1>8 DEF RecordChange
  <2> HIDE DEF m, c
  <2>2. /\ Tried(m, c) \in Memory /\ Tried(m, c).pc \in {"apply", "settle"}
        /\ Tried(m, c).pc = "apply" => Tried(m, c).todo # {}
        /\ Tried(m, c).copy = m.copy
    BY <1>0, <2>1, TriedType
  <2>3. /\ row' \in Row /\ row' \in {m.copy, row}
        /\ spoilt' \in SUBSET Changes /\ faults' \in 0 .. MaxFaults
    BY <1>0, <2>1, SaveType DEF TypeInv
  <2> DEFINE next == Tried(m, c)
  <2>4. /\ next \in Memory
        /\ next.pc \in {"apply", "record"} => next.todo # {}
        /\ next.pc # "idle" => next.copy.status # "absent"
        /\ handler' = [handler EXCEPT ![h] = next]
    BY <1>1, <2>1, <2>2
  <2> HIDE DEF next
  <2>5. /\ row' \in Row /\ row'.status # "absent"
        /\ grants' \subseteq Changes \X Marks
        /\ marks' \in Marks /\ marks =< marks'
        /\ UNCHANGED <<past, expirer>>
        /\ spoilt' \subseteq Changes
        /\ calls' \in 0 .. MaxCalls /\ faults' \in 0 .. MaxFaults
    BY <1>1, <1>3, <2>1, <2>3
  <2> QED BY <2>4, <2>5, HandlerStep
<1>9. ASSUME Write(h) PROVE TypeInv'
  <2> DEFINE n == [m EXCEPT !.pc = "settle"]
  <2>1. /\ m.pc = "write" /\ Save(m.copy)
        /\ handler' = [handler EXCEPT ![h] = n]
        /\ UNCHANGED <<grants, past, marks, expirer, calls>>
    BY <1>9 DEF Write
  <2> HIDE DEF m
  <2>2. n \in Memory /\ n.pc = "settle" /\ n.copy = m.copy
    BY <1>0 DEF Memory
  <2>3. /\ row' \in Row /\ row' \in {m.copy, row}
        /\ spoilt' \in SUBSET Changes /\ faults' \in 0 .. MaxFaults
    BY <1>0, <2>1, SaveType DEF TypeInv
  <2> HIDE DEF n
  <2>4. /\ n \in Memory
        /\ n.pc \in {"apply", "record"} => n.todo # {}
        /\ n.pc # "idle" => n.copy.status # "absent"
        /\ handler' = [handler EXCEPT ![h] = n]
    BY <1>1, <2>1, <2>2
  <2>5. /\ row' \in Row /\ row'.status # "absent"
        /\ grants' \subseteq Changes \X Marks
        /\ marks' \in Marks /\ marks =< marks'
        /\ UNCHANGED <<past, expirer>>
        /\ spoilt' \subseteq Changes
        /\ calls' \in 0 .. MaxCalls /\ faults' \in 0 .. MaxFaults
    BY <1>1, <1>3, <2>1, <2>3
  <2> QED BY <2>4, <2>5, HandlerStep
<1>10. ASSUME Settle(h) PROVE TypeInv'
  <2> DEFINE settled == [m.copy EXCEPT !.status = SettledStatus(m.copy)]
             n == [m EXCEPT !.copy = settled]
  <2>1. /\ m.pc = "settle"
        /\ Save(settled) \/ UNCHANGED <<row, spoilt, faults>>
        /\ handler' = [handler EXCEPT ![h] = Finished(n)]
        /\ UNCHANGED <<grants, past, marks, expirer, calls>>
    BY <1>10 DEF Settle
  <2> HIDE DEF m
  <2>2. SettledStatus(m.copy) \in {"approved", "cancelled", m.copy.status}
    BY DEF SettledStatus
  <2>3. settled \in Row /\ settled.status # "absent"
    BY <1>0, <1>1, <2>1, <2>2 DEF Row, Open, Closed
  <2> HIDE DEF settled
  <2>4. n \in Memory /\ n.copy = settled
    BY <1>0, <2>3 DEF Memory
  <2> HIDE DEF n
  <2>5. /\ Finished(n) \in Memory
        /\ Finished(n).pc \in {"apply", "record"} => Finished(n).todo # {}
        /\ Finished(n).pc # "idle" => Finished(n).copy = settled
    BY <2>4, FinishedType
  <2>6. /\ row' \in Row /\ row' \in {settled, row}
        /\ spoilt' \in SUBSET Changes /\ faults' \in 0 .. MaxFaults
    BY <1>3, <2>1, <2>3, SaveType DEF TypeInv
  <2> DEFINE next == Finished(n)
  <2>7. /\ next \in Memory
        /\ next.pc \in {"apply", "record"} => next.todo # {}
        /\ next.pc # "idle" => next.copy.status # "absent"
        /\ handler' = [handler EXCEPT ![h] = next]
    BY <2>1, <2>3, <2>5
  <2> HIDE DEF next
  <2>8. /\ row' \in Row /\ row'.status # "absent"
        /\ grants' \subseteq Changes \X Marks
        /\ marks' \in Marks /\ marks =< marks'
        /\ UNCHANGED <<past, expirer>>
        /\ spoilt' \subseteq Changes
        /\ calls' \in 0 .. MaxCalls /\ faults' \in 0 .. MaxFaults
    BY <1>1, <1>3, <2>1, <2>3, <2>6
  <2> QED BY <2>7, <2>8, HandlerStep
<1>11. ASSUME WriteBack(h) PROVE TypeInv'
  <2>1. /\ m.pc # "idle" /\ row' = m.copy
        /\ handler' = [handler EXCEPT ![h] = Idle]
        /\ UNCHANGED <<grants, past, marks, expirer, spoilt, calls, faults>>
    BY <1>11 DEF WriteBack
  <2> HIDE DEF m
  <2>2. /\ Idle \in Memory
        /\ Idle.pc \in {"apply", "record"} => Idle.todo # {}
        /\ Idle.pc # "idle" => Idle.copy.status # "absent"
        /\ handler' = [handler EXCEPT ![h] = Idle]
    BY <2>1, EmptyTypes, IdleFields
  <2>3. /\ row' \in Row /\ row'.status # "absent"
        /\ grants' \subseteq Changes \X Marks
        /\ marks' \in Marks /\ marks =< marks'
        /\ UNCHANGED <<past, expirer>>
        /\ spoilt' \subseteq Changes
        /\ calls' \in 0 .. MaxCalls /\ faults' \in 0 .. MaxFaults
    BY <1>0, <1>1, <1>3, <2>1
  <2> QED BY <2>2, <2>3, HandlerStep
<1>12. ASSUME Die(h) PROVE TypeInv'
  <2>1. /\ m.pc # "idle" /\ faults < MaxFaults /\ faults' = faults + 1
        /\ Spoil(Unsaved(m.copy))
        /\ handler' = [handler EXCEPT ![h] = Idle]
        /\ UNCHANGED <<row, grants, past, marks, expirer, calls>>
    BY <1>12 DEF Die, Busy
  <2> HIDE DEF m
  <2>2. Unsaved(m.copy) \in SUBSET Changes
    BY DEF Unsaved
  <2>3. spoilt' \in SUBSET Changes /\ faults' \in 0 .. MaxFaults
    BY <1>3, <2>1, <2>2, SpoilType, BoundsAssumption DEF TypeInv
  <2>4. /\ Idle \in Memory
        /\ Idle.pc \in {"apply", "record"} => Idle.todo # {}
        /\ Idle.pc # "idle" => Idle.copy.status # "absent"
        /\ handler' = [handler EXCEPT ![h] = Idle]
    BY <2>1, EmptyTypes, IdleFields
  <2>5. /\ row' \in Row /\ row'.status # "absent"
        /\ grants' \subseteq Changes \X Marks
        /\ marks' \in Marks /\ marks =< marks'
        /\ UNCHANGED <<past, expirer>>
        /\ spoilt' \subseteq Changes
        /\ calls' \in 0 .. MaxCalls /\ faults' \in 0 .. MaxFaults
    BY <1>0, <1>1, <1>3, <2>1, <2>3
  <2> QED BY <2>4, <2>5, HandlerStep
<1> QED BY <1>5, <1>6, <1>7, <1>8, <1>9, <1>10, <1>11, <1>12 DEF Serve

(***************************************************************************)
(* The removal: what it goes on to hold, and the dates that pass.          *)
(***************************************************************************)
LEMMA ExpirerStep ==
  ASSUME TypeInv, NEW e \in Removal,
         e.pc = "remove" => e.todo # {},
         e.pc # "idle" => e.copy.status # "absent",
         expirer' = e, expirer.pc # "idle" \/ row.status # "absent",
         row' \in Row, row' = row \/ row'.status # "absent",
         grants' \subseteq Changes \X Marks,
         UNCHANGED <<past, marks, handler, calls>>,
         spoilt' \subseteq Changes, faults' \in 0 .. MaxFaults
  PROVE  TypeInv'
<1>1. row.status # "absent"
  BY HeldExists
<1>2. row'.status # "absent"
  BY <1>1
<1>3. TypeOK'
  BY DEF TypeInv, TypeOK
<1>4. \A h \in Busy' : handler'[h].copy.status # "absent"
  BY DEF TypeInv, StartInv, Busy
<1> QED BY <1>2, <1>3, <1>4 DEF TypeInv, StartInv

(* What is left to look at when one grant was. *)
LEMMA LookedType ==
  ASSUME NEW e \in Removal, e.todo # {}
  PROVE  /\ Looked(e) \in Removal /\ Looked(e).copy = e.copy
         /\ Looked(e).todo = e.todo \ {Min(e.todo)}
         /\ Looked(e).pc \in {"remove", "write"}
         /\ Looked(e).pc = "remove" => Looked(e).todo # {}
         /\ Looked(e).changed = e.changed
<1> DEFINE c == Min(e.todo)
           pc == IF e.todo = {c} THEN "write" ELSE "remove"
           l == Looked(e)
<1>1. c \in e.todo
  <2>1. e.todo \in SUBSET Changes
    BY DEF Removal
  <2> QED BY <2>1, FirstAndLast
<1>2. l = [e EXCEPT !.todo = @ \ {c}, !.pc = pc]
  BY DEF Looked
<1>3. pc \in {"remove", "write"} /\ (pc = "remove" => e.todo \ {c} # {})
  BY <1>1
<1> HIDE DEF c, pc, l
<1>4. l \in Removal
  BY <1>2, <1>3 DEF Removal
<1>5. l.copy = e.copy /\ l.todo = e.todo \ {c} /\ l.pc = pc /\ l.changed = e.changed
  BY <1>2 DEF Removal
<1> QED BY <1>3, <1>4, <1>5 DEF c, l

(* The steps of the removal keep the types. *)
LEMMA ExpirerType ==
  ASSUME TypeInv, FindExpired \/ Remove \/ ExpirerDies
  PROVE  TypeInv'
<1> DEFINE e == expirer
           c == Min(e.todo)
<1>0. /\ e \in Removal /\ (e.pc = "remove" => e.todo # {}) /\ e.copy \in Row
      /\ e.todo \in SUBSET Changes
  BY DEF TypeInv, TypeOK, Removal
<1>1. e.pc # "idle" => row.status # "absent" /\ e.copy.status # "absent"
  BY HeldExists
<1>2. /\ row \in Row /\ grants \subseteq Changes \X Marks
      /\ spoilt \subseteq Changes /\ faults \in 0 .. MaxFaults
  BY DEF TypeInv, TypeOK
<1>3. e.pc = "remove" => c \in e.todo /\ c \in Changes
  BY <1>0, FirstAndLast
<1>4. ASSUME FindExpired PROVE TypeInv'
  <2> DEFINE todo == In(row, "applied")
             n == [pc |-> "remove", copy |-> row, todo |-> todo, changed |-> FALSE]
  <2>1. /\ row.status = "approved" /\ todo # {}
        /\ expirer' = n /\ SpoilIfRaced
        /\ UNCHANGED <<row, grants, past, marks, handler, calls, faults>>
    BY <1>4 DEF FindExpired
  <2>2. todo \in SUBSET Changes
    BY DEF In
  <2> HIDE DEF todo
  <2>3. n \in Removal /\ n.copy = row /\ n.todo = todo
    BY <1>2, <2>2 DEF Removal
  <2> HIDE DEF n
  <2>4. spoilt' \in SUBSET Changes
    <3>1. (IF Alone THEN {} ELSE Changes) \in SUBSET Changes
      OBVIOUS
    <3> QED BY <2>1, <3>1, SpoilType DEF SpoilIfRaced, TypeInv
  <2> QED BY <1>2, <2>1, <2>3, <2>4, ExpirerStep
<1>5. ASSUME RemoveGrant PROVE TypeInv'
  <2> DEFINE l == Looked(e)
             n == [l EXCEPT !.copy.ch[c] = "expired", !.changed = TRUE]
             copy == [e.copy EXCEPT !.ch[c] = "expired"]
  <2>1. /\ e.pc = "remove" /\ expirer' = n
        /\ grants' \subseteq grants
        /\ UNCHANGED <<row, past, marks, handler, spoilt, calls, faults>>
    BY <1>5 DEF RemoveGrant
  <2>2. l \in Removal /\ l.copy = e.copy /\ (l.pc = "remove" => l.todo # {})
    BY <1>0, <2>1, LookedType
  <2> HIDE DEF e, c, l
  <2>3. copy \in Row /\ copy.status = e.copy.status
    BY <1>0, <1>3, <2>1 DEF Row, Statuses
  <2>4. n.copy = copy /\ n.pc = l.pc /\ n.todo = l.todo
    BY <2>2 DEF Removal
  <2> HIDE DEF copy
  <2>5. n \in Removal
    <3>1. n = [l EXCEPT !.copy = copy, !.changed = TRUE]
      BY <2>2 DEF Removal, copy
    <3> HIDE DEF n
    <3> QED BY <2>2, <2>3, <3>1 DEF Removal
  <2> HIDE DEF n
  <2>6. grants' \subseteq Changes \X Marks
    BY <1>2, <2>1
  <2> QED BY <1>1, <1>2, <2>1, <2>2, <2>3, <2>4, <2>5, <2>6, ExpirerStep DEF e
<1>6. ASSUME KeepGrant PROVE TypeInv'
  <2> DEFINE n == Looked(e)
  <2>1. /\ e.pc = "remove" /\ expirer' = n
        /\ faults' = faults \/ (faults < MaxFaults /\ faults' = faults + 1)
        /\ UNCHANGED <<row, grants, past, marks, handler, spoilt, calls>>
    BY <1>6 DEF KeepGrant
  <2>2. n \in Removal /\ n.copy = e.copy /\ (n.pc = "remove" => n.todo # {})
    BY <1>0, <2>1, LookedType
  <2> HIDE DEF n
  <2>3. faults' \in 0 .. MaxFaults
    BY <1>2, <2>1, BoundsAssumption
  <2> QED BY <1>1, <1>2, <2>1, <2>2, <2>3, ExpirerStep
<1>7. ASSUME WriteExpired PROVE TypeInv'
  <2> DEFINE r == [e.copy EXCEPT !.status = "expired"]
  <2>1. /\ e.pc = "write" /\ expirer' = Resting
        /\ Save(r) \/ UNCHANGED <<row, spoilt, faults>>
        /\ UNCHANGED <<grants, past, marks, handler, calls>>
    BY <1>7 DEF WriteExpired
  <2>2. r \in Row /\ r.status = "expired"
    BY <1>0 DEF Row, Open
  <2> HIDE DEF r
  <2>3. /\ row' \in Row /\ row' \in {r, row} /\ spoilt' \in SUBSET Changes
        /\ faults' \in 0 .. MaxFaults
    BY <1>2, <2>1, <2>2, SaveType DEF TypeInv
  <2>4. Resting.pc = "idle"
    BY DEF Resting
  <2> QED BY <1>1, <1>2, <2>1, <2>2, <2>3, <2>4, EmptyTypes, ExpirerStep
<1>8. ASSUME ExpirerDies PROVE TypeInv'
  <2>1. /\ e.pc # "idle" /\ expirer' = Resting /\ Spoil(Unsaved(e.copy))
        /\ faults < MaxFaults /\ faults' = faults + 1
        /\ UNCHANGED <<row, grants, past, marks, handler, calls>>
    BY <1>8 DEF ExpirerDies
  <2>2. Unsaved(e.copy) \in SUBSET Changes
    BY DEF Unsaved
  <2>3. spoilt' \in SUBSET Changes /\ faults' \in 0 .. MaxFaults
    BY <1>2, <2>1, <2>2, SpoilType, BoundsAssumption DEF TypeInv
  <2>4. Resting.pc = "idle"
    BY DEF Resting
  <2> QED BY <1>1, <1>2, <2>1, <2>3, <2>4, EmptyTypes, ExpirerStep
<1>9. ASSUME Halt PROVE TypeInv'
  <2>1. /\ e.pc = "remove" /\ expirer' = Resting /\ Spoil(Unsaved(e.copy))
        /\ UNCHANGED <<row, grants, past, marks, handler, calls, faults>>
    BY <1>9 DEF Halt
  <2>2. Unsaved(e.copy) \in SUBSET Changes
    BY DEF Unsaved
  <2>3. spoilt' \in SUBSET Changes
    BY <2>1, <2>2, SpoilType DEF TypeInv
  <2>4. Resting.pc = "idle"
    BY DEF Resting
  <2> QED BY <1>1, <1>2, <2>1, <2>3, <2>4, EmptyTypes, ExpirerStep
<1> QED BY <1>4, <1>5, <1>6, <1>7, <1>8, <1>9 DEF Remove

(* Every step keeps the types. *)
LEMMA TypeStep == TypeInv /\ [Next]_vars => TypeInv'
<1> SUFFICES ASSUME TypeInv, [Next]_vars PROVE TypeInv'
  OBVIOUS
<1>1. ASSUME NEW d \in 1 .. marks, Pass(d) PROVE TypeInv'
  <2>1. TypeOK'
    BY <1>1 DEF Pass, TypeInv, TypeOK
  <2>2. StartInv'
    BY <1>1 DEF Pass, TypeInv, StartInv, Alone, Busy
  <2> QED BY <2>1, <2>2 DEF TypeInv
<1>2. CASE UNCHANGED vars
  BY <1>2 DEF vars, TypeInv, TypeOK, StartInv, Alone, Busy
<1> QED BY <1>1, <1>2, CreateType, CommandType, ServeType, ExpirerType DEF Next

(* And the first state has them. *)
LEMMA TypeInit == Init => TypeInv
<1> SUFFICES ASSUME Init PROVE TypeInv
  OBVIOUS
<1>1. TypeOK
  BY EmptyTypes, IdleFields, BoundsAssumption DEF Init, TypeOK, Resting, Marks
<1>2. StartInv
  BY IdleFields DEF Init, StartInv, Alone, Busy, Resting
<1> QED BY <1>1, <1>2 DEF TypeInv

(***************************************************************************)
(* The type invariant: an apply and a removal always have a change to look *)
(* at, no date has passed that was not given, and a request is worked on   *)
(* only once it was created.                                               *)
(***************************************************************************)
LEMMA TypeInvariant == Spec => []TypeInv
BY TypeInit, TypeStep, PTL DEF Spec

(***************************************************************************)
(* The item, the grants, and the copies that calls and the removal hold    *)
(* have their types, an apply and a removal always have a change to look   *)
(* at, and no date has passed that was not given.                          *)
(***************************************************************************)
THEOREM TypeCorrect == Spec => []TypeOK
<1>1. TypeInv => TypeOK
  BY DEF TypeInv
<1> QED BY <1>1, TypeInvariant, PTL

-----------------------------------------------------------------------------
(***************************************************************************)
(* Coherent rows.  A copy whose changes are those of a coherent row and    *)
(* which is not more closed is coherent.                                   *)
(***************************************************************************)
LEMMA CoherentCopy ==
  ASSUME NEW r, NEW q, q.ch = r.ch, Coherent(r), q.status = r.status \/ q.status \notin Closed
  PROVE  Coherent(q)
BY DEF Coherent, In

(* One call goes on to hold something that is fit to be written. *)
LEMMA CarriesStep ==
  ASSUME CoherentInv, TypeInv', NEW h \in Handlers, NEW m, Carries(m),
         handler' = [handler EXCEPT ![h] = m],
         Coherent(row'), UNCHANGED expirer
  PROVE  CoherentInv'
<1>1. ASSUME NEW g \in Handlers PROVE Carries(handler'[g])
  BY DEF CoherentInv, TypeOK
<1>3. \A g \in Handlers : Carries(handler[g])'
  BY <1>1 DEF Carries, Coherent, In
<1>4. ClosedHasNothingApplied'
  BY DEF ClosedHasNothingApplied, Coherent, In
<1> QED BY <1>3, <1>4 DEF CoherentInv, TypeInv

(* Who holds nothing holds nothing unfit. *)
LEMMA CarriesIdle == Carries(Idle)
<1>1. Idle.copy = NoRow /\ NoRow.status = "absent"
  BY DEF Idle, NoRow
<1> QED BY <1>1, IdleFields DEF Carries, Coherent, Closed

(* A command may write what is coherent, and apply what is open. *)
LEMMA BeginCoherent ==
  ASSUME CoherentInv, TypeInv', NEW h \in Handlers,
         NEW pc \in {"apply", "write", "settle", "view"}, NEW copy \in Row,
         NEW todo \in SUBSET Changes, Coherent(copy),
         pc = "apply" => copy.status \notin Closed,
         Begin(h, pc, copy, todo)
  PROVE  CoherentInv'
<1> DEFINE m == Holding(pc, copy, todo)
<1>1. handler' = [handler EXCEPT ![h] = m] /\ UNCHANGED <<row, expirer>>
  BY DEF Begin, Holding
<1>2. m.pc = pc /\ m.copy = copy /\ m.rest = {} /\ ~m.post
  BY HoldingType
<1> HIDE DEF m
<1>3. Carries(m)
  BY <1>2 DEF Carries
<1>4. Coherent(row')
  BY <1>1 DEF CoherentInv, ClosedHasNothingApplied
<1> QED BY <1>1, <1>3, <1>4, CarriesStep

(***************************************************************************)
(* What each command makes of a coherent row is coherent.  A request is    *)
(* closed by a user only if nothing was applied, and nothing is applied    *)
(* to one that is closed.                                                  *)
(***************************************************************************)
LEMMA CommandCoherent ==
  ASSUME CoherentInv, TypeInv', NEW h \in Handlers, Command(h)
  PROVE  CoherentInv'
<1>0. row \in Row /\ Coherent(row)
  BY DEF CoherentInv, TypeOK, ClosedHasNothingApplied
<1>1. ASSUME AddComment(h) PROVE CoherentInv'
  <2>1. Begin(h, "write", row, {})
    BY <1>1 DEF AddComment
  <2> QED BY <1>0, <2>1, BeginCoherent
<1>2. ASSUME UpdateTtl(h) PROVE CoherentInv'
  <2> DEFINE copy == [row EXCEPT !.date = 0, !.ttl = TRUE]
  <2>1. Begin(h, "write", copy, {})
    BY <1>2 DEF UpdateTtl
  <2>2. copy \in Row /\ copy.status = row.status /\ copy.ch = row.ch
    <3>1. 0 \in Marks
      BY BoundsAssumption DEF Marks
    <3> QED BY <1>0, <3>1 DEF Row
  <2> HIDE DEF copy
  <2>3. Coherent(copy)
    BY <1>0, <2>2, CoherentCopy
  <2> QED BY <2>1, <2>2, <2>3, BeginCoherent
<1>3. ASSUME NEW status \in {"approved", "pending"},
             Begin(h, "write", [row EXCEPT !.status = status], {})
      PROVE  CoherentInv'
  <2> DEFINE copy == [row EXCEPT !.status = status]
  <2>1. Begin(h, "write", copy, {})
    BY <1>3
  <2>2. copy \in Row /\ copy.status \notin Closed /\ copy.ch = row.ch
    BY <1>0 DEF Row, Open, Closed
  <2> HIDE DEF copy
  <2>3. Coherent(copy)
    BY <1>0, <2>2, CoherentCopy
  <2> QED BY <2>1, <2>2, <2>3, BeginCoherent
<1>4. ASSUME ApproveRequest(h) PROVE CoherentInv'
  BY <1>3, <1>4 DEF ApproveRequest
<1>5. ASSUME MoveBackToPending(h) PROVE CoherentInv'
  BY <1>3, <1>5 DEF MoveBackToPending
<1>6. ASSUME NEW dated \in BOOLEAN, UpdateExpirationDate(h, dated)
      PROVE  CoherentInv'
  <2> DEFINE date == IF dated THEN marks + 1 ELSE 0
             redated == Redate(row, date, marks + 1)
             copy == [redated EXCEPT !.ttl = FALSE]
             m == [Idle EXCEPT !.pc = "write", !.copy = copy]
  <2>1. handler' = [handler EXCEPT ![h] = m] /\ UNCHANGED <<row, expirer>>
    BY <1>6 DEF UpdateExpirationDate
  <2>2. copy.status = row.status /\ copy.ch = row.ch
    BY <1>0 DEF Redate, Row
  <2> HIDE DEF copy
  <2>3. Coherent(copy)
    BY <1>0, <2>2, CoherentCopy
  <2>4. m.pc = "write" /\ m.copy = copy /\ m.rest = {} /\ ~m.post
    BY EmptyTypes, IdleFields DEF Memory
  <2> HIDE DEF m
  <2>5. Carries(m)
    BY <2>3, <2>4 DEF Carries
  <2>6. Coherent(row')
    BY <1>0, <2>1
  <2> QED BY <2>1, <2>5, <2>6, CarriesStep
<1>7. ASSUME NEW status \in Closed, CloseRequest(h, status) PROVE CoherentInv'
  <2> DEFINE copy == [row EXCEPT !.status = status]
  <2>1. CASE In(row, "applied") = {}
    <3>1. Begin(h, "write", copy, {})
      BY <1>7, <2>1 DEF CloseRequest
    <3>2. copy \in Row /\ copy.ch = row.ch
      BY <1>0 DEF Row
    <3> HIDE DEF copy
    <3>3. Coherent(copy)
      BY <2>1, <3>2 DEF Coherent, In
    <3> QED BY <3>1, <3>2, <3>3, BeginCoherent
  <2>2. CASE In(row, "applied") # {}
    <3>1. Begin(h, "settle", row, {})
      BY <1>7, <2>2 DEF CloseRequest
    <3> QED BY <1>0, <3>1, BeginCoherent
  <2> QED BY <2>1, <2>2
<1>8. ASSUME NEW c \in Changes, UpdateChange(h, c) PROVE CoherentInv'
  <2> DEFINE copy == [row EXCEPT !.auto = @ \ (Resource \cap {c})]
  <2>1. Begin(h, "write", copy, {})
    BY <1>8 DEF UpdateChange
  <2>2. copy \in Row /\ copy.status = row.status /\ copy.ch = row.ch
    BY <1>0 DEF Row
  <2> HIDE DEF copy
  <2>3. Coherent(copy)
    BY <1>0, <2>2, CoherentCopy
  <2> QED BY <2>1, <2>2, <2>3, BeginCoherent
<1>9. ASSUME NEW c \in Changes, CancelChange(h, c) PROVE CoherentInv'
  <2> DEFINE copy == [row EXCEPT !.ch[c] = "cancelled"]
  <2>1. Begin(h, "write", copy, {}) /\ row.status \notin Closed
    BY <1>9 DEF CancelChange
  <2>2. copy \in Row /\ copy.status = row.status
    BY <1>0 DEF Row, Statuses
  <2> HIDE DEF copy
  <2>3. Coherent(copy)
    BY <2>1, <2>2 DEF Coherent
  <2> QED BY <2>1, <2>2, <2>3, BeginCoherent
<1>10. ASSUME NEW c \in Changes, ApplyChange(h, c) PROVE CoherentInv'
  <2>1. Begin(h, "apply", row, {c}) /\ row.status \notin Closed
    BY <1>10 DEF ApplyChange
  <2> QED BY <1>0, <2>1, BeginCoherent
<1>11. ASSUME ApplyAllChanges(h) PROVE CoherentInv'
  <2> DEFINE todo == In(row, "not_applied")
             copy == [row EXCEPT !.supported = @ \cup todo]
             pc == IF todo = {} THEN "settle" ELSE "apply"
  <2>1. Begin(h, pc, copy, todo) /\ row.status \notin Closed
    BY <1>11 DEF ApplyAllChanges
  <2>2. todo \in SUBSET Changes
    BY DEF In
  <2>3. copy \in Row /\ copy.status = row.status
    <3> HIDE DEF todo
    <3> QED BY <1>0, <2>2 DEF Row
  <2>4. pc \in {"apply", "write", "settle", "view"}
    OBVIOUS
  <2> HIDE DEF copy, todo, pc
  <2>5. Coherent(copy)
    BY <2>1, <2>3 DEF Coherent
  <2> QED BY <2>1, <2>2, <2>3, <2>4, <2>5, BeginCoherent
<1>12. ASSUME View(h) PROVE CoherentInv'
  <2> DEFINE looked == (Resource \cup Lasting) \ In(row, "applied")
             copy == [row EXCEPT !.supported = (@ \ (looked \cap Resource))
                                   \cup ((looked \cap Resource) \ Foreign)]
  <2>1. Begin(h, "view", copy, {})
    BY <1>12 DEF View
  <2>2. copy \in Row /\ copy.status = row.status /\ copy.ch = row.ch
    <3> HIDE DEF looked
    <3> QED BY <1>0, ChangesAssumption DEF Row
  <2> HIDE DEF copy
  <2>3. Coherent(copy)
    BY <1>0, <2>2, CoherentCopy
  <2> QED BY <2>1, <2>2, <2>3, BeginCoherent
<1> QED BY <1>1, <1>2, <1>4, <1>5, <1>6, <1>7, <1>8, <1>9, <1>10, <1>11, <1>12
        DEF Command

(* A row a request is created with has nothing applied and is open. *)
LEMMA CreateCoherent ==
  ASSUME CoherentInv, TypeInv', NEW h \in Handlers, NEW approved \in BOOLEAN,
         NEW allowed \in BOOLEAN, NEW dated \in BOOLEAN, NEW ttl \in BOOLEAN,
         Create(h, approved, allowed, dated, ttl)
  PROVE  CoherentInv'
<1> DEFINE status == IF approved THEN "approved" ELSE "pending"
           mark == IF dated THEN 1 ELSE 0
           copy == [NoRow EXCEPT !.status = status, !.date = mark,
                                 !.mark = mark, !.ttl = ttl]
           own == Changes \ Generated
           new == [pc |-> "apply", copy |-> copy, todo |-> {Min(own)},
                   account |-> Min(own), rest |-> own \ {Min(own)}, post |-> TRUE]
           m == IF approved /\ allowed /\ own # {} THEN new ELSE handler[h]
<1>1. row' = copy /\ UNCHANGED expirer /\ handler' = [handler EXCEPT ![h] = m]
  BY DEF Create
<1>2. copy.status = status /\ copy.ch = [c \in Changes |-> "not_applied"]
  BY DEF NoRow
<1>3. status \notin Closed
  BY DEF Closed
<1> HIDE DEF copy, status
<1>4. copy.status \notin Closed /\ In(copy, "cancelled") = {} /\ Coherent(copy)
  BY <1>2, <1>3 DEF Coherent, In
<1>5. Carries(m)
  <2>1. new.copy = copy /\ new.post
    OBVIOUS
  <2> HIDE DEF new
  <2>2. Carries(new)
    BY <1>4, <2>1 DEF Carries
  <2> QED BY <2>2 DEF CoherentInv
<1> HIDE DEF m
<1> QED BY <1>1, <1>4, <1>5, CarriesStep

(* What is left of a command is as fit to be written as it was before. *)
LEMMA FinishedCarries ==
  ASSUME NEW m \in Memory, Carries(m) PROVE Carries(Finished(m))
<1> DEFINE n == Finished(m)
<1>1. CASE n.pc = "idle"
  BY <1>1, FinishedType, CarriesIdle
<1>2. CASE n.pc # "idle"
  <2>1. /\ n.pc \in {"apply", "final"} /\ n.copy = m.copy /\ n.post = m.post
        /\ n.pc = "apply" => m.rest # {}
        /\ n.pc = "final" => n.rest = {}
    BY <1>2, FinishedType
  <2> HIDE DEF n
  <2>2. Carries(n)
    BY <2>1 DEF Carries
  <2> QED BY <2>2 DEF n
<1> QED BY <1>1, <1>2

(***************************************************************************)
(* Nothing a call does closes a request that has an applied change: that a *)
(* request is settled as cancelled is so only if nothing was applied.      *)
(***************************************************************************)
LEMMA ServeCoherent ==
  ASSUME CoherentInv, TypeInv', NEW h \in Handlers, Serve(h) \/ Die(h)
  PROVE  CoherentInv'
<1> DEFINE m == handler[h]
           c == Min(m.todo)
<1>0. /\ m \in Memory /\ (m.pc \in {"apply", "record"} => m.todo # {})
      /\ m.copy \in Row /\ Carries(m) /\ Coherent(row) /\ Coherent(m.copy)
  BY DEF CoherentInv, TypeOK, Memory, ClosedHasNothingApplied, Carries
<1>1. m.pc \in {"apply", "record"} => c \in Changes
  <2>1. m.todo \in SUBSET Changes
    BY <1>0 DEF Memory
  <2> QED BY <1>0, <2>1, FirstAndLast
<1>2. Carries(Finished(m))
  BY <1>0, FinishedCarries
<1>3. ASSUME AccountUnknown(h) PROVE CoherentInv'
  <2> DEFINE n == Finished(m)
  <2>1. handler' = [handler EXCEPT ![h] = n] /\ UNCHANGED <<row, expirer>>
    BY <1>3 DEF AccountUnknown
  <2> HIDE DEF n, m
  <2> QED BY <1>0, <1>2, <2>1, CarriesStep DEF n
<1>4. ASSUME ApplyOne(h) PROVE CoherentInv'
  <2> DEFINE applied == [m.copy EXCEPT !.ch[c] = "applied"]
             copy == handler'[h].copy
  <2>1. m.pc = "apply" /\ Record(h, c) /\ UNCHANGED <<row, expirer>>
    BY <1>4 DEF ApplyOne
  <2>2. /\ applied.status = m.copy.status /\ applied \in Row
        /\ applied.ch = [m.copy.ch EXCEPT ![c] = "applied"]
    <3> HIDE DEF m, c
    <3> QED BY <1>0, <1>1, <2>1 DEF Row, Statuses
  <2>3. In(applied, "cancelled") \subseteq In(m.copy, "cancelled")
    <3> HIDE DEF m, c, applied
    <3> QED BY <1>0, <2>2 DEF In, Row
  <2>4. ASSUME NEW q, q.status = applied.status, q.ch = applied.ch,
               NEW n, n = [m EXCEPT !.pc = "record", !.copy = q]
        PROVE  Carries(n)
    <3>1. /\ q.status \notin Closed
          /\ m.post => In(q, "cancelled") = {}
          /\ m.rest # {} => m.post
      <4> HIDE DEF m, c, applied
      <4> QED BY <1>0, <2>1, <2>2, <2>3, <2>4 DEF Carries, In
    <3> HIDE DEF m, c, applied
    <3>2. n.copy = q /\ n.post = m.post /\ n.rest = m.rest
      BY <1>0, <2>4 DEF Memory
    <3> QED BY <3>1, <3>2 DEF Carries, Coherent
  <2>5. CASE m.copy.ttl
    <3> DEFINE q == Redate(applied, marks + 1, marks + 1)
               n == [m EXCEPT !.pc = "record", !.copy = q]
    <3>1. handler' = [handler EXCEPT ![h] = n]
      BY <2>1, <2>5 DEF Record
    <3>2. q.status = applied.status /\ q.ch = applied.ch
      <4> HIDE DEF applied
      <4> QED BY <2>2 DEF Redate, Row
    <3> HIDE DEF q
    <3>3. Carries(n)
      <4> HIDE DEF applied, m
      <4> QED BY <2>4, <3>2
    <3> HIDE DEF n, m
    <3> QED BY <1>0, <2>1, <3>1, <3>3, CarriesStep
  <2>6. CASE ~m.copy.ttl
    <3> DEFINE n == [m EXCEPT !.pc = "record", !.copy = applied]
    <3>1. handler' = [handler EXCEPT ![h] = n]
      BY <2>1, <2>6 DEF Record
    <3>2. Carries(n)
      <4> HIDE DEF applied, m
      <4> QED BY <2>4
    <3> HIDE DEF n, m
    <3> QED BY <1>0, <2>1, <3>1, <3>2, CarriesStep
  <2> QED BY <2>5, <2>6
<1>5. ASSUME m.pc \in {"apply", "record"} PROVE Carries(Tried(m, c))
  <2> HIDE DEF m, c
  <2> DEFINE n == Tried(m, c)
  <2>1. /\ n.pc \in {"apply", "settle"} /\ n.copy = m.copy /\ n.rest = m.rest
        /\ n.post = m.post
    BY <1>0, <1>5, TriedType
  <2> HIDE DEF n
  <2>2. Carries(n)
    BY <1>0, <1>5, <2>1 DEF Carries
  <2> QED BY <2>2 DEF n
<1>6. ASSUME ApplyFails(h) PROVE CoherentInv'
  <2> DEFINE n == Tried(m, c)
  <2>1. /\ m.pc = "apply" /\ handler' = [handler EXCEPT ![h] = n]
        /\ UNCHANGED <<row, expirer>>
    BY <1>6 DEF ApplyFails
  <2>2. Carries(n)
    BY <1>5, <2>1
  <2> HIDE DEF n, m, c
  <2> QED BY <1>0, <2>1, <2>2, CarriesStep
<1>7. ASSUME RecordChange(h) PROVE CoherentInv'
  <2> DEFINE n == Tried(m, c)
  <2>1. /\ m.pc = "record" /\ handler' = [handler EXCEPT ![h] = n]
        /\ UNCHANGED expirer /\ row' \in {row, m.copy}
    BY <1>7 DEF RecordChange, Save
  <2>2. Carries(n)
    BY <1>5, <2>1
  <2> HIDE DEF n, m, c
  <2> QED BY <1>0, <2>1, <2>2, CarriesStep
<1>8. ASSUME Write(h) PROVE CoherentInv'
  <2> DEFINE n == [m EXCEPT !.pc = "settle"]
  <2>1. /\ handler' = [handler EXCEPT ![h] = n]
        /\ UNCHANGED expirer /\ row' \in {row, m.copy}
    BY <1>8 DEF Write, Save
  <2>2. Carries(n)
    <3> HIDE DEF m
    <3>1. n.pc = "settle" /\ n.copy = m.copy /\ n.post = m.post /\ n.rest = m.rest
      BY <1>0 DEF Memory
    <3> HIDE DEF n
    <3> QED BY <1>0, <3>1 DEF Carries
  <2> HIDE DEF n, m
  <2> QED BY <1>0, <2>1, <2>2, CarriesStep
<1>9. ASSUME Settle(h) PROVE CoherentInv'
  <2> DEFINE settled == [m.copy EXCEPT !.status = SettledStatus(m.copy)]
             n == [m EXCEPT !.copy = settled]
             next == Finished(n)
  <2>1. /\ m.pc = "settle" /\ row' \in {row, settled} /\ UNCHANGED expirer
        /\ handler' = [handler EXCEPT ![h] = next]
    BY <1>9 DEF Settle, Save
  <2>2. /\ SettledStatus(m.copy) \in {"approved", "cancelled", m.copy.status}
        /\ SettledStatus(m.copy) = "cancelled" =>
             \/ m.copy.status = "cancelled"
             \/ In(m.copy, "applied") = {} /\ In(m.copy, "cancelled") # {}
    BY DEF SettledStatus
  <2> HIDE DEF m
  <2>3. /\ settled \in Row /\ settled.status = SettledStatus(m.copy)
        /\ settled.ch = m.copy.ch
    BY <1>0, <2>2 DEF Row, Open, Closed
  <2> HIDE DEF settled
  <2>4. Coherent(settled)
    BY <1>0, <2>2, <2>3 DEF Coherent, In, Closed
  <2>5. n \in Memory /\ n.pc = "settle" /\ n.copy = settled
        /\ n.post = m.post /\ n.rest = m.rest
    BY <1>0, <2>1, <2>3 DEF Memory
  <2> HIDE DEF n
  <2>6. Carries(n)
    BY <1>0, <2>2, <2>3, <2>4, <2>5 DEF Carries, In, Closed
  <2>7. Carries(next)
    BY <2>5, <2>6, FinishedCarries
  <2> HIDE DEF next
  <2> QED BY <1>0, <2>1, <2>4, <2>7, CarriesStep
<1>10. ASSUME WriteBack(h) PROVE CoherentInv'
  <2>1. /\ handler' = [handler EXCEPT ![h] = Idle]
        /\ UNCHANGED expirer /\ row' = m.copy
    BY <1>10 DEF WriteBack
  <2> HIDE DEF m
  <2> QED BY <1>0, <2>1, CarriesIdle, CarriesStep
<1>11. ASSUME Die(h) PROVE CoherentInv'
  <2>1. handler' = [handler EXCEPT ![h] = Idle] /\ UNCHANGED <<row, expirer>>
    BY <1>11 DEF Die
  <2> HIDE DEF m
  <2>2. Coherent(row')
    BY <1>0, <2>1
  <2> QED BY <2>1, <2>2, CarriesIdle, CarriesStep
<1> QED BY <1>3, <1>4, <1>6, <1>7, <1>8, <1>9, <1>10, <1>11 DEF Serve

(* The removal holds an open request until it ends, and leaves one. *)
LEMMA ExpirerCoherent ==
  ASSUME CoherentInv, TypeInv', FindExpired \/ Remove \/ ExpirerDies
  PROVE  CoherentInv'
<1> DEFINE e == expirer
           c == Min(e.todo)
<1>0. /\ e \in Removal /\ e.copy \in Row /\ Coherent(row)
      /\ e.pc = "remove" => e.todo # {}
      /\ e.pc # "idle" => e.copy.status \notin Closed
  BY DEF CoherentInv, TypeOK, Removal, ClosedHasNothingApplied
<1>1. ASSUME UNCHANGED handler, Coherent(row'),
             expirer'.pc # "idle" => expirer'.copy.status \notin Closed
      PROVE  CoherentInv'
  <2>1. \A h \in Handlers : Carries(handler[h])'
    BY <1>1 DEF CoherentInv, Carries, Coherent, In
  <2>2. ClosedHasNothingApplied'
    BY <1>1 DEF ClosedHasNothingApplied, Coherent, In
  <2> QED BY <1>1, <2>1, <2>2 DEF CoherentInv, TypeInv
<1>2. ASSUME FindExpired PROVE CoherentInv'
  <2>1. /\ row.status = "approved" /\ expirer'.copy = row /\ UNCHANGED <<row, handler>>
    BY <1>2 DEF FindExpired
  <2>2. row.status \notin Closed
    BY <2>1 DEF Closed
  <2> QED BY <1>0, <1>1, <2>1, <2>2
<1>3. ASSUME RemoveGrant PROVE CoherentInv'
  <2> DEFINE l == Looked(e)
  <2>1. /\ e.pc = "remove" /\ UNCHANGED <<row, handler>>
        /\ expirer' = [l EXCEPT !.copy.ch[c] = "expired", !.changed = TRUE]
    BY <1>3 DEF RemoveGrant
  <2>2. l \in Removal /\ l.copy = e.copy
    BY <1>0, <2>1, LookedType
  <2> HIDE DEF l, e, c
  <2>3. expirer'.copy.status = e.copy.status
    BY <1>0, <2>1, <2>2 DEF Removal, Row
  <2> QED BY <1>0, <1>1, <2>1, <2>3
<1>4. ASSUME KeepGrant PROVE CoherentInv'
  <2>1. e.pc = "remove" /\ expirer' = Looked(e) /\ UNCHANGED <<row, handler>>
    BY <1>4 DEF KeepGrant
  <2>2. Looked(e).copy = e.copy
    BY <1>0, <2>1, LookedType
  <2> QED BY <1>0, <1>1, <2>1, <2>2
<1>5. ASSUME WriteExpired PROVE CoherentInv'
  <2> DEFINE r == [e.copy EXCEPT !.status = "expired"]
  <2>1. expirer' = Resting /\ UNCHANGED handler /\ row' \in {row, r}
    BY <1>5 DEF WriteExpired, Save
  <2>2. r.status = "expired"
    BY <1>0 DEF Row
  <2> HIDE DEF r
  <2>3. Coherent(row')
    BY <1>0, <2>1, <2>2 DEF Coherent, Closed
  <2>4. Resting.pc = "idle"
    BY DEF Resting
  <2> QED BY <1>1, <2>1, <2>3, <2>4
<1>6. ASSUME Halt \/ ExpirerDies PROVE CoherentInv'
  <2>1. expirer' = Resting /\ UNCHANGED <<row, handler>> /\ Resting.pc = "idle"
    BY <1>6 DEF Halt, ExpirerDies, Resting
  <2> QED BY <1>0, <1>1, <2>1
<1> QED BY <1>2, <1>3, <1>4, <1>5, <1>6 DEF Remove

(* Every step keeps the copies coherent, *)
LEMMA CoherentStep == CoherentInv /\ TypeInv' /\ [Next]_vars => CoherentInv'
<1> SUFFICES ASSUME CoherentInv, TypeInv', [Next]_vars PROVE CoherentInv'
  OBVIOUS
<1>1. ASSUME UNCHANGED <<row, handler, expirer>> PROVE CoherentInv'
  BY <1>1 DEF CoherentInv, TypeInv, ClosedHasNothingApplied, Carries, Coherent, In
<1>2. ASSUME NEW d \in 1 .. marks, Pass(d) PROVE CoherentInv'
  BY <1>1, <1>2 DEF Pass
<1>3. CASE UNCHANGED vars
  BY <1>1, <1>3 DEF vars
<1> QED BY <1>2, <1>3, CreateCoherent, CommandCoherent, ServeCoherent,
           ExpirerCoherent DEF Next

(* as they are in the beginning. *)
LEMMA CoherentInit == Init => CoherentInv
<1> SUFFICES ASSUME Init PROVE CoherentInv
  OBVIOUS
<1>1. TypeOK
  BY TypeInit DEF TypeInv
<1>2. row.status = "absent" /\ \A h \in Handlers : Carries(handler[h])
  BY CarriesIdle DEF Init, NoRow
<1>3. expirer.pc = "idle"
  BY DEF Init, Resting
<1> QED BY <1>1, <1>2, <1>3 DEF CoherentInv, ClosedHasNothingApplied, Coherent, Closed

(***************************************************************************)
(* No cancelled or rejected request has a change that was applied, however *)
(* the copies of the calls are interleaved, though each is written back as *)
(* a whole: a copy that closes the request was read before anything was    *)
(* applied, and one that applies something is of an open request.          *)
(***************************************************************************)
THEOREM ClosedCorrect == Spec => []ClosedHasNothingApplied
<1>1. CoherentInv => ClosedHasNothingApplied
  BY DEF CoherentInv
<1>2. TypeInv /\ TypeInv' /\ CoherentInv /\ [Next]_vars => CoherentInv'
  BY CoherentStep
<1> QED BY <1>1, <1>2, TypeInvariant, CoherentInit, PTL DEF Spec

-----------------------------------------------------------------------------
(***************************************************************************)
(* Right records.  What Right says of a row, for any set of grants.        *)
(***************************************************************************)
RightIn(r, c, G) ==
  /\ r.ch[c] = "applied" <=> \E m \in Marks : <<c, m>> \in G
  /\ \A m \in Marks : <<c, m>> \in G => m = MarkOf(r, c)

(* For the grants as they are. *)
LEMMA RightIsRightIn == \A r, c : Right(r, c) <=> RightIn(r, c, grants)
BY DEF Right, RightIn, Granted, MarkOf

(* Records that agree on a change are right about it or wrong together. *)
LEMMA SameRight ==
  ASSUME NEW r, NEW q, NEW c, NEW G, NEW H,
         q.ch[c] = "applied" <=> r.ch[c] = "applied",
         q.mark = r.mark \/ c \notin Marked \/ r.ch[c] # "applied",
         \A m \in Marks : <<c, m>> \in G <=> <<c, m>> \in H,
         RightIn(r, c, G)
  PROVE  RightIn(q, c, H)
BY DEF RightIn, MarkOf

(* What a call that holds m knows, once the row is r and the grants are G. *)
KnowsIn(m, c, r, G) ==
  /\ RightIn(m.copy, c, G)
  /\ m.copy.ch[c] = r.ch[c] => RightIn(r, c, G)
  /\ m.pc \in {"apply", "settle", "view", "final"} => m.copy.ch[c] = r.ch[c]

(***************************************************************************)
(* The step of one call, when nobody else holds a copy or nothing is sure  *)
(* any more.                                                               *)
(***************************************************************************)
LEMMA RecordStep ==
  ASSUME RecordInv, TypeInv', NEW h \in Handlers, NEW m,
         handler' = [handler EXCEPT ![h] = m], UNCHANGED expirer,
         spoilt' # Changes => Busy \subseteq {h} /\ expirer.pc = "idle",
         m.pc # "idle" => ToApply(m),
         \A c \in Changes \ (spoilt' \cup ReadOnly) :
           /\ m.pc = "idle" => RightIn(row', c, grants')
           /\ m.pc # "idle" => KnowsIn(m, c, row', grants')
  PROVE  RecordInv'
<1>0. handler'[h] = m /\ \A g \in Handlers \ {h} : handler'[g] = handler[g]
  BY DEF RecordInv, TypeOK
<1>1. \A g \in Busy' : g # h => g \in Busy
  BY <1>0 DEF Busy
<1>2. ASSUME NEW g \in Busy' PROVE ToApply(handler[g])'
  <2>1. ToApply(handler'[g])
    BY <1>0, <1>1 DEF RecordInv, Busy
  <2> QED BY <2>1 DEF ToApply, In
<1>3. spoilt' # Changes => Busy' \subseteq {h} /\ expirer'.pc = "idle"
  BY <1>1
<1>4. ASSUME NEW c \in Sure'
      PROVE  /\ Alone' => Right(row, c)'
             /\ \A g \in Busy' : HandlerRight(handler[g], c)'
             /\ expirer'.pc # "idle" => ExpirerRight(c)'
  <2>1. c \in Changes \ (spoilt' \cup ReadOnly) /\ spoilt' # Changes
    BY DEF Sure, TypeInv, TypeOK
  <2>2. Busy' \subseteq {h} /\ expirer'.pc = "idle"
    BY <1>3, <2>1
  <2>3. ASSUME Alone' PROVE Right(row, c)'
    <3>1. m.pc = "idle"
      BY <1>0, <2>3 DEF Alone, Busy
    <3>2. RightIn(row', c, grants')
      BY <2>1, <3>1
    <3> QED BY <3>2 DEF Right, RightIn, Granted, MarkOf
  <2>4. ASSUME NEW g \in Busy' PROVE HandlerRight(handler[g], c)'
    <3>1. g = h /\ m.pc # "idle"
      BY <1>0, <2>2, <2>4 DEF Busy
    <3>2. KnowsIn(handler'[g], c, row', grants')
      BY <1>0, <2>1, <3>1
    <3> QED BY <3>2 DEF KnowsIn, HandlerRight, Right, RightIn, Granted, MarkOf
  <2> QED BY <2>2, <2>3, <2>4
<1> QED BY <1>2, <1>3, <1>4 DEF RecordInv, TypeInv

(***************************************************************************)
(* The step of the removal.                                                *)
(***************************************************************************)
LEMMA RemovalStep ==
  ASSUME RecordInv, TypeInv', UNCHANGED handler,
         spoilt' # Changes => Busy = {},
         \A c \in Changes \ (spoilt' \cup ReadOnly) :
           /\ expirer'.pc = "idle" => RightIn(row', c, grants')
           /\ expirer'.pc # "idle" =>
                /\ RightIn(expirer'.copy, c, grants')
                /\ expirer'.copy.ch[c] = row'.ch[c] => RightIn(row', c, grants')
                /\ ~expirer'.changed => expirer'.copy.ch[c] = row'.ch[c]
  PROVE  RecordInv'
<1>1. Busy' = Busy
  BY DEF Busy
<1>2. ASSUME NEW g \in Busy' PROVE ToApply(handler[g])'
  BY <1>1 DEF RecordInv, ToApply, In
<1>3. ASSUME NEW c \in Sure'
      PROVE  /\ Alone' => Right(row, c)'
             /\ Busy' = {}
             /\ expirer'.pc # "idle" => ExpirerRight(c)'
  <2>1. c \in Changes \ (spoilt' \cup ReadOnly) /\ spoilt' # Changes
    BY DEF Sure, TypeInv, TypeOK
  <2>2. ASSUME Alone' PROVE Right(row, c)'
    <3>1. RightIn(row', c, grants')
      BY <2>1, <2>2 DEF Alone
    <3> QED BY <3>1 DEF Right, RightIn, Granted, MarkOf
  <2>3. ASSUME expirer'.pc # "idle" PROVE ExpirerRight(c)'
    <3>1. /\ RightIn(expirer'.copy, c, grants')
          /\ expirer'.copy.ch[c] = row'.ch[c] => RightIn(row', c, grants')
          /\ ~expirer'.changed => expirer'.copy.ch[c] = row'.ch[c]
      BY <2>1, <2>3
    <3> QED BY <3>1 DEF ExpirerRight, Right, RightIn, Granted, MarkOf
  <2> QED BY <1>1, <2>1, <2>2, <2>3
<1> QED BY <1>1, <1>2, <1>3 DEF RecordInv, TypeInv

(* What is known before a step of one call. *)
LEMMA HandlerKnows ==
  ASSUME RecordInv, NEW h \in Handlers, handler[h].pc # "idle",
         spoilt' \in SUBSET Changes, spoilt \subseteq spoilt'
  PROVE  /\ spoilt' # Changes => Busy \subseteq {h} /\ expirer.pc = "idle"
         /\ ToApply(handler[h])
         /\ \A c \in Changes \ (spoilt' \cup ReadOnly) :
              KnowsIn(handler[h], c, row, grants)
<1>1. h \in Busy /\ spoilt \in SUBSET Changes
  BY DEF Busy, RecordInv, TypeOK
<1>2. spoilt' # Changes => spoilt # Changes
  BY <1>1
<1>3. ASSUME NEW c \in Changes \ (spoilt' \cup ReadOnly)
      PROVE  KnowsIn(handler[h], c, row, grants)
  <2>1. c \in Sure
    BY DEF Sure
  <2>2. HandlerRight(handler[h], c)
    BY <1>1, <2>1 DEF RecordInv
  <2> QED BY <2>2, RightIsRightIn DEF HandlerRight, KnowsIn
<1> QED BY <1>1, <1>2, <1>3 DEF RecordInv

(* What is known before somebody takes a copy. *)
LEMMA AloneKnows ==
  ASSUME RecordInv, Alone, NEW c \in Changes \ (spoilt \cup ReadOnly)
  PROVE  RightIn(row, c, grants)
<1>1. c \in Sure
  BY DEF Sure
<1> QED BY <1>1, RightIsRightIn DEF RecordInv

(* A copy that is taken while another is out spoils everything. *)
LEMMA RacedSpoils ==
  ASSUME TypeOK, SpoilIfRaced
  PROVE  /\ spoilt \subseteq spoilt' /\ spoilt' \in SUBSET Changes
         /\ spoilt' # Changes => Alone
BY DEF SpoilIfRaced, Spoil, TypeOK

(***************************************************************************)
(* A command takes a copy of a record that is right, and says nothing new  *)
(* of what was applied.                                                    *)
(***************************************************************************)
LEMMA BeginRecord ==
  ASSUME RecordInv, TypeInv', NEW h \in Handlers,
         NEW pc \in {"apply", "write", "settle", "view"}, NEW copy \in Row,
         NEW todo \in SUBSET Changes,
         \A c \in Changes : copy.ch[c] = "applied" <=> row.ch[c] = "applied",
         copy.mark = row.mark, pc # "write" => copy.ch = row.ch,
         pc = "apply" => todo \subseteq In(row, "not_applied"),
         Begin(h, pc, copy, todo)
  PROVE  RecordInv'
<1> DEFINE m == Holding(pc, copy, todo)
<1>1. /\ handler' = [handler EXCEPT ![h] = m] /\ SpoilIfRaced
      /\ UNCHANGED <<row, grants, expirer>>
  BY DEF Begin, Holding
<1>2. m.pc = pc /\ m.copy = copy /\ m.todo = todo /\ m.rest = {}
  BY HoldingType
<1> HIDE DEF m
<1>3. /\ spoilt \subseteq spoilt' /\ spoilt' \in SUBSET Changes
      /\ spoilt' # Changes => Alone
  BY <1>1, RacedSpoils DEF RecordInv
<1>4. ToApply(m)
  BY <1>2 DEF ToApply, In
<1>5. ASSUME NEW c \in Changes \ (spoilt' \cup ReadOnly)
      PROVE  KnowsIn(m, c, row', grants')
  <2>1. Alone
    BY <1>3, <1>5
  <2>2. RightIn(row, c, grants)
    BY <1>3, <2>1, AloneKnows
  <2>3. RightIn(copy, c, grants)
    BY <2>2, SameRight
  <2> QED BY <1>1, <1>2, <2>2, <2>3 DEF KnowsIn
<1>6. spoilt' # Changes => Busy \subseteq {h} /\ expirer.pc = "idle"
  BY <1>3 DEF Alone
<1>7. m.pc # "idle"
  BY <1>2
<1> QED BY <1>1, <1>4, <1>5, <1>6, <1>7, RecordStep

(***************************************************************************)
(* The commands.  A cancelled change was not applied; a new date is a new  *)
(* mark, which is not that of what was granted before, and spoils it.      *)
(***************************************************************************)
LEMMA CommandRecord ==
  ASSUME RecordInv, TypeInv', NEW h \in Handlers, Command(h)
  PROVE  RecordInv'
<1>0. row \in Row
  BY DEF RecordInv, TypeOK
<1>1. ASSUME NEW copy \in Row, copy.ch = row.ch, copy.mark = row.mark,
             Begin(h, "write", copy, {})
      PROVE  RecordInv'
  BY <1>1, BeginRecord
<1>2. ASSUME AddComment(h) PROVE RecordInv'
  BY <1>0, <1>1, <1>2 DEF AddComment
<1>3. ASSUME UpdateTtl(h) PROVE RecordInv'
  <2> DEFINE copy == [row EXCEPT !.date = 0, !.ttl = TRUE]
  <2>1. Begin(h, "write", copy, {})
    BY <1>3 DEF UpdateTtl
  <2>2. copy \in Row /\ copy.ch = row.ch /\ copy.mark = row.mark
    <3>1. 0 \in Marks
      BY BoundsAssumption DEF Marks
    <3> QED BY <1>0, <3>1 DEF Row
  <2> HIDE DEF copy
  <2> QED BY <1>1, <2>1, <2>2
<1>4. ASSUME NEW status \in {"approved", "pending"} \cup Closed,
             Begin(h, "write", [row EXCEPT !.status = status], {})
      PROVE  RecordInv'
  <2> DEFINE copy == [row EXCEPT !.status = status]
  <2>1. copy \in Row /\ copy.ch = row.ch /\ copy.mark = row.mark
    BY <1>0 DEF Row, Open
  <2>2. Begin(h, "write", copy, {})
    BY <1>4
  <2> HIDE DEF copy
  <2> QED BY <1>1, <2>1, <2>2
<1>5. ASSUME ApproveRequest(h) PROVE RecordInv'
  BY <1>4, <1>5 DEF ApproveRequest
<1>6. ASSUME MoveBackToPending(h) PROVE RecordInv'
  BY <1>4, <1>6 DEF MoveBackToPending
<1>7. ASSUME NEW dated \in BOOLEAN, UpdateExpirationDate(h, dated)
      PROVE  RecordInv'
  <2> DEFINE date == IF dated THEN marks + 1 ELSE 0
             redated == Redate(row, date, marks + 1)
             copy == [redated EXCEPT !.ttl = FALSE]
             m == [Idle EXCEPT !.pc = "write", !.copy = copy]
             C == IF Alone THEN In(row, "applied") \cap Marked ELSE Changes
  <2>1. /\ handler' = [handler EXCEPT ![h] = m] /\ Spoil(C)
        /\ UNCHANGED <<row, grants, expirer>>
    BY <1>7 DEF UpdateExpirationDate
  <2>2. copy.ch = row.ch
    BY <1>0 DEF Redate, Row
  <2> HIDE DEF copy
  <2>3. m.pc = "write" /\ m.copy = copy /\ m.todo = {} /\ m.rest = {}
    BY EmptyTypes, IdleFields DEF Memory
  <2> HIDE DEF m
  <2>4. ToApply(m)
    BY <2>3 DEF ToApply
  <2>5. spoilt' = spoilt \cup C /\ spoilt \in SUBSET Changes /\ C \in SUBSET Changes
    BY <2>1 DEF Spoil, In, RecordInv, TypeOK
  <2>6. spoilt' # Changes => Alone
    BY <2>5
  <2>7. ASSUME NEW c \in Changes \ (spoilt' \cup ReadOnly)
        PROVE  KnowsIn(m, c, row', grants')
    <3>1. Alone
      BY <2>6, <2>7
    <3>2. c \notin Marked \/ row.ch[c] # "applied"
      BY <2>5, <2>7, <3>1 DEF In
    <3>3. RightIn(row, c, grants)
      BY <2>5, <2>7, <3>1, AloneKnows
    <3> HIDE DEF C
    <3>4. RightIn(copy, c, grants)
      BY <2>2, <3>2, <3>3, SameRight
    <3> QED BY <2>1, <2>2, <2>3, <3>3, <3>4 DEF KnowsIn
  <2>8. spoilt' # Changes => Busy \subseteq {h} /\ expirer.pc = "idle"
    BY <2>6 DEF Alone
  <2>9. m.pc # "idle"
    BY <2>3
  <2> QED BY <2>1, <2>4, <2>7, <2>8, <2>9, RecordStep
<1>8. ASSUME NEW status \in Closed, CloseRequest(h, status) PROVE RecordInv'
  <2>1. CASE In(row, "applied") = {}
    BY <1>4, <1>8, <2>1 DEF CloseRequest
  <2>2. CASE In(row, "applied") # {}
    <3>1. Begin(h, "settle", row, {})
      BY <1>8, <2>2 DEF CloseRequest
    <3> QED BY <1>0, <3>1, BeginRecord
  <2> QED BY <2>1, <2>2
<1>9. ASSUME NEW c \in Changes, UpdateChange(h, c) PROVE RecordInv'
  <2> DEFINE copy == [row EXCEPT !.auto = @ \ (Resource \cap {c})]
  <2>1. Begin(h, "write", copy, {})
    BY <1>9 DEF UpdateChange
  <2>2. copy \in Row /\ copy.ch = row.ch /\ copy.mark = row.mark
    BY <1>0 DEF Row
  <2> HIDE DEF copy
  <2> QED BY <1>1, <2>1, <2>2
<1>10. ASSUME NEW c \in Changes, CancelChange(h, c) PROVE RecordInv'
  <2> DEFINE copy == [row EXCEPT !.ch[c] = "cancelled"]
  <2>1. Begin(h, "write", copy, {}) /\ row.ch[c] = "not_applied"
    BY <1>10 DEF CancelChange
  <2>2. /\ copy \in Row /\ copy.mark = row.mark
        /\ \A d \in Changes : copy.ch[d] = "applied" <=> row.ch[d] = "applied"
    BY <1>0, <2>1 DEF Row, Statuses
  <2> HIDE DEF copy
  <2> QED BY <2>1, <2>2, BeginRecord
<1>11. ASSUME NEW c \in Changes, ApplyChange(h, c) PROVE RecordInv'
  <2>1. Begin(h, "apply", row, {c}) /\ {c} \subseteq In(row, "not_applied")
    BY <1>11 DEF ApplyChange, In
  <2> QED BY <1>0, <2>1, BeginRecord
<1>12. ASSUME ApplyAllChanges(h) PROVE RecordInv'
  <2> DEFINE todo == In(row, "not_applied")
             copy == [row EXCEPT !.supported = @ \cup todo]
             pc == IF todo = {} THEN "settle" ELSE "apply"
  <2>1. Begin(h, pc, copy, todo)
    BY <1>12 DEF ApplyAllChanges
  <2>2. todo \in SUBSET Changes /\ todo \subseteq In(row, "not_applied")
    BY DEF In
  <2>3. copy \in Row /\ copy.ch = row.ch /\ copy.mark = row.mark
    <3> HIDE DEF todo
    <3> QED BY <1>0, <2>2 DEF Row
  <2>4. pc \in {"apply", "write", "settle", "view"}
    OBVIOUS
  <2> HIDE DEF copy, todo, pc
  <2> QED BY <2>1, <2>2, <2>3, <2>4, BeginRecord
<1>13. ASSUME View(h) PROVE RecordInv'
  <2> DEFINE looked == (Resource \cup Lasting) \ In(row, "applied")
             copy == [row EXCEPT !.supported = (@ \ (looked \cap Resource))
                                   \cup ((looked \cap Resource) \ Foreign)]
  <2>1. Begin(h, "view", copy, {})
    BY <1>13 DEF View
  <2>2. copy \in Row /\ copy.ch = row.ch /\ copy.mark = row.mark
    <3> HIDE DEF looked
    <3> QED BY <1>0, ChangesAssumption DEF Row
  <2> HIDE DEF copy
  <2> QED BY <2>1, <2>2, BeginRecord
<1> QED BY <1>2, <1>3, <1>5, <1>6, <1>7, <1>8, <1>9, <1>10, <1>11, <1>12, <1>13
        DEF Command

(* A new request has nothing applied, and nothing is granted for it. *)
LEMMA CreateRecord ==
  ASSUME RecordInv, TypeInv', NEW h \in Handlers, NEW approved \in BOOLEAN,
         NEW allowed \in BOOLEAN, NEW dated \in BOOLEAN, NEW ttl \in BOOLEAN,
         Create(h, approved, allowed, dated, ttl)
  PROVE  RecordInv'
<1> DEFINE status == IF approved THEN "approved" ELSE "pending"
           mark == IF dated THEN 1 ELSE 0
           copy == [NoRow EXCEPT !.status = status, !.date = mark,
                                 !.mark = mark, !.ttl = ttl]
           own == Changes \ Generated
           new == [pc |-> "apply", copy |-> copy, todo |-> {Min(own)},
                   account |-> Min(own), rest |-> own \ {Min(own)}, post |-> TRUE]
           m == IF approved /\ allowed /\ own # {} THEN new ELSE handler[h]
<1>1. /\ row' = copy /\ UNCHANGED <<expirer, grants, spoilt>>
      /\ row.status = "absent" /\ handler' = [handler EXCEPT ![h] = m]
  BY DEF Create
<1>2. Alone /\ grants = {}
  BY <1>1 DEF RecordInv, StartInv
<1>3. copy.ch = [c \in Changes |-> "not_applied"]
  BY DEF NoRow
<1> HIDE DEF copy
<1>4. \A c \in Changes : RightIn(copy, c, grants')
  BY <1>1, <1>2, <1>3 DEF RightIn
<1>5. In(copy, "not_applied") = Changes
  BY <1>3 DEF In
<1>6. CASE approved /\ allowed /\ own # {}
  <2>1. own \subseteq Changes /\ Min(own) \in own
    BY <1>6, FirstAndLast
  <2> HIDE DEF own
  <2>2. m = new /\ new.pc = "apply" /\ new.copy = copy /\ new.todo = {Min(own)}
        /\ new.rest = own \ {Min(own)}
    BY <1>6
  <2> HIDE DEF new, m
  <2>3. ToApply(new)
    BY <1>5, <2>1, <2>2 DEF ToApply
  <2>4. \A c \in Changes : KnowsIn(new, c, row', grants')
    BY <1>1, <1>4, <2>2 DEF KnowsIn
  <2>5. m.pc # "idle" /\ ToApply(m) /\ \A c \in Changes : KnowsIn(m, c, row', grants')
    BY <2>2, <2>3, <2>4
  <2> QED BY <1>1, <1>2, <2>5, RecordStep DEF Alone
<1>7. CASE ~(approved /\ allowed /\ own # {})
  <2>1. m = handler[h]
    BY <1>7
  <2> HIDE DEF m
  <2>2. m.pc = "idle"
    BY <1>2, <2>1 DEF Alone, Busy
  <2> QED BY <1>1, <1>2, <1>4, <2>2, RecordStep DEF Alone
<1> QED BY <1>6, <1>7

(* What is left of a command knows what the command knew. *)
LEMMA FinishedRecord ==
  ASSUME NEW m \in Memory, ToApply(m)
  PROVE  /\ Finished(m).pc # "idle" => ToApply(Finished(m))
         /\ \A c, r, G :
              KnowsIn(m, c, r, G) /\ m.copy.ch[c] = r.ch[c]
                /\ Finished(m).pc # "idle" => KnowsIn(Finished(m), c, r, G)
<1> DEFINE n == Finished(m)
<1>1. /\ n.pc \in {"apply", "final", "idle"}
      /\ n.pc = "apply" => n.todo = {Min(m.rest)} /\ n.rest = m.rest \ {Min(m.rest)}
                           /\ Min(m.rest) \in m.rest
      /\ n.pc = "final" => n.rest = {}
      /\ n.pc # "idle" => n.copy = m.copy
  BY FinishedType
<1> HIDE DEF n
<1>2. n.pc # "idle" => ToApply(n)
  BY <1>1 DEF ToApply
<1>3. ASSUME NEW c, NEW r, NEW G, KnowsIn(m, c, r, G), m.copy.ch[c] = r.ch[c],
             n.pc # "idle"
      PROVE  KnowsIn(n, c, r, G)
  BY <1>1, <1>3 DEF KnowsIn
<1> QED BY <1>2, <1>3 DEF n

(* And what is left of an apply, what the apply knew. *)
LEMMA TriedRecord ==
  ASSUME NEW m \in Memory, ToApply(m), m.todo # {}, m.pc \in {"apply", "record"}
  PROVE  LET n == Tried(m, Min(m.todo))
         IN  /\ n.pc # "idle" /\ ToApply(n)
             /\ \A c, r, G : KnowsIn(m, c, r, G) /\ m.copy.ch[c] = r.ch[c]
                               => KnowsIn(n, c, r, G)
<1> DEFINE n == Tried(m, Min(m.todo))
<1>1. /\ n.pc \in {"apply", "settle"} /\ n.todo = m.todo \ {Min(m.todo)}
      /\ n.copy = m.copy /\ n.rest = m.rest
  BY TriedType
<1>2. Min(m.todo) \in m.todo
  <2>1. m.todo \in SUBSET Changes
    BY DEF Memory
  <2> QED BY <2>1, FirstAndLast
<1> HIDE DEF n
<1>3. ToApply(n)
  BY <1>1, <1>2 DEF ToApply
<1>4. ASSUME NEW c, NEW r, NEW G, KnowsIn(m, c, r, G), m.copy.ch[c] = r.ch[c]
      PROVE  KnowsIn(n, c, r, G)
  BY <1>1, <1>4 DEF KnowsIn
<1> QED BY <1>1, <1>3, <1>4 DEF n

(***************************************************************************)
(* A write, whether it arrives or not: of a change that is not spoilt by   *)
(* it, the row then says what was to be written, and rightly so.           *)
(***************************************************************************)
LEMMA SavedRight ==
  ASSUME TypeOK, NEW r \in Row, Save(r), NEW c \in Changes \ spoilt',
         RightIn(r, c, grants), r.ch[c] = row.ch[c] => RightIn(row, c, grants),
         UNCHANGED grants
  PROVE  RightIn(row', c, grants') /\ row'.ch[c] = r.ch[c]
<1>1. CASE row' = r /\ UNCHANGED <<spoilt, faults>>
  BY <1>1
<1>2. CASE Spoil(Unsaved(r)) /\ UNCHANGED row
  <2>1. r.ch[c] = row.ch[c]
    BY <1>2 DEF Spoil, Unsaved
  <2> QED BY <1>2, <2>1
<1> QED BY <1>1, <1>2 DEF Save

(* Doubt only grows. *)
LEMMA SaveSpoils ==
  ASSUME TypeOK, NEW r, Save(r)
  PROVE  spoilt \subseteq spoilt' /\ spoilt' \in SUBSET Changes
BY DEF TypeOK, Save, Spoil, Unsaved

(***************************************************************************)
(* A change that is applied is recorded as such in the copy, and granted   *)
(* under the mark of the copy, unless it is spoilt by then.                *)
(***************************************************************************)
LEMMA ApplyRecord ==
  ASSUME RecordInv, TypeInv', NEW h \in Handlers, ApplyOne(h)
  PROVE  RecordInv'
<1> DEFINE m == handler[h]
           d == Min(m.todo)
           applied == [m.copy EXCEPT !.ch[d] = "applied"]
           mixed == IF (d \in ReadOnly) = (m.account \in ReadOnly) THEN {} ELSE {d}
           mark == MarkOf(m.copy, d)
<1>0. /\ m \in Memory /\ m.pc = "apply" /\ m.todo # {} /\ m.copy \in Row
      /\ spoilt' \in SUBSET Changes
  BY DEF RecordInv, TypeOK, TypeInv, Memory, ApplyOne
<1>1. d \in m.todo /\ d \in Changes
  <2>1. m.todo \in SUBSET Changes
    BY <1>0 DEF Memory
  <2> QED BY <1>0, <2>1, FirstAndLast
<1>2. /\ Record(h, d) /\ UNCHANGED <<row, expirer>>
      /\ m.account \in ReadOnly => UNCHANGED grants
      /\ m.account \notin ReadOnly => grants' = grants \cup {<<d, mark>>}
  BY DEF ApplyOne
<1>3. mark \in Marks
  BY <1>0, BoundsAssumption DEF MarkOf, Row, Marks
<1>4. spoilt \subseteq spoilt' /\ mixed \subseteq spoilt'
  BY <1>2 DEF Record, Spoil
<1>5. /\ spoilt' # Changes => Busy \subseteq {h} /\ expirer.pc = "idle"
      /\ ToApply(m)
      /\ \A c \in Changes \ (spoilt' \cup ReadOnly) : KnowsIn(m, c, row, grants)
  BY <1>0, <1>4, HandlerKnows
<1>6. /\ applied \in Row /\ applied.mark = m.copy.mark
      /\ applied.ch = [m.copy.ch EXCEPT ![d] = "applied"]
      /\ m.copy.ch \in [Changes -> Statuses]
  <2> HIDE DEF m, d
  <2> QED BY <1>0, <1>1 DEF Row, Statuses
<1>7. d \in In(m.copy, "not_applied") /\ m.todo \cap m.rest = {}
      /\ m.todo \subseteq In(m.copy, "not_applied")
      /\ m.rest \subseteq In(m.copy, "not_applied")
  BY <1>0, <1>1, <1>5 DEF ToApply
<1>8. ASSUME NEW c \in Changes \ (spoilt' \cup ReadOnly)
      PROVE  /\ RightIn(applied, c, grants')
             /\ RightIn(row, c, grants')
                  \/ (applied.ch[c] = "applied" /\ row.ch[c] = "not_applied")
  <2>0. KnowsIn(m, c, row, grants)
    BY <1>5, <1>8
  <2> HIDE DEF m, applied
  <2>1. /\ RightIn(m.copy, c, grants) /\ RightIn(row, c, grants)
        /\ m.copy.ch[c] = row.ch[c]
    BY <1>0, <2>0 DEF KnowsIn
  <2>2. CASE c = d
    <3>1. m.account \notin ReadOnly
      BY <1>4, <1>8, <2>2
    <3>2. grants' = grants \cup {<<c, mark>>} /\ applied.ch[c] = "applied"
          /\ row.ch[c] = "not_applied" /\ m.copy.ch[c] = "not_applied"
      BY <1>2, <1>6, <1>7, <2>1, <2>2, <3>1 DEF In
    <3>3. mark = MarkOf(applied, c)
      BY <1>6, <2>2 DEF MarkOf
    <3> HIDE DEF mark
    <3>4. \A k \in Marks : <<c, k>> \in grants' <=> k = mark
      BY <2>1, <3>2 DEF RightIn
    <3>5. RightIn(applied, c, grants')
      BY <1>3, <3>2, <3>3, <3>4 DEF RightIn
    <3> QED BY <3>2, <3>5
  <2>3. CASE c # d
    <3>1. \A k \in Marks : <<c, k>> \in grants <=> <<c, k>> \in grants'
      BY <1>2, <2>3
    <3>2. applied.ch[c] = m.copy.ch[c]
      BY <1>6, <2>3
    <3>3. RightIn(applied, c, grants')
      BY <1>6, <2>1, <3>1, <3>2, SameRight
    <3>4. RightIn(row, c, grants')
      BY <2>1, <3>1, SameRight
    <3> QED BY <3>3, <3>4
  <2> QED BY <2>2, <2>3
<1>9. ASSUME NEW q, q.ch = applied.ch, NEW n,
             n = [m EXCEPT !.pc = "record", !.copy = q],
             \A c \in Changes \ (spoilt' \cup ReadOnly) : RightIn(q, c, grants'),
             handler' = [handler EXCEPT ![h] = n]
      PROVE  RecordInv'
  <2> HIDE DEF m, applied, d
  <2>1. n.pc = "record" /\ n.copy = q /\ n.todo = m.todo /\ n.rest = m.rest
    BY <1>0, <1>9 DEF Memory
  <2>2. ToApply(n)
    <3>1. m.todo \ {d} \subseteq In(q, "not_applied")
      BY <1>6, <1>7, <1>9 DEF In
    <3>2. m.rest \subseteq In(q, "not_applied")
      BY <1>1, <1>6, <1>7, <1>9 DEF In
    <3> QED BY <1>7, <2>1, <3>1, <3>2 DEF ToApply, d
  <2>3. ASSUME NEW c \in Changes \ (spoilt' \cup ReadOnly)
        PROVE  KnowsIn(n, c, row', grants')
    <3>1. RightIn(q, c, grants')
      BY <1>9, <2>3
    <3>2. q.ch[c] = row.ch[c] => RightIn(row, c, grants')
      BY <1>8, <1>9, <2>3
    <3> QED BY <1>2, <2>1, <3>1, <3>2 DEF KnowsIn
  <2>4. n.pc # "idle"
    BY <2>1
  <2> QED BY <1>2, <1>5, <1>9, <2>2, <2>3, <2>4, RecordStep
<1>10. CASE m.copy.ttl
  <2> DEFINE q == Redate(applied, marks + 1, marks + 1)
             n == [m EXCEPT !.pc = "record", !.copy = q]
  <2>1. /\ In(applied, "applied") \cap Marked \subseteq spoilt'
        /\ handler' = [handler EXCEPT ![h] = n]
    BY <1>2, <1>10 DEF Record, Spoil
  <2> HIDE DEF m, applied, d
  <2>2. q.ch = applied.ch
    BY <1>6 DEF Redate, Row
  <2>3. ASSUME NEW c \in Changes \ (spoilt' \cup ReadOnly)
        PROVE  RightIn(q, c, grants')
    <3>1. c \notin Marked \/ applied.ch[c] # "applied"
      BY <2>1, <2>3 DEF In
    <3>2. RightIn(applied, c, grants')
      BY <1>8, <2>3
    <3> HIDE DEF q
    <3> QED BY <2>2, <3>1, <3>2, SameRight
  <2> HIDE DEF q
  <2> QED BY <1>9, <2>1, <2>2, <2>3
<1>11. CASE ~m.copy.ttl
  <2> DEFINE n == [m EXCEPT !.pc = "record", !.copy = applied]
  <2>1. handler' = [handler EXCEPT ![h] = n]
    BY <1>2, <1>11 DEF Record
  <2> HIDE DEF m, applied, d
  <2> QED BY <1>8, <1>9, <2>1
<1> QED BY <1>10, <1>11

(***************************************************************************)
(* Everything else a call does writes the copy, or drops it.               *)
(***************************************************************************)
LEMMA ServeRecord ==
  ASSUME RecordInv, TypeInv', NEW h \in Handlers, Serve(h) \/ Die(h)
  PROVE  RecordInv'
<1> DEFINE m == handler[h]
           d == Min(m.todo)
           Known == Changes \ (spoilt' \cup ReadOnly)
<1>0. /\ m \in Memory /\ (m.pc \in {"apply", "record"} => m.todo # {})
      /\ m.copy \in Row /\ spoilt' \in SUBSET Changes /\ TypeOK
  BY DEF RecordInv, TypeOK, TypeInv, Memory
<1>1. ASSUME m.pc # "idle", spoilt \subseteq spoilt'
      PROVE  /\ spoilt' # Changes => Busy \subseteq {h} /\ expirer.pc = "idle"
             /\ ToApply(m)
             /\ \A c \in Known : KnowsIn(m, c, row, grants)
  BY <1>0, <1>1, HandlerKnows
<1>2. ASSUME AccountUnknown(h) PROVE RecordInv'
  <2> DEFINE n == Finished(m)
  <2>1. /\ m.pc = "apply" /\ handler' = [handler EXCEPT ![h] = n]
        /\ UNCHANGED <<row, grants, expirer, spoilt>>
    BY <1>2 DEF AccountUnknown
  <2>2. /\ spoilt' # Changes => Busy \subseteq {h} /\ expirer.pc = "idle"
        /\ ToApply(m)
        /\ \A c \in Known : KnowsIn(m, c, row, grants)
    BY <1>1, <2>1
  <2> HIDE DEF m, Known
  <2>3. ASSUME NEW c \in Known
        PROVE  /\ n.pc = "idle" => RightIn(row', c, grants')
               /\ n.pc # "idle" => KnowsIn(n, c, row', grants')
    <3>1. /\ KnowsIn(m, c, row, grants) /\ m.copy.ch[c] = row.ch[c]
          /\ RightIn(row, c, grants)
      BY <2>1, <2>2, <2>3 DEF KnowsIn
    <3> QED BY <1>0, <2>1, <2>2, <3>1, FinishedRecord
  <2>4. n.pc # "idle" => ToApply(n)
    BY <1>0, <2>2, FinishedRecord
  <2> HIDE DEF n
  <2> QED BY <2>1, <2>2, <2>3, <2>4, RecordStep DEF Known
<1>3. ASSUME ApplyFails(h) PROVE RecordInv'
  <2> DEFINE n == Tried(m, d)
  <2>1. /\ m.pc = "apply" /\ handler' = [handler EXCEPT ![h] = n]
        /\ UNCHANGED <<row, grants, expirer, spoilt>>
    BY <1>3 DEF ApplyFails
  <2>2. /\ spoilt' # Changes => Busy \subseteq {h} /\ expirer.pc = "idle"
        /\ ToApply(m)
        /\ \A c \in Known : KnowsIn(m, c, row, grants)
    BY <1>1, <2>1
  <2> HIDE DEF m, Known
  <2>3. ASSUME NEW c \in Known PROVE KnowsIn(n, c, row', grants')
    <3>1. KnowsIn(m, c, row, grants) /\ m.copy.ch[c] = row.ch[c]
      BY <2>1, <2>2, <2>3 DEF KnowsIn
    <3> QED BY <1>0, <2>1, <2>2, <3>1, TriedRecord
  <2>4. n.pc # "idle" /\ ToApply(n)
    BY <1>0, <2>1, <2>2, TriedRecord
  <2> HIDE DEF n
  <2> QED BY <2>1, <2>2, <2>3, <2>4, RecordStep DEF Known
<1>4. ASSUME RecordChange(h) PROVE RecordInv'
  <2> DEFINE n == Tried(m, d)
  <2>1. /\ m.pc = "record" /\ handler' = [handler EXCEPT ![h] = n]
        /\ Save(m.copy) /\ UNCHANGED <<grants, expirer>>
    BY <1>4 DEF RecordChange
  <2>2. /\ spoilt' # Changes => Busy \subseteq {h} /\ expirer.pc = "idle"
        /\ ToApply(m)
        /\ \A c \in Known : KnowsIn(m, c, row, grants)
    BY <1>0, <1>1, <2>1, SaveSpoils
  <2> HIDE DEF m
  <2>3. ASSUME NEW c \in Known PROVE KnowsIn(n, c, row', grants')
    <3>1. KnowsIn(m, c, row, grants) /\ c \in Changes \ spoilt'
      BY <2>2, <2>3
    <3>2. RightIn(row', c, grants') /\ row'.ch[c] = m.copy.ch[c]
      BY <1>0, <2>1, <3>1, SavedRight DEF KnowsIn
    <3>3. KnowsIn(m, c, row', grants')
      BY <2>1, <3>1, <3>2 DEF KnowsIn
    <3> QED BY <1>0, <2>1, <2>2, <3>2, <3>3, TriedRecord
  <2>4. n.pc # "idle" /\ ToApply(n)
    BY <1>0, <2>1, <2>2, TriedRecord
  <2> HIDE DEF n
  <2> QED BY <2>1, <2>2, <2>3, <2>4, RecordStep
<1>5. ASSUME Write(h) PROVE RecordInv'
  <2> DEFINE n == [m EXCEPT !.pc = "settle"]
  <2>1. /\ m.pc = "write" /\ handler' = [handler EXCEPT ![h] = n]
        /\ Save(m.copy) /\ UNCHANGED <<grants, expirer>>
    BY <1>5 DEF Write
  <2>2. /\ spoilt' # Changes => Busy \subseteq {h} /\ expirer.pc = "idle"
        /\ ToApply(m)
        /\ \A c \in Known : KnowsIn(m, c, row, grants)
    BY <1>0, <1>1, <2>1, SaveSpoils
  <2> HIDE DEF m
  <2>3. n.pc = "settle" /\ n.copy = m.copy /\ n.todo = m.todo /\ n.rest = m.rest
    BY <1>0 DEF Memory
  <2> HIDE DEF n
  <2>4. ASSUME NEW c \in Known PROVE KnowsIn(n, c, row', grants')
    <3>1. KnowsIn(m, c, row, grants) /\ c \in Changes \ spoilt'
      BY <2>2, <2>4
    <3>2. RightIn(row', c, grants') /\ row'.ch[c] = m.copy.ch[c]
      BY <1>0, <2>1, <3>1, SavedRight DEF KnowsIn
    <3> QED BY <2>1, <2>3, <3>1, <3>2 DEF KnowsIn
  <2>5. n.pc # "idle" /\ ToApply(n)
    BY <2>2, <2>3 DEF ToApply
  <2> QED BY <2>1, <2>2, <2>4, <2>5, RecordStep
<1>6. ASSUME Settle(h) PROVE RecordInv'
  <2> DEFINE settled == [m.copy EXCEPT !.status = SettledStatus(m.copy)]
             n == [m EXCEPT !.copy = settled]
             next == Finished(n)
  <2>1. /\ m.pc = "settle" /\ handler' = [handler EXCEPT ![h] = next]
        /\ Save(settled) \/ UNCHANGED <<row, spoilt, faults>>
        /\ UNCHANGED <<grants, expirer>>
    BY <1>6 DEF Settle
  <2>2. spoilt \subseteq spoilt'
    BY <1>0, <2>1, SaveSpoils
  <2>3. /\ spoilt' # Changes => Busy \subseteq {h} /\ expirer.pc = "idle"
        /\ ToApply(m)
        /\ \A c \in Known : KnowsIn(m, c, row, grants)
    BY <1>1, <2>1, <2>2
  <2> HIDE DEF m
  <2>4. SettledStatus(m.copy) \in {"approved", "cancelled", m.copy.status}
    BY DEF SettledStatus
  <2>5. /\ settled \in Row /\ settled.ch = m.copy.ch
        /\ settled.mark = m.copy.mark
    BY <1>0, <2>4 DEF Row, Open, Closed
  <2> HIDE DEF settled
  <2>6. n \in Memory /\ n.pc = "settle" /\ n.copy = settled
        /\ n.todo = m.todo /\ n.rest = m.rest
    BY <1>0, <2>1, <2>5 DEF Memory
  <2> HIDE DEF n
  <2>7. ToApply(n)
    BY <2>1, <2>3, <2>5, <2>6 DEF ToApply, In
  <2>8. ASSUME NEW c \in Known
        PROVE  /\ KnowsIn(n, c, row', grants') /\ n.copy.ch[c] = row'.ch[c]
               /\ RightIn(row', c, grants')
    <3>1. KnowsIn(m, c, row, grants) /\ c \in Changes \ spoilt'
      BY <2>3, <2>8
    <3>2. /\ RightIn(m.copy, c, grants) /\ RightIn(row, c, grants)
          /\ settled.ch[c] = row.ch[c]
      BY <2>1, <2>5, <3>1 DEF KnowsIn
    <3>3. RightIn(settled, c, grants)
      BY <2>5, <3>2, SameRight
    <3>4. RightIn(row', c, grants') /\ row'.ch[c] = settled.ch[c]
      <4>1. CASE Save(settled)
        BY <1>0, <2>1, <2>5, <3>1, <3>2, <3>3, <4>1, SavedRight
      <4>2. CASE UNCHANGED <<row, spoilt, faults>>
        BY <2>1, <3>2, <4>2
      <4> QED BY <2>1, <4>1, <4>2
    <3> QED BY <2>1, <2>6, <3>3, <3>4 DEF KnowsIn
  <2>9. next.pc # "idle" => ToApply(next)
    BY <2>6, <2>7, FinishedRecord
  <2>10. ASSUME NEW c \in Known
         PROVE  /\ next.pc = "idle" => RightIn(row', c, grants')
                /\ next.pc # "idle" => KnowsIn(next, c, row', grants')
    BY <2>6, <2>7, <2>8, <2>10, FinishedRecord
  <2> HIDE DEF next
  <2> QED BY <2>1, <2>3, <2>9, <2>10, RecordStep
<1>7. ASSUME WriteBack(h) PROVE RecordInv'
  <2>1. /\ m.pc # "idle" /\ handler' = [handler EXCEPT ![h] = Idle]
        /\ row' = m.copy /\ UNCHANGED <<grants, expirer, spoilt>>
    BY <1>7 DEF WriteBack
  <2>2. /\ spoilt' # Changes => Busy \subseteq {h} /\ expirer.pc = "idle"
        /\ \A c \in Known : KnowsIn(m, c, row, grants)
    BY <1>1, <2>1
  <2> HIDE DEF m
  <2>3. \A c \in Known : RightIn(row', c, grants')
    BY <2>1, <2>2 DEF KnowsIn
  <2> QED BY <2>1, <2>2, <2>3, IdleFields, RecordStep
<1>8. ASSUME Die(h) PROVE RecordInv'
  <2>1. /\ m.pc # "idle" /\ handler' = [handler EXCEPT ![h] = Idle]
        /\ Spoil(Unsaved(m.copy)) /\ UNCHANGED <<row, grants, expirer>>
    BY <1>8 DEF Die, Busy
  <2>2. spoilt \subseteq spoilt'
    BY <2>1 DEF Spoil
  <2>3. /\ spoilt' # Changes => Busy \subseteq {h} /\ expirer.pc = "idle"
        /\ \A c \in Known : KnowsIn(m, c, row, grants)
    BY <1>1, <2>1, <2>2
  <2> HIDE DEF m
  <2>4. ASSUME NEW c \in Known PROVE RightIn(row', c, grants')
    <3>1. KnowsIn(m, c, row, grants) /\ c \in Changes \ spoilt'
      BY <2>3, <2>4
    <3>2. m.copy.ch[c] = row.ch[c]
      BY <2>1, <3>1 DEF Spoil, Unsaved
    <3> QED BY <2>1, <3>1, <3>2 DEF KnowsIn
  <2> QED BY <2>1, <2>3, <2>4, IdleFields, RecordStep
<1> QED BY <1>2, <1>3, <1>4, <1>5, <1>6, <1>7, <1>8, ApplyRecord DEF Serve

(***************************************************************************)
(* The removal takes back what is granted under the mark of its copy,      *)
(* which is all that is granted for a change that is not spoilt.           *)
(***************************************************************************)
LEMMA ExpirerRecord ==
  ASSUME RecordInv, TypeInv', FindExpired \/ Remove \/ ExpirerDies
  PROVE  RecordInv'
<1> DEFINE e == expirer
           d == Min(e.todo)
           Known == Changes \ (spoilt' \cup ReadOnly)
<1>0. /\ e \in Removal /\ e.copy \in Row /\ (e.pc = "remove" => e.todo # {})
      /\ spoilt' \in SUBSET Changes /\ spoilt \in SUBSET Changes /\ TypeOK
  BY DEF RecordInv, TypeOK, TypeInv, Removal
<1>1. ASSUME e.pc # "idle", spoilt \subseteq spoilt'
      PROVE  /\ spoilt' # Changes => Busy = {}
             /\ \A c \in Known :
                  /\ RightIn(e.copy, c, grants)
                  /\ e.copy.ch[c] = row.ch[c] => RightIn(row, c, grants)
                  /\ ~e.changed => e.copy.ch[c] = row.ch[c]
  <2>1. spoilt' # Changes => spoilt # Changes
    BY <1>0, <1>1
  <2>2. ASSUME NEW c \in Known PROVE ExpirerRight(c)
    BY <1>1, <2>2 DEF RecordInv, Sure
  <2> QED BY <1>1, <2>1, <2>2, RightIsRightIn DEF RecordInv, ExpirerRight
<1>2. ASSUME FindExpired PROVE RecordInv'
  <2>1. /\ SpoilIfRaced /\ UNCHANGED <<row, grants, handler>>
        /\ expirer' = [pc |-> "remove", copy |-> row, todo |-> In(row, "applied"),
                       changed |-> FALSE]
    BY <1>2 DEF FindExpired
  <2>2. /\ spoilt \subseteq spoilt'
        /\ spoilt' # Changes => Alone
    BY <1>0, <2>1, RacedSpoils
  <2>3. expirer'.pc = "remove" /\ expirer'.copy = row
    BY <2>1
  <2>4. ASSUME NEW c \in Known PROVE RightIn(row, c, grants)
    BY <1>0, <2>2, <2>4, AloneKnows
  <2> QED BY <2>1, <2>2, <2>3, <2>4, RemovalStep DEF Alone
<1>3. ASSUME RemoveGrant PROVE RecordInv'
  <2> DEFINE l == Looked(e)
             copy == [e.copy EXCEPT !.ch[d] = "expired"]
             lost == IF d \in Topics THEN Marks ELSE {MarkOf(e.copy, d)}
  <2>1. /\ e.pc = "remove" /\ UNCHANGED <<row, handler, spoilt>>
        /\ expirer' = [l EXCEPT !.copy.ch[d] = "expired", !.changed = TRUE]
        /\ grants' = grants \ {<<d, m>> : m \in lost}
    BY <1>3 DEF RemoveGrant
  <2>2. /\ spoilt' # Changes => Busy = {}
        /\ \A c \in Known :
             /\ RightIn(e.copy, c, grants)
             /\ e.copy.ch[c] = row.ch[c] => RightIn(row, c, grants)
    BY <1>1, <2>1
  <2>3. l \in Removal /\ l.copy = e.copy /\ l.pc \in {"remove", "write"}
    BY <1>0, <2>1, LookedType
  <2> HIDE DEF l, e, d
  <2>4. expirer'.copy = copy /\ expirer'.pc # "idle" /\ expirer'.changed
    BY <2>1, <2>3 DEF Removal
  <2>5. copy.ch = [e.copy.ch EXCEPT ![d] = "expired"] /\ copy.mark = e.copy.mark
        /\ e.copy.ch \in [Changes -> Statuses]
    BY <1>0 DEF Row
  <2> HIDE DEF copy
  <2>6. ASSUME NEW c \in Known
        PROVE  /\ RightIn(copy, c, grants')
               /\ copy.ch[c] = row.ch[c] => RightIn(row, c, grants')
    <3>1. /\ RightIn(e.copy, c, grants)
          /\ e.copy.ch[c] = row.ch[c] => RightIn(row, c, grants)
      BY <2>2, <2>6
    <3>2. CASE c = d
      <4>1. ASSUME NEW k \in Marks, <<c, k>> \in grants' PROVE FALSE
        <5>1. <<c, k>> \in grants
          BY <2>1, <4>1
        <5>2. k = MarkOf(e.copy, d)
          BY <3>1, <3>2, <4>1, <5>1 DEF RightIn
        <5>3. k \in lost
          BY <4>1, <5>2
        <5> HIDE DEF lost
        <5> QED BY <2>1, <3>2, <4>1, <5>3
      <4>2. copy.ch[c] = "expired"
        BY <2>5, <2>6, <3>2
      <4> QED BY <4>1, <4>2 DEF RightIn
    <3>3. CASE c # d
      <4>1. \A k \in Marks : <<c, k>> \in grants <=> <<c, k>> \in grants'
        <5> HIDE DEF lost
        <5> QED BY <2>1, <3>3
      <4>2. copy.ch[c] = e.copy.ch[c]
        BY <2>5, <2>6, <3>3
      <4>3. RightIn(copy, c, grants')
        BY <2>5, <3>1, <4>1, <4>2, SameRight
      <4>4. copy.ch[c] = row.ch[c] => RightIn(row, c, grants')
        BY <3>1, <4>1, <4>2, SameRight
      <4> QED BY <4>3, <4>4
    <3> QED BY <3>2, <3>3
  <2> QED BY <2>1, <2>2, <2>4, <2>6, RemovalStep
<1>4. ASSUME KeepGrant PROVE RecordInv'
  <2> DEFINE l == Looked(e)
  <2>1. /\ e.pc = "remove" /\ expirer' = l
        /\ UNCHANGED <<row, grants, handler, spoilt>>
    BY <1>4 DEF KeepGrant
  <2>2. /\ spoilt' # Changes => Busy = {}
        /\ \A c \in Known :
             /\ RightIn(e.copy, c, grants)
             /\ e.copy.ch[c] = row.ch[c] => RightIn(row, c, grants)
             /\ ~e.changed => e.copy.ch[c] = row.ch[c]
    BY <1>1, <2>1
  <2>3. l.copy = e.copy /\ l.pc \in {"remove", "write"} /\ l.changed = e.changed
    BY <1>0, <2>1, LookedType
  <2> HIDE DEF l, e
  <2> QED BY <2>1, <2>2, <2>3, RemovalStep
<1>5. ASSUME WriteExpired PROVE RecordInv'
  <2> DEFINE r == [e.copy EXCEPT !.status = "expired"]
  <2>1. /\ e.pc = "write" /\ expirer' = Resting /\ UNCHANGED <<grants, handler>>
        /\ Save(r) \/ (~e.changed /\ UNCHANGED <<row, spoilt, faults>>)
    BY <1>5 DEF WriteExpired
  <2>2. spoilt \subseteq spoilt'
    BY <1>0, <2>1, SaveSpoils
  <2>3. /\ spoilt' # Changes => Busy = {}
        /\ \A c \in Known :
             /\ RightIn(e.copy, c, grants)
             /\ e.copy.ch[c] = row.ch[c] => RightIn(row, c, grants)
             /\ ~e.changed => e.copy.ch[c] = row.ch[c]
    BY <1>1, <2>1, <2>2
  <2>4. r \in Row /\ r.ch = e.copy.ch /\ r.mark = e.copy.mark
    BY <1>0 DEF Row, Open
  <2> HIDE DEF r, e
  <2>5. ASSUME NEW c \in Known PROVE RightIn(row', c, grants')
    <3>1. CASE Save(r)
      <4>1. RightIn(r, c, grants)
        BY <2>3, <2>4, <2>5, SameRight
      <4>2. r.ch[c] = row.ch[c] => RightIn(row, c, grants)
        BY <2>3, <2>4, <2>5
      <4> QED BY <1>0, <2>1, <2>4, <2>5, <3>1, <4>1, <4>2, SavedRight
    <3>2. CASE ~e.changed /\ UNCHANGED <<row, spoilt, faults>>
      BY <2>1, <2>3, <2>5, <3>2
    <3> QED BY <2>1, <3>1, <3>2
  <2>6. Resting.pc = "idle"
    BY DEF Resting
  <2> QED BY <2>1, <2>3, <2>5, <2>6, RemovalStep
<1>6. ASSUME Halt \/ ExpirerDies PROVE RecordInv'
  <2>1. /\ e.pc # "idle" /\ expirer' = Resting /\ Spoil(Unsaved(e.copy))
        /\ UNCHANGED <<row, grants, handler>>
    BY <1>6 DEF Halt, ExpirerDies
  <2>2. spoilt \subseteq spoilt'
    BY <2>1 DEF Spoil
  <2>3. /\ spoilt' # Changes => Busy = {}
        /\ \A c \in Known : e.copy.ch[c] = row.ch[c] => RightIn(row, c, grants)
    BY <1>1, <2>1, <2>2
  <2>4. ASSUME NEW c \in Known PROVE RightIn(row', c, grants')
    <3>1. e.copy.ch[c] = row.ch[c]
      BY <2>1, <2>4 DEF Spoil, Unsaved
    <3> QED BY <2>1, <2>3, <2>4, <3>1
  <2>5. Resting.pc = "idle"
    BY DEF Resting
  <2> QED BY <2>1, <2>3, <2>4, <2>5, RemovalStep
<1> QED BY <1>2, <1>3, <1>4, <1>5, <1>6 DEF Remove

(* Every step keeps records right, but for what it spoils, *)
LEMMA RecordInvStep == RecordInv /\ TypeInv' /\ [Next]_vars => RecordInv'
<1> SUFFICES ASSUME RecordInv, TypeInv', [Next]_vars PROVE RecordInv'
  OBVIOUS
<1>1. ASSUME UNCHANGED <<row, grants, handler, expirer, spoilt>> PROVE RecordInv'
  <2>1. Busy' = Busy /\ (Alone' <=> Alone) /\ Sure' = Sure
    BY <1>1 DEF Busy, Alone, Sure
  <2>2. \A h \in Busy : ToApply(handler[h])'
    BY <1>1 DEF RecordInv, ToApply, In
  <2>3. \A c : Right(row, c) => Right(row, c)'
    BY <1>1 DEF Right, Granted, MarkOf
  <2>4. \A c, h : HandlerRight(handler[h], c) => HandlerRight(handler[h], c)'
    BY <1>1, <2>3 DEF HandlerRight, Right, Granted, MarkOf
  <2>5. \A c : ExpirerRight(c) => ExpirerRight(c)'
    BY <1>1, <2>3 DEF ExpirerRight, Right, Granted, MarkOf
  <2> QED BY <1>1, <2>1, <2>2, <2>3, <2>4, <2>5 DEF RecordInv, TypeInv
<1>2. ASSUME NEW d \in 1 .. marks, Pass(d) PROVE RecordInv'
  BY <1>1, <1>2 DEF Pass
<1>3. CASE UNCHANGED vars
  BY <1>1, <1>3 DEF vars
<1> QED BY <1>2, <1>3, CreateRecord, CommandRecord, ServeRecord, ExpirerRecord
        DEF Next

(* as they are in the beginning. *)
LEMMA RecordInit == Init => RecordInv
<1> SUFFICES ASSUME Init PROVE RecordInv
  OBVIOUS
<1>1. Busy = {} /\ expirer.pc = "idle" /\ grants = {} /\ row = NoRow
  BY IdleFields DEF Init, Busy, Resting
<1>2. TypeInv
  BY TypeInit
<1>3. \A c \in Changes : Right(row, c)
  BY <1>1 DEF Right, Granted, NoRow
<1> QED BY <1>1, <1>2, <1>3 DEF RecordInv, TypeInv, Sure

(***************************************************************************)
(* At rest the record of every change that nothing has spoilt is right, in *)
(* every order of commands, failures, expirations and deaths: what is out  *)
(* in a single copy is known by that copy, and what is not is known by the *)
(* row.                                                                    *)
(***************************************************************************)
THEOREM RecordCorrect == Spec => []RecordIsRight
<1>1. RecordInv => RecordIsRight
  <2> SUFFICES ASSUME RecordInv, Alone, NEW c \in Changes \ (spoilt \cup ReadOnly)
               PROVE  (row.ch[c] = "applied") = Granted(c)
    BY DEF RecordIsRight
  <2> QED BY DEF RecordInv, Sure, Right
<1>2. TypeInv /\ TypeInv' /\ RecordInv /\ [Next]_vars => RecordInv'
  BY RecordInvStep
<1> QED BY <1>1, <1>2, TypeInvariant, RecordInit, PTL DEF Spec
=============================================================================
