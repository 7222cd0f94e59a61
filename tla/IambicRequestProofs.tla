------------------------ MODULE IambicRequestProofs ------------------------
(***************************************************************************)
(* Proofs about IambicRequest, for any number of requests, users and       *)
(* workers.                                                                *)
(***************************************************************************)
EXTENDS IambicRequest, SequenceTheorems, TLAPS

-----------------------------------------------------------------------------
(* The records of which the state is made have their types. *)
LEMMA HoldingType ==
  ASSUME NEW op \in Ops, NEW r \in Requests \cup {NoRequest},
         NEW u \in Users \cup {NoUser}, NEW event \in Payload,
         NEW old \in Columns, NEW cur \in Columns, NEW step \in Steps
  PROVE  Holding(op, r, u, event, old, cur, step) \in Memory
  BY DEF Holding, Memory, NoView, View, NoRefs, NoLinks, NoColumns, Columns

(* What a worker holds that has read nothing. *)
LEMMA EmptyTypes ==
  /\ NoColumns \in Columns /\ NoPayload \in Payload
  /\ NoRefs \in [Requests -> Requests \cup {NoRequest}]
  /\ NoLinks \in [Requests -> Columns]
  BY DEF NoColumns, NoPayload, Columns, Payload, NoRefs, NoLinks

(* An idle worker. *)
LEMMA IdleType == Idle \in Memory /\ Coherent(Idle) /\ Idle.pc = "idle"
  BY HoldingType, EmptyTypes DEF Idle, Coherent, Ops, Steps, Holding

(* The memory of one worker changes. *)
LEMMA SetWorker ==
  ASSUME TypeOK, NEW w \in Workers, NEW m \in Memory, Coherent(m),
         worker' = [worker EXCEPT ![w] = m]
  PROVE  /\ worker' \in [Workers -> Memory]
         /\ \A x \in Workers : Coherent(worker'[x])
  BY DEF TypeOK

(* A handler begins. *)
LEMMA BeginType ==
  ASSUME TypeOK, NEW w \in Workers, NEW r \in Requests, NEW op \in Ops,
         NEW u \in Users \cup {NoUser}, NEW event \in Payload,
         NEW old \in Columns, NEW cur \in Columns,
         NEW step \in Steps \ {"refer"},
         op \in {"create", "approve", "revert"} => u \in Users,
         Begin(w, op, r, u, event, old, cur, step)
  PROVE  TypeOK'
<1> DEFINE m == Holding(op, r, u, event, old, cur, step)
<1>1. m \in Memory /\ Coherent(m)
  BY HoldingType DEF Coherent, Holding
<1>2. worker' = [worker EXCEPT ![w] = m]
  BY DEF Begin
<1>3. calls' \in 0 .. MaxCalls
  BY BoundsAssumption DEF Begin, Call, TypeOK
<1> HIDE DEF m
<1> QED BY <1>1, <1>2, <1>3, SetWorker DEF Begin, TypeOK

(* The memory of a worker that goes on to another step, *)
LEMMA MemoryAt ==
  ASSUME NEW me \in Memory, NEW step \in Steps
  PROVE  [me EXCEPT !.pc = step] \in Memory
  BY DEF Memory

(* or forgets what it has joined. *)
LEMMA MemoryJoining ==
  ASSUME NEW me \in Memory, NEW refs \in [Requests -> Requests \cup {NoRequest}],
         NEW links \in [Requests -> Columns]
  PROVE  [me EXCEPT !.refs = refs, !.links = links] \in Memory
  BY DEF Memory

(* A handler has decided on a status. *)
LEMMA PreparedType ==
  ASSUME TypeOK, NEW w \in Workers, NEW status \in Statuses \cup {"Absent"},
         worker[w].pc = "act", worker' = Prepared(w, status)
  PROVE  /\ worker' \in [Workers -> Memory]
         /\ \A x \in Workers : Coherent(worker'[x])
<1> DEFINE c == [worker[w].cur EXCEPT !.status = status]
           m == [worker[w] EXCEPT !.cur = c, !.pc = "write"]
<1>1. worker[w] \in Memory /\ Coherent(worker[w])
  BY DEF TypeOK
<1>2. c \in Columns
  BY <1>1 DEF Memory, Columns
<1>3. worker' = [worker EXCEPT ![w] = m]
  BY DEF Prepared
<1> HIDE DEF c
<1>4. m \in Memory /\ Coherent(m)
  BY <1>1, <1>2 DEF Memory, Coherent, Steps
<1> HIDE DEF m
<1> QED BY <1>3, <1>4, SetWorker

(* What is read of a row, *)
LEMMA ColumnsOfType ==
  ASSUME TypeOK, NEW r \in Requests
  PROVE  ColumnsOf(r) \in Columns
  BY DEF TypeOK, ColumnsOf, Columns, Row

(* what load_pr sees of a pull request, *)
LEMMA ViewType ==
  ASSUME TypeOK, NEW r \in Requests
  PROVE  PrView(r) \in View
  BY DEF TypeOK, PrView, View, PullRequest, ReviewState, ApprovedBy

(* the table once a handler has written what it changed, *)
LEMMA WrittenType ==
  ASSUME TypeOK, NEW r \in Requests, NEW old \in Columns, NEW cur \in Columns
  PROVE  Written(r, old, cur) \in [Requests -> Row]
<1> DEFINE new == [status |-> IF cur.status = old.status THEN row[r].status
                             ELSE cur.status,
                   approvedBy |-> IF cur.approvedBy = old.approvedBy
                                  THEN row[r].approvedBy ELSE cur.approvedBy,
                   createdBy |-> row[r].createdBy]
<1>1. row \in [Requests -> Row]
  BY DEF TypeOK
<1>2. new \in Row
  BY <1>1 DEF Row, Columns
<1>3. Written(r, old, cur) = [row EXCEPT ![r] = new]
  BY <1>1 DEF Written
<1> HIDE DEF new
<1> QED BY <1>1, <1>2, <1>3

(* the payloads of GitHub, *)
LEMMA ToldType ==
  ASSUME TypeOK, NEW r \in Requests, NEW by \in SUBSET (Reviewers \cup {Bot}),
         NEW state
  PROVE  Told(r, by, state) \in [Requests -> SUBSET Payload]
<1> DEFINE new == [by |-> by, merged |-> state = "merged",
                   closed |-> state \in {"merged", "closed"}]
<1>1. new \in Payload
  BY DEF Payload
<1>2. Told(r, by, state) = [payloads EXCEPT ![r] = @ \cup {new}]
  BY DEF Told
<1> HIDE DEF new
<1> QED BY <1>1, <1>2 DEF TypeOK

(* and a pull request that is closed have their types. *)
LEMMA ClosePrType ==
  ASSUME TypeOK, NEW r \in Requests, ClosePr(r)
  PROVE  /\ pr' \in [Requests -> PullRequest]
         /\ payloads' \in [Requests -> SUBSET Payload]
<1>1. CASE pr[r].state = "open"
  <2>1. pr' = [pr EXCEPT ![r].state = "closed"]
    BY <1>1 DEF ClosePr
  <2>2. payloads' = Told(r, {}, "closed")
    BY <1>1 DEF ClosePr
  <2> QED BY <2>1, <2>2, ToldType DEF TypeOK, PullRequest
<1>2. CASE pr[r].state # "open"
  BY <1>2 DEF ClosePr, TypeOK
<1> QED BY <1>1, <1>2

(* Every step of every worker and of GitHub keeps the types. *)
LEMMA TypeStep == TypeOK /\ [Next]_vars => TypeOK'
<1> SUFFICES ASSUME TypeOK, [Next]_vars PROVE TypeOK'
  OBVIOUS
<1>1. ASSUME NEW w \in Workers, NEW r \in Requests, BeginView(w, r)
      PROVE  TypeOK'
  BY <1>1, BeginType, ColumnsOfType, EmptyTypes DEF BeginView, Ops, Steps
<1>2. ASSUME NEW w \in Workers, NEW r \in Requests, NEW u \in Users,
   BeginCreate(w, r, u)
      PROVE  TypeOK'
  <2> DEFINE m == Holding("create", r, u, NoPayload, NoColumns, NoColumns,
     "insert")
  <2>1. m \in Memory /\ Coherent(m)
    BY HoldingType, EmptyTypes DEF Coherent, Holding, Ops, Steps
  <2>2. worker' = [worker EXCEPT ![w] = m]
    BY <1>2 DEF BeginCreate
  <2>3. pr' \in [Requests -> PullRequest]
    BY <1>2 DEF BeginCreate, TypeOK, PullRequest
  <2>4. calls' \in 0 .. MaxCalls
    BY <1>2, BoundsAssumption DEF BeginCreate, Call, TypeOK
  <2> HIDE DEF m
  <2> QED
    BY <1>2, <2>1, <2>2, <2>3, <2>4, SetWorker DEF BeginCreate, TypeOK
<1>3. ASSUME NEW w \in Workers, NEW r \in Requests, NEW u \in Users,
   BeginUpdate(w, r, u)
      PROVE  TypeOK'
  BY <1>3, BeginType, ColumnsOfType, EmptyTypes DEF BeginUpdate, Columns,
     Statuses, Ops, Steps
<1>4. ASSUME NEW w \in Workers, NEW r \in Requests, NEW u \in Users,
   BeginApprove(w, r, u)
      PROVE  TypeOK'
  <2>1. [status |-> "Pending", approvedBy |-> row[r].approvedBy \cup {u}] \in Columns
    BY DEF TypeOK, Row, Columns, Statuses, Logins
  <2>2. [status |-> "Approving", approvedBy |-> row[r].approvedBy \cup {u}] \in Columns
    BY DEF TypeOK, Row, Columns, Statuses, Logins
  <2> QED
    BY <1>4, <2>1, <2>2, BeginType, EmptyTypes DEF BeginApprove, Ops,
       Steps
<1>5. ASSUME NEW w \in Workers, NEW r \in Requests, NEW u \in Users,
   BeginApply(w, r, u)
      PROVE  TypeOK'
  <2>1. [ColumnsOf(r) EXCEPT !.status = "Applying"] \in Columns
    BY ColumnsOfType DEF Columns, Statuses
  <2> QED
    BY <1>5, <2>1, BeginType, ColumnsOfType, EmptyTypes DEF BeginApply,
       Ops, Steps
<1>6. ASSUME NEW w \in Workers, NEW r \in Requests, NEW u \in Users,
   BeginReject(w, r, u)
      PROVE  TypeOK'
  <2> DEFINE h == Holding("reject", r, NoUser, NoPayload, ColumnsOf(r),
                          ColumnsOf(r), "load")
             m == [h EXCEPT !.refs = RefsOf(r), !.links = LinksOf(r)]
  <2>1. h \in Memory
    BY HoldingType, ColumnsOfType, EmptyTypes DEF Ops, Steps
  <2>2. h.pc = "load" /\ h.op = "reject" /\ h.req = r
    BY DEF Holding
  <2>3. /\ RefsOf(r) \in [Requests -> Requests \cup {NoRequest}]
        /\ LinksOf(r) \in [Requests -> Columns]
    BY ColumnsOfType, EmptyTypes DEF RefsOf, LinksOf, TypeOK
  <2>4. worker' = [worker EXCEPT ![w] = m]
    BY <1>6 DEF BeginReject
  <2> HIDE DEF h
  <2>5. m \in Memory /\ Coherent(m)
    BY <2>1, <2>2, <2>3 DEF Memory, Coherent
  <2>6. calls' \in 0 .. MaxCalls
    BY <1>6, BoundsAssumption DEF BeginReject, Call, TypeOK
  <2> HIDE DEF m
  <2> QED
    BY <1>6, <2>4, <2>5, <2>6, SetWorker DEF BeginReject, TypeOK
<1>7. ASSUME NEW w \in Workers, NEW r \in Requests, NEW u \in Users,
   BeginRevert(w, r, u)
      PROVE  TypeOK'
  BY <1>7, BeginType, ColumnsOfType, EmptyTypes DEF BeginRevert, Ops,
     Steps
<1>8. ASSUME NEW w \in Workers, NEW r \in Requests, NEW p \in payloads[r],
   BeginEvent(w, r, p)
      PROVE  TypeOK'
  <2>1. p \in Payload
    BY DEF TypeOK
  <2> QED
    BY <1>8, <2>1, BeginType, ColumnsOfType DEF BeginEvent, Ops, Steps
<1>9. ASSUME NEW w \in Workers, Insert(w)
      PROVE  TypeOK'
  <2> DEFINE new == [status |-> "Pending", approvedBy |-> {}]
             m == [worker[w] EXCEPT !.old = new, !.cur = new, !.pc = "load"]
  <2>1. worker[w] \in Memory /\ Coherent(worker[w]) /\ worker[w].pc = "insert"
    BY <1>9 DEF Insert, TypeOK
  <2>2. new \in Columns
    BY DEF Columns, Statuses
  <2>3. worker' = [worker EXCEPT ![w] = m]
    BY <1>9 DEF Insert
  <2>4. row' \in [Requests -> Row]
    BY <1>9, <2>1 DEF Insert, TypeOK, Row, Statuses, Memory
  <2> HIDE DEF new
  <2>5. m \in Memory /\ Coherent(m)
    BY <2>1, <2>2 DEF Memory, Coherent, Steps
  <2> HIDE DEF m
  <2> QED BY <1>9, <2>3, <2>4, <2>5, SetWorker DEF Insert, TypeOK
<1>10. ASSUME NEW w \in Workers, Load(w)
      PROVE  TypeOK'
  BY <1>10, ViewType DEF Load, TypeOK, Coherent, Memory, Steps
<1>11. ASSUME NEW w \in Workers, ActOnEnded(w)
      PROVE  TypeOK'
  BY <1>11, PreparedType DEF ActOnEnded, TypeOK, Statuses
<1>12. ASSUME NEW w \in Workers, ActApprove(w)
      PROVE  TypeOK'
  BY <1>12, PreparedType DEF ActApprove, TypeOK, Statuses, Coherent
<1>13. ASSUME NEW w \in Workers, ActApply(w)
      PROVE  TypeOK'
  BY <1>13, PreparedType DEF ActApply, TypeOK, Statuses
<1>14. ASSUME NEW w \in Workers, ActReject(w)
      PROVE  TypeOK'
  <2>1. /\ worker' \in [Workers -> Memory]
        /\ \A x \in Workers : Coherent(worker'[x])
    <3>1. worker[w].cur.status \in Statuses \cup {"Absent"}
      BY DEF TypeOK, Memory, Columns
    <3> QED BY <1>14, <3>1, PreparedType DEF ActReject, Statuses
  <2>2. worker[w].req \in Requests
    BY <1>14 DEF ActReject, TypeOK, Coherent
  <2>3. pr' \in [Requests -> PullRequest] /\ payloads' \in [Requests -> SUBSET Payload]
    BY <1>14, <2>2, ClosePrType DEF ActReject
  <2> QED
    BY <1>14, <2>1, <2>2, <2>3 DEF ActReject, TypeOK
<1>15. ASSUME NEW w \in Workers, ActEventApproval(w)
      PROVE  TypeOK'
  <2>1. applied' \in [Requests -> BOOLEAN]
    BY <1>15 DEF ActEventApproval, TypeOK
  <2>2. /\ worker' \in [Workers -> Memory]
        /\ \A x \in Workers : Coherent(worker'[x])
    BY <1>15, PreparedType DEF ActEventApproval, Statuses
  <2> QED BY <1>15, <2>1, <2>2 DEF ActEventApproval, TypeOK
<1>16. ASSUME NEW w \in Workers, ActEventMerged(w)
      PROVE  TypeOK'
  <2> DEFINE c == [status |-> "Applied",
                   approvedBy |-> worker[w].cur.approvedBy
                                  \cup (worker[w].event.by \ {Bot})]
             m == [worker[w] EXCEPT !.cur = c, !.pc = "write"]
  <2>1. /\ worker[w] \in Memory /\ Coherent(worker[w]) /\ worker[w].pc = "act"
        /\ worker[w].op = "event"
    BY <1>16 DEF ActEventMerged, TypeOK
  <2>2. c \in Columns
    BY <2>1 DEF Memory, Columns, Payload, Statuses, Logins
  <2>3. worker' = [worker EXCEPT ![w] = m]
    BY <1>16 DEF ActEventMerged, TypeOK
  <2> HIDE DEF c
  <2>4. m \in Memory /\ Coherent(m)
    BY <2>1, <2>2 DEF Memory, Coherent, Steps
  <2> HIDE DEF m
  <2> QED BY <1>16, <2>3, <2>4, SetWorker DEF ActEventMerged, TypeOK
<1>17. ASSUME NEW w \in Workers, ActEventClosed(w)
      PROVE  TypeOK'
  BY <1>17, PreparedType DEF ActEventClosed, TypeOK, Statuses
<1>18. ASSUME NEW w \in Workers, NEW r \in Requests, ActRevert(w, r)
      PROVE  TypeOK'
  <2> DEFINE h == Holding("create", r, worker[w].user, NoPayload,
     NoColumns, NoColumns, "insert")
  <2> DEFINE m == [h EXCEPT !.target = worker[w].req, !.kept =
     worker[w].old.approvedBy]
  <2>1. worker[w] \in Memory /\ Coherent(worker[w])
    BY DEF TypeOK
  <2>2. worker[w].user \in Users /\ worker[w].req \in Requests
    BY <1>18, <2>1 DEF ActRevert, Coherent
  <2>3. h \in Memory
    BY <2>2, HoldingType, EmptyTypes DEF Ops, Steps
  <2>4. h.pc = "insert" /\ h.op = "create" /\ h.req = r /\ h.user \in Users
    BY <2>2 DEF Holding
  <2>5. worker' = [worker EXCEPT ![w] = m]
    BY <1>18 DEF ActRevert, TypeOK
  <2> HIDE DEF h
  <2>6. m \in Memory /\ Coherent(m)
    BY <2>1, <2>2, <2>3, <2>4 DEF Memory, Coherent, Columns
  <2>7. pr' \in [Requests -> PullRequest]
    BY <1>18 DEF ActRevert, TypeOK, PullRequest
  <2> HIDE DEF m
  <2> QED
    BY <1>18, <2>1, <2>2, <2>3, <2>4, <2>5, <2>6, <2>7, SetWorker DEF
       ActRevert, TypeOK
<1>19. ASSUME NEW w \in Workers, Refer(w)
      PROVE  TypeOK'
  <2> DEFINE m == Holding("revert", worker[w].target, NoUser, NoPayload,
     [status |-> "Applied", approvedBy |-> worker[w].kept], [status |->
     "Reverted", approvedBy |-> {}], "write")
  <2>1. worker[w].target \in Requests /\ worker[w].req \in Requests
    BY <1>19 DEF Refer, TypeOK, Coherent
  <2>2. /\ [status |-> "Applied", approvedBy |-> worker[w].kept] \in Columns
        /\ [status |-> "Reverted", approvedBy |-> {}] \in Columns
    BY DEF TypeOK, Memory, Columns, Statuses
  <2>3. m \in Memory
    BY <2>1, <2>2, HoldingType, EmptyTypes DEF Ops, Steps
  <2>4. Coherent(m)
    BY <2>1 DEF Coherent, Holding
  <2>5. worker' = [worker EXCEPT ![w] = m]
    BY <1>19 DEF Refer, TypeOK
  <2>6. /\ revertOf' \in [Requests -> Requests \cup {NoRequest}]
        /\ referred' \in [Requests -> SUBSET Requests]
    BY <1>19, <2>1 DEF Refer, TypeOK
  <2> HIDE DEF m
  <2> QED
    BY <1>19, <2>1, <2>2, <2>3, <2>4, <2>5, <2>6, SetWorker DEF Refer,
       TypeOK
<1>20. ASSUME NEW w \in Workers, ReferRefused(w)
      PROVE  TypeOK'
  BY <1>20, IdleType, SetWorker DEF ReferRefused, TypeOK
<1>21. ASSUME NEW w \in Workers, WriteMerged(w)
      PROVE  TypeOK'
  <2>1. CASE Refused(worker[w])
    BY <1>21, <2>1, IdleType, SetWorker DEF WriteMerged, TypeOK
  <2>2. CASE ~Refused(worker[w])
    <3> DEFINE m == [worker[w] EXCEPT !.pc = "respond", !.refs = NoRefs,
                                      !.links = NoLinks]
    <3>1. worker[w] \in Memory /\ Coherent(worker[w]) /\ worker[w].pc = "write"
      BY <1>21 DEF WriteMerged, TypeOK
    <3>2. m \in Memory /\ Coherent(m)
      <4> DEFINE j == [worker[w] EXCEPT !.refs = NoRefs, !.links = NoLinks]
      <4>1. j \in Memory
        BY <3>1, EmptyTypes, MemoryJoining
      <4>2. m = [j EXCEPT !.pc = "respond"]
        BY <3>1 DEF Memory
      <4>3. m \in Memory
        <5> HIDE DEF j, m
        <5> QED BY <4>1, <4>2, MemoryAt DEF Steps
      <4>4. /\ m.req = worker[w].req /\ m.op = "reject" /\ m.pc = "respond"
        BY <1>21, <3>1 DEF WriteMerged, Memory
      <4> HIDE DEF m
      <4> QED BY <3>1, <4>3, <4>4 DEF Coherent
    <3>3. worker' = [worker EXCEPT ![w] = m]
      BY <1>21, <2>2 DEF WriteMerged
    <3>4. row' = MergedRow(worker[w]) /\ revertOf' = MergedRefs(worker[w])
      BY <1>21, <2>2 DEF WriteMerged
    <3>5. MergedRow(worker[w]) \in [Requests -> Row]
      <4>1. \A q \in Requests, c \in Columns : Merged(q, c) \in Row
        BY DEF Merged, TypeOK, Row, Columns
      <4> QED BY <3>1, <4>1 DEF MergedRow, TypeOK, Memory
    <3>6. MergedRefs(worker[w]) \in [Requests -> Requests \cup {NoRequest}]
      BY <3>1 DEF MergedRefs, TypeOK, Memory
    <3> HIDE DEF m
    <3> QED
      BY <1>21, <3>2, <3>3, <3>4, <3>5, <3>6, SetWorker DEF WriteMerged, TypeOK
  <2> QED BY <2>1, <2>2
<1>22. ASSUME NEW w \in Workers, Write(w)
      PROVE  TypeOK'
  <2>1. /\ worker[w].req \in Requests /\ worker[w] \in Memory
        /\ worker[w].old \in Columns /\ worker[w].cur \in Columns
    BY <1>22 DEF Write, TypeOK, Coherent, Memory
  <2>2. row' \in [Requests -> Row]
    BY <1>22, <2>1, WrittenType DEF Write
  <2> DEFINE m == IF worker[w].op \in {"event", "revert"} THEN Idle ELSE
     [worker[w] EXCEPT !.old = worker[w].cur, !.pc = IF worker[w].op =
     "update" THEN "load" ELSE "respond"]
  <2>3. m \in Memory
    BY <2>1, IdleType DEF Memory, Steps
  <2>4. Coherent(m)
    BY <1>22, <2>1, IdleType DEF Write, TypeOK, Coherent, Memory
  <2>5. worker' = [worker EXCEPT ![w] = m]
    BY <1>22 DEF Write
  <2> HIDE DEF m
  <2> QED
    BY <1>22, <2>1, <2>2, <2>3, <2>4, <2>5, SetWorker DEF Write, TypeOK
<1>23. ASSUME NEW w \in Workers, Respond(w)
      PROVE  TypeOK'
  <2> DEFINE new == [status |-> "Approved", approvedBy |->
     worker[w].cur.approvedBy \cup worker[w].view.approvers]
  <2>1. /\ worker[w].req \in Requests
        /\ worker[w].old \in Columns
    BY <1>23 DEF Respond, TypeOK, Coherent, Memory
  <2>2. new \in Columns
    BY DEF TypeOK, Memory, Columns, Statuses, View, Logins
  <2>3. /\ row' = Written(worker[w].req, worker[w].old, new)
        /\ worker' = [worker EXCEPT ![w].old = new, ![w].cur = new, ![w].pc = "settle"]
    BY <1>23 DEF Respond
  <2> HIDE DEF new
  <2>4. row' \in [Requests -> Row]
    BY <2>1, <2>2, <2>3, WrittenType
  <2> DEFINE m == [worker[w] EXCEPT !.old = new, !.cur = new, !.pc =
     "settle"]
  <2>5. worker[w] \in Memory /\ Coherent(worker[w]) /\ worker[w].pc = "respond"
    BY <1>23 DEF Respond, TypeOK
  <2>6. m \in Memory /\ Coherent(m)
    BY <2>2, <2>5 DEF Memory, Steps, Coherent
  <2>7. worker' = [worker EXCEPT ![w] = m]
    BY <2>3 DEF TypeOK
  <2> HIDE DEF m
  <2> QED
    BY <1>23, <2>4, <2>6, <2>7, SetWorker DEF Respond, TypeOK
<1>24. ASSUME NEW w \in Workers, RespondRaises(w)
      PROVE  TypeOK'
  BY <1>24, IdleType, SetWorker DEF RespondRaises, TypeOK
<1>25. ASSUME NEW w \in Workers, Settle(w)
      PROVE  TypeOK'
  <2>0. worker[w] \in Memory /\ Coherent(worker[w]) /\ worker[w].pc # "idle"
    BY <1>25 DEF Settle, TypeOK
  <2>1. /\ worker[w].req \in Requests /\ worker[w].old \in Columns
        /\ [worker[w].cur EXCEPT !.status = "Applied"] \in Columns
    BY <2>0 DEF Coherent, Memory, Columns, Statuses
  <2>2. row' \in [Requests -> Row]
    BY <1>25, <2>1, WrittenType DEF Settle, TypeOK
  <2>3. ASSUME worker[w].target = NoRequest PROVE TypeOK'
    BY <1>25, <2>2, <2>3, IdleType, SetWorker DEF Settle, Finished, TypeOK
  <2>4. ASSUME worker[w].target # NoRequest PROVE TypeOK'
    <3> DEFINE m == [worker[w] EXCEPT !.pc = "refer"]
    <3>1. worker' = [worker EXCEPT ![w] = m]
      BY <1>25, <2>4 DEF Settle, Finished
    <3>2. m \in Memory /\ Coherent(m)
      <4>1. m \in Memory
        BY <2>0, MemoryAt DEF Steps
      <4>2. worker[w].target \in Requests
        BY <2>0, <2>4 DEF Memory
      <4>3. /\ m.req = worker[w].req /\ m.op = worker[w].op
            /\ m.user = worker[w].user /\ m.target = worker[w].target
        BY <2>0 DEF Memory
      <4>4. worker[w].op = "revert" => worker[w].pc # "write"
        BY <1>25 DEF Settle
      <4> HIDE DEF m
      <4> QED BY <2>0, <4>1, <4>2, <4>3, <4>4 DEF Coherent
    <3> HIDE DEF m
    <3> QED BY <1>25, <2>2, <3>1, <3>2, SetWorker DEF Settle, TypeOK
  <2> QED
    BY <2>3, <2>4
<1>26. ASSUME NEW w \in Workers, Crash(w)
      PROVE  TypeOK'
  <2>1. calls' \in 0 .. MaxCalls
    BY <1>26, BoundsAssumption DEF Crash, Call, TypeOK
  <2> QED
    BY <1>26, <2>1, IdleType, SetWorker DEF Crash, TypeOK
<1>27. ASSUME NEW r \in Requests, NEW p \in Reviewers \cup {Bot}, NEW v
   \in {"APPROVED", "CHANGES_REQUESTED"}, SubmitReview(r, p, v)
      PROVE  TypeOK'
  <2>1. payloads' \in [Requests -> SUBSET Payload]
    BY <1>27, ToldType DEF SubmitReview, TypeOK
  <2>2. [by |-> p, verdict |-> v] \in Review
    BY DEF Review
  <2>3. Append(pr[r].reviews, [by |-> p, verdict |-> v]) \in Seq(Review)
    BY <2>2, AppendProperties DEF TypeOK, PullRequest
  <2>4. pr' \in [Requests -> PullRequest]
    BY <1>27, <2>3 DEF SubmitReview, TypeOK, PullRequest
  <2> QED
    BY <1>27, <2>1, <2>4 DEF SubmitReview, TypeOK
<1>28. ASSUME NEW r \in Requests, NEW i \in DOMAIN pr[r].reviews,
   DismissReview(r, i)
      PROVE  TypeOK'
  <2> DEFINE s == pr[r].reviews
  <2> DEFINE e == [s[i] EXCEPT !.verdict = "DISMISSED"]
  <2>1. s \in Seq(Review) /\ i \in 1 .. Len(s)
    BY DEF TypeOK, PullRequest
  <2>2. s[i] \in Review
    BY <2>1
  <2>3. e \in Review
    BY <2>2 DEF Review
  <2>4. [s EXCEPT ![i] = e] \in Seq(Review)
    BY <2>1, <2>3, ExceptSeq
  <2>5. pr' = [pr EXCEPT ![r].reviews = [s EXCEPT ![i] = e]]
    BY <1>28 DEF DismissReview
  <2> HIDE DEF s, e
  <2>6. pr' \in [Requests -> PullRequest]
    BY <2>4, <2>5 DEF TypeOK, PullRequest
  <2> QED
    BY <1>28, <2>6 DEF DismissReview, TypeOK
<1>29. ASSUME NEW r \in Requests, NEW state \in {"merged", "closed"},
   EndPr(r, state)
      PROVE  TypeOK'
  BY <1>29, ToldType DEF EndPr, TypeOK, PullRequest
<1>30. ASSUME NEW r \in Requests, ReopenPr(r)
      PROVE  TypeOK'
  BY <1>30 DEF ReopenPr, TypeOK, PullRequest
<1>31. CASE UNCHANGED vars
  BY <1>31 DEF vars, TypeOK
<1> QED
  BY <1>1, <1>2, <1>3, <1>4, <1>5, <1>6, <1>7, <1>8, <1>9, <1>10, <1>11,
     <1>12, <1>13, <1>14, <1>15, <1>16, <1>17, <1>18, <1>19, <1>20,
     <1>21, <1>22, <1>23, <1>24, <1>25, <1>26, <1>27, <1>28, <1>29, <1>30,
     <1>31 DEF Next, Start, Continue, GitHub

(***************************************************************************)
(* The state of every behaviour has its type: rows, pull requests, memory. *)
(***************************************************************************)
THEOREM TypeCorrect == Spec => []TypeOK
<1>1. Init => TypeOK
  BY BoundsAssumption, IdleType DEF Init, TypeOK, Row, PullRequest
<1> QED BY <1>1, TypeStep, PTL DEF Spec

-----------------------------------------------------------------------------
(***************************************************************************)
(* The facts a status rests on are never taken back: payloads are kept, a  *)
(* merge is final, a pull request does not vanish, and that a request was  *)
(* referred to a revert is never undone, though its reference may be.      *)
(***************************************************************************)
GrownOf(r) ==
  /\ payloads[r] \subseteq payloads'[r]
  /\ pr[r].state = "merged" => pr'[r].state = "merged"
  /\ pr[r].state # "none" => pr'[r].state # "none"
  /\ referred[r] \subseteq referred'[r]

Grown == \A r \in Requests : GrownOf(r)

(* Closing a pull request takes no fact back. *)
LEMMA ClosePrGrows ==
  ASSUME TypeOK, NEW r \in Requests, ClosePr(r), NEW q \in Requests,
         UNCHANGED referred
  PROVE  GrownOf(q)
<1>1. CASE pr[r].state = "open"
  <2>1. pr' = [pr EXCEPT ![r].state = "closed"]
    BY <1>1 DEF ClosePr
  <2>2. payloads' = Told(r, {}, "closed")
    BY <1>1 DEF ClosePr
  <2> QED BY <1>1, <2>1, <2>2 DEF Told, GrownOf, TypeOK, PullRequest
<1>2. CASE pr[r].state # "open"
  <2>1. UNCHANGED <<pr, payloads>>
    BY <1>2 DEF ClosePr
  <2> QED BY <2>1 DEF GrownOf
<1> QED BY <1>1, <1>2

(* No step of any worker or of GitHub takes a fact back. *)
LEMMA FactsGrow == TypeOK /\ [Next]_vars => Grown
<1> SUFFICES ASSUME TypeOK, [Next]_vars, NEW q \in Requests PROVE GrownOf(q)
  BY DEF Grown
<1>1. ASSUME NEW w \in Workers, NEW r \in Requests, BeginView(w, r)
      PROVE  GrownOf(q)
  BY <1>1 DEF GrownOf, BeginView, Begin
<1>2. ASSUME NEW w \in Workers, NEW r \in Requests, NEW u \in Users,
   BeginCreate(w, r, u)
      PROVE  GrownOf(q)
  BY <1>2 DEF GrownOf, BeginCreate, Fresh, TypeOK, PullRequest
<1>3. ASSUME NEW w \in Workers, NEW r \in Requests, NEW u \in Users,
   BeginUpdate(w, r, u)
      PROVE  GrownOf(q)
  BY <1>3 DEF GrownOf, BeginUpdate, Begin
<1>4. ASSUME NEW w \in Workers, NEW r \in Requests, NEW u \in Users,
   BeginApprove(w, r, u)
      PROVE  GrownOf(q)
  BY <1>4 DEF GrownOf, BeginApprove, Begin
<1>5. ASSUME NEW w \in Workers, NEW r \in Requests, NEW u \in Users,
   BeginApply(w, r, u)
      PROVE  GrownOf(q)
  BY <1>5 DEF GrownOf, BeginApply, Begin
<1>6. ASSUME NEW w \in Workers, NEW r \in Requests, NEW u \in Users,
   BeginReject(w, r, u)
      PROVE  GrownOf(q)
  BY <1>6 DEF GrownOf, BeginReject
<1>7. ASSUME NEW w \in Workers, NEW r \in Requests, NEW u \in Users,
   BeginRevert(w, r, u)
      PROVE  GrownOf(q)
  BY <1>7 DEF GrownOf, BeginRevert, Begin
<1>8. ASSUME NEW w \in Workers, NEW r \in Requests, NEW p \in payloads[r],
   BeginEvent(w, r, p)
      PROVE  GrownOf(q)
  BY <1>8 DEF GrownOf, BeginEvent, Begin
<1>9. ASSUME NEW w \in Workers, Insert(w)
      PROVE  GrownOf(q)
  BY <1>9 DEF GrownOf, Insert
<1>10. ASSUME NEW w \in Workers, Load(w)
      PROVE  GrownOf(q)
  BY <1>10 DEF GrownOf, Load
<1>11. ASSUME NEW w \in Workers, ActOnEnded(w)
      PROVE  GrownOf(q)
  BY <1>11 DEF GrownOf, ActOnEnded
<1>12. ASSUME NEW w \in Workers, ActApprove(w)
      PROVE  GrownOf(q)
  BY <1>12 DEF GrownOf, ActApprove
<1>13. ASSUME NEW w \in Workers, ActApply(w)
      PROVE  GrownOf(q)
  BY <1>13 DEF GrownOf, ActApply
<1>14. ASSUME NEW w \in Workers, ActReject(w)
      PROVE  GrownOf(q)
  <2>1. worker[w].req \in Requests
    BY <1>14 DEF ActReject, TypeOK, Coherent
  <2> QED
    BY <1>14, <2>1, ClosePrGrows DEF ActReject, GrownOf
<1>15. ASSUME NEW w \in Workers, ActEventApproval(w)
      PROVE  GrownOf(q)
  BY <1>15 DEF GrownOf, ActEventApproval
<1>16. ASSUME NEW w \in Workers, ActEventMerged(w)
      PROVE  GrownOf(q)
  BY <1>16 DEF GrownOf, ActEventMerged
<1>17. ASSUME NEW w \in Workers, ActEventClosed(w)
      PROVE  GrownOf(q)
  BY <1>17 DEF GrownOf, ActEventClosed
<1>18. ASSUME NEW w \in Workers, NEW r \in Requests, ActRevert(w, r)
      PROVE  GrownOf(q)
  BY <1>18 DEF GrownOf, ActRevert, Fresh, TypeOK, PullRequest
<1>19. ASSUME NEW w \in Workers, Refer(w)
      PROVE  GrownOf(q)
  BY <1>19 DEF GrownOf, Refer, TypeOK, Coherent
<1>20. ASSUME NEW w \in Workers, ReferRefused(w)
      PROVE  GrownOf(q)
  BY <1>20 DEF GrownOf, ReferRefused
<1>21. ASSUME NEW w \in Workers, WriteMerged(w)
      PROVE  GrownOf(q)
  BY <1>21 DEF GrownOf, WriteMerged
<1>22. ASSUME NEW w \in Workers, Write(w)
      PROVE  GrownOf(q)
  BY <1>22 DEF GrownOf, Write
<1>23. ASSUME NEW w \in Workers, Respond(w)
      PROVE  GrownOf(q)
  BY <1>23 DEF GrownOf, Respond
<1>24. ASSUME NEW w \in Workers, RespondRaises(w)
      PROVE  GrownOf(q)
  BY <1>24 DEF GrownOf, RespondRaises
<1>25. ASSUME NEW w \in Workers, Settle(w)
      PROVE  GrownOf(q)
  BY <1>25 DEF GrownOf, Settle
<1>26. ASSUME NEW w \in Workers, Crash(w)
      PROVE  GrownOf(q)
  BY <1>26 DEF GrownOf, Crash
<1>27. ASSUME NEW r \in Requests, NEW p \in Reviewers \cup {Bot}, NEW v \in
   {"APPROVED", "CHANGES_REQUESTED"}, SubmitReview(r, p, v)
      PROVE  GrownOf(q)
  BY <1>27 DEF GrownOf, SubmitReview, Told, TypeOK, PullRequest
<1>28. ASSUME NEW r \in Requests, NEW i \in DOMAIN pr[r].reviews,
   DismissReview(r, i)
      PROVE  GrownOf(q)
  BY <1>28 DEF GrownOf, DismissReview, TypeOK, PullRequest
<1>29. ASSUME NEW r \in Requests, NEW state \in {"merged", "closed"},
   EndPr(r, state)
      PROVE  GrownOf(q)
  BY <1>29 DEF GrownOf, EndPr, Told, TypeOK, PullRequest
<1>30. ASSUME NEW r \in Requests, ReopenPr(r)
      PROVE  GrownOf(q)
  BY <1>30 DEF GrownOf, ReopenPr, TypeOK, PullRequest
<1>31. CASE UNCHANGED vars
  BY <1>31 DEF vars, GrownOf
<1> QED
  BY <1>1, <1>2, <1>3, <1>4, <1>5, <1>6, <1>7, <1>8, <1>9, <1>10, <1>11,
     <1>12, <1>13, <1>14, <1>15, <1>16, <1>17, <1>18, <1>19, <1>20,
     <1>21, <1>22, <1>23, <1>24, <1>25, <1>26, <1>27, <1>28, <1>29, <1>30,
     <1>31 DEF Next, Start, Continue, GitHub

-----------------------------------------------------------------------------
(***************************************************************************)
(* What a worker holds of the references of a request and of the rows they *)
(* lead to is what get_request joined to the request, all at once; a step  *)
(* of anybody keeps it or forgets it.                                      *)
(***************************************************************************)
JoinsOf(w) ==
  \/ worker'[w].refs = worker[w].refs /\ worker'[w].links = worker[w].links
  \/ worker'[w].refs = NoRefs /\ worker'[w].links = NoLinks
  \/ \E r \in Requests : worker'[w].refs = RefsOf(r) /\ worker'[w].links = LinksOf(r)

(* Every step of every worker keeps, forgets or joins. *)
LEMMA JoinsKept == TypeOK /\ [Next]_vars => \A x \in Workers : JoinsOf(x)
<1> SUFFICES ASSUME TypeOK, [Next]_vars, NEW x \in Workers PROVE JoinsOf(x)
  OBVIOUS
<1>0. worker \in [Workers -> Memory]
  BY DEF TypeOK
<1>1. ASSUME NEW w \in Workers, NEW r \in Requests, BeginView(w, r)
      PROVE  JoinsOf(x)
  BY <1>0, <1>1 DEF JoinsOf, Memory, BeginView, Begin, Holding
<1>2. ASSUME NEW w \in Workers, NEW r \in Requests, NEW u \in Users, BeginCreate(w, r, u)
      PROVE  JoinsOf(x)
  BY <1>0, <1>2 DEF JoinsOf, Memory, BeginCreate, Holding
<1>3. ASSUME NEW w \in Workers, NEW r \in Requests, NEW u \in Users, BeginUpdate(w, r, u)
      PROVE  JoinsOf(x)
  BY <1>0, <1>3 DEF JoinsOf, Memory, BeginUpdate, Begin, Holding
<1>4. ASSUME NEW w \in Workers, NEW r \in Requests, NEW u \in Users, BeginApprove(w, r, u)
      PROVE  JoinsOf(x)
  BY <1>0, <1>4 DEF JoinsOf, Memory, BeginApprove, Begin, Holding
<1>5. ASSUME NEW w \in Workers, NEW r \in Requests, NEW u \in Users, BeginApply(w, r, u)
      PROVE  JoinsOf(x)
  BY <1>0, <1>5 DEF JoinsOf, Memory, BeginApply, Begin, Holding
<1>6. ASSUME NEW w \in Workers, NEW r \in Requests, NEW u \in Users, BeginReject(w, r, u)
      PROVE  JoinsOf(x)
  BY <1>0, <1>6 DEF JoinsOf, Memory, BeginReject, Holding
<1>7. ASSUME NEW w \in Workers, NEW r \in Requests, NEW u \in Users, BeginRevert(w, r, u)
      PROVE  JoinsOf(x)
  BY <1>0, <1>7 DEF JoinsOf, Memory, BeginRevert, Begin, Holding
<1>8. ASSUME NEW w \in Workers, NEW r \in Requests, NEW p \in payloads[r], BeginEvent(w, r, p)
      PROVE  JoinsOf(x)
  BY <1>0, <1>8 DEF JoinsOf, Memory, BeginEvent, Begin, Holding
<1>9. ASSUME NEW w \in Workers, Insert(w)
      PROVE  JoinsOf(x)
  BY <1>0, <1>9 DEF JoinsOf, Memory, Insert
<1>10. ASSUME NEW w \in Workers, Load(w)
      PROVE  JoinsOf(x)
  BY <1>0, <1>10 DEF JoinsOf, Memory, Load
<1>11. ASSUME NEW w \in Workers, ActOnEnded(w)
      PROVE  JoinsOf(x)
  BY <1>0, <1>11 DEF JoinsOf, Memory, ActOnEnded, Prepared
<1>12. ASSUME NEW w \in Workers, ActApprove(w)
      PROVE  JoinsOf(x)
  BY <1>0, <1>12 DEF JoinsOf, Memory, ActApprove, Prepared
<1>13. ASSUME NEW w \in Workers, ActApply(w)
      PROVE  JoinsOf(x)
  BY <1>0, <1>13 DEF JoinsOf, Memory, ActApply, Prepared
<1>14. ASSUME NEW w \in Workers, ActReject(w)
      PROVE  JoinsOf(x)
  BY <1>0, <1>14 DEF JoinsOf, Memory, ActReject, Prepared
<1>15. ASSUME NEW w \in Workers, ActEventApproval(w)
      PROVE  JoinsOf(x)
  BY <1>0, <1>15 DEF JoinsOf, Memory, ActEventApproval, Prepared
<1>16. ASSUME NEW w \in Workers, ActEventMerged(w)
      PROVE  JoinsOf(x)
  BY <1>0, <1>16 DEF JoinsOf, Memory, ActEventMerged
<1>17. ASSUME NEW w \in Workers, ActEventClosed(w)
      PROVE  JoinsOf(x)
  BY <1>0, <1>17 DEF JoinsOf, Memory, ActEventClosed, Prepared
<1>18. ASSUME NEW w \in Workers, NEW r \in Requests, ActRevert(w, r)
      PROVE  JoinsOf(x)
  BY <1>0, <1>18 DEF JoinsOf, Memory, ActRevert, Holding
<1>19. ASSUME NEW w \in Workers, Refer(w)
      PROVE  JoinsOf(x)
  BY <1>0, <1>19 DEF JoinsOf, Memory, Refer, Holding
<1>20. ASSUME NEW w \in Workers, ReferRefused(w)
      PROVE  JoinsOf(x)
  BY <1>0, <1>20 DEF JoinsOf, Memory, ReferRefused, Idle, Holding
<1>21. ASSUME NEW w \in Workers, WriteMerged(w)
      PROVE  JoinsOf(x)
  <2>1. CASE Refused(worker[w])
    BY <1>0, <1>21, <2>1 DEF JoinsOf, WriteMerged, Idle, Holding
  <2>2. CASE ~Refused(worker[w])
    <3>1. worker' = [worker EXCEPT ![w] = [worker[w] EXCEPT
            !.pc = "respond", !.refs = NoRefs, !.links = NoLinks]]
      BY <1>21, <2>2 DEF WriteMerged
    <3> QED BY <1>0, <3>1 DEF JoinsOf, Memory
  <2> QED BY <2>1, <2>2
<1>22. ASSUME NEW w \in Workers, Write(w)
      PROVE  JoinsOf(x)
  BY <1>0, <1>22 DEF JoinsOf, Memory, Write, Idle, Holding
<1>23. ASSUME NEW w \in Workers, Respond(w)
      PROVE  JoinsOf(x)
  BY <1>0, <1>23 DEF JoinsOf, Memory, Respond
<1>24. ASSUME NEW w \in Workers, RespondRaises(w)
      PROVE  JoinsOf(x)
  BY <1>0, <1>24 DEF JoinsOf, Memory, RespondRaises, Idle, Holding
<1>25. ASSUME NEW w \in Workers, Settle(w)
      PROVE  JoinsOf(x)
  BY <1>0, <1>25 DEF JoinsOf, Memory, Settle, Finished, Idle, Holding
<1>26. ASSUME NEW w \in Workers, Crash(w)
      PROVE  JoinsOf(x)
  BY <1>0, <1>26 DEF JoinsOf, Memory, Crash, Idle, Holding
<1>27. CASE UNCHANGED worker
  BY <1>27 DEF JoinsOf
<1> QED
  BY <1>1, <1>2, <1>3, <1>4, <1>5, <1>6, <1>7, <1>8, <1>9, <1>10, <1>11, <1>12, <1>13, <1>14, <1>15, <1>16, <1>17, <1>18, <1>19, <1>20, <1>21, <1>22, <1>23, <1>24, <1>25, <1>26, <1>27
     DEF Next, Start, Continue, GitHub, SubmitReview, DismissReview, EndPr, ReopenPr, vars

(* So what it holds of the other rows stays true. *)
LinksKept == \A x \in Workers : Linked(x)'

(* A worker that keeps, forgets or joins has true copies of the rows. *)
LEMMA LinksStay ==
  ASSUME StatusInv, Grown, NEW w \in Workers, JoinsOf(w)
  PROVE  Linked(w)'
<1> SUFFICES ASSUME NEW q \in Requests
             PROVE  Supported(worker[w].links[q].status, q)'
                    /\ (worker'[w].links[q].status # "Absent" => pr'[q].state # "none")
  BY DEF Linked
<1> DEFINE status == worker'[w].links[q].status
<1>1. Supported(status, q) /\ (status # "Absent" => pr[q].state # "none")
  <2>1. CASE worker'[w].links = worker[w].links
    BY <2>1 DEF StatusInv, Linked
  <2>2. CASE worker'[w].links = NoLinks
    BY <2>2 DEF NoLinks, NoColumns, Supported
  <2>3. ASSUME NEW r \in Requests, worker'[w].links = LinksOf(r)
        PROVE  Supported(status, q) /\ (status # "Absent" => pr[q].state # "none")
    <3>1. status \in {"Absent", row[q].status}
      BY <2>3 DEF LinksOf, ColumnsOf, NoColumns
    <3> QED BY <3>1 DEF StatusInv, ToldOf, Supported
  <2> QED BY <2>1, <2>2, <2>3 DEF JoinsOf
<1>2. GrownOf(q)
  BY DEF Grown
<1> QED
  BY <1>1, <1>2 DEF GrownOf, Supported, ApprovedOnce, EndedOnce, IsMerged

(* What a worker remembers stays true while it does nothing. *)
LEMMA OthersRemember ==
  ASSUME StatusInv, Grown, NEW w \in Workers, worker'[w] = worker[w]
  PROVE  Remembers(w)'
<1>1. Remembers(w) /\ Coherent(worker[w]) /\ worker[w] \in Memory
  BY DEF StatusInv, TypeOK
<1> QED
  BY <1>1 DEF Grown, GrownOf, Remembers, Coherent, Memory, Supported,
     ApprovedOnce, EndedOnce, IsMerged

(* What GitHub has told of a request stays true while nothing happens to it. *)
LEMMA OthersTold ==
  ASSUME StatusInv, Grown, NEW q \in Requests, row'[q] = row[q],
         pr'[q] = pr[q], payloads'[q] = payloads[q]
  PROVE  ToldOf(q)' /\ Supported(row[q].status, q)'
<1>1. ToldOf(q) /\ Supported(row[q].status, q)
  BY DEF StatusInv
<1> QED
  BY <1>1 DEF Grown, GrownOf, ToldOf, Supported, ApprovedOnce, EndedOnce,
     IsMerged

(* A step of one worker on one request. *)
LEMMA OneWorker ==
  ASSUME StatusInv, TypeOK', Grown, LinksKept, NEW w \in Workers, NEW r \in Requests,
         \A x \in Workers \ {w} : worker'[x] = worker[x],
         \A q \in Requests \ {r} : /\ row'[q] = row[q]
                                   /\ pr'[q] = pr[q]
                                   /\ payloads'[q] = payloads[q],
         Remembers(w)', ToldOf(r)', Supported(row[r].status, r)'
  PROVE  StatusInv'
<1>1. ASSUME NEW x \in Workers PROVE Remembers(x)'
  BY OthersRemember
<1>2. ASSUME NEW q \in Requests
      PROVE  ToldOf(q)' /\ Supported(row[q].status, q)'
  BY OthersTold
<1> QED BY <1>1, <1>2 DEF StatusInv, LinksKept

(* A step of one worker that touches its memory only. *)
LEMMA OneMemory ==
  ASSUME StatusInv, TypeOK', Grown, LinksKept, NEW w \in Workers,
         \A x \in Workers \ {w} : worker'[x] = worker[x],
         UNCHANGED <<row, pr, payloads>>, Remembers(w)'
  PROVE  StatusInv'
<1>1. ASSUME NEW x \in Workers PROVE Remembers(x)'
  BY OthersRemember
<1>2. ASSUME NEW q \in Requests
      PROVE  ToldOf(q)' /\ Supported(row[q].status, q)'
  BY OthersTold
<1> QED BY <1>1, <1>2 DEF StatusInv, LinksKept

(* A step of GitHub on one pull request. *)
LEMMA OnePr ==
  ASSUME StatusInv, TypeOK', Grown, LinksKept, NEW r \in Requests,
         UNCHANGED <<row, worker>>,
         \A q \in Requests \ {r} : /\ pr'[q] = pr[q]
                                   /\ payloads'[q] = payloads[q],
         ToldOf(r)'
  PROVE  StatusInv'
<1>1. ASSUME NEW x \in Workers PROVE Remembers(x)'
  BY OthersRemember
<1>2. Supported(row[r].status, r)'
  BY DEF StatusInv, Supported, Grown, GrownOf, ApprovedOnce, EndedOnce, IsMerged
<1>3. ASSUME NEW q \in Requests
      PROVE  ToldOf(q)' /\ Supported(row[q].status, q)'
  BY <1>2, OthersTold
<1> QED BY <1>1, <1>3 DEF StatusInv, LinksKept

(* An idle worker has nothing to remember. *)
LEMMA IdleRemembers ==
  ASSUME NEW w \in Workers, worker' = [worker EXCEPT ![w] = Idle], TypeOK
  PROVE  Remembers(w)'
  BY IdleType DEF TypeOK, Remembers

(* A worker that has just read a row remembers what the row said. *)
LEMMA BeginRemembers ==
  ASSUME StatusInv, TypeOK', Grown, LinksKept, NEW w \in Workers, NEW r \in Requests, NEW op,
         NEW u, NEW event, NEW old, NEW cur, NEW step \in {"load", "write"},
         Begin(w, op, r, u, event, old, cur, step),
         Supported(old.status, r), Supported(cur.status, r),
         cur.status # "Absent", op = "event" => event \in payloads[r],
         op = "apply" => cur.status = "Applying"
  PROVE  StatusInv'
<1> DEFINE m == Holding(op, r, u, event, old, cur, step)
<1>1. worker' = [worker EXCEPT ![w] = m]
  BY DEF Begin
<1>2. /\ m.req = r /\ m.op = op /\ m.event = event /\ m.old = old
      /\ m.cur = cur /\ m.target = NoRequest /\ m.pc = step
      /\ m.view = NoView
  BY DEF Holding
<1> HIDE DEF m
<1>3. worker'[w] = m /\ \A x \in Workers \ {w} : worker'[x] = worker[x]
  BY <1>1 DEF StatusInv, TypeOK
<1>4. UNCHANGED <<row, pr, payloads, referred>>
  BY DEF Begin
<1>5. pr[r].state # "none"
  BY DEF StatusInv, ToldOf, Begin
<1>6. Supported(old.status, r)' /\ Supported(cur.status, r)'
  BY <1>4 DEF Supported, ApprovedOnce, EndedOnce, IsMerged
<1>7. op = "apply" => ApprovedOnce(r)'
  BY <1>6 DEF Supported
<1>8. Remembers(w)'
  BY <1>2, <1>3, <1>4, <1>5, <1>6, <1>7 DEF Remembers, NoView
<1> QED BY <1>3, <1>4, <1>8, OneMemory

(* A worker that has decided on a supported status. *)
LEMMA PreparedRemembers ==
  ASSUME StatusInv, TypeOK', Grown, LinksKept, NEW w \in Workers, NEW status,
         worker[w].pc = "act", worker' = Prepared(w, status),
         UNCHANGED <<row, pr, payloads, referred>>,
         status # "Absent", Supported(status, worker[w].req)
  PROVE  StatusInv'
<1>1. Remembers(w) /\ worker[w] \in Memory /\ worker \in [Workers -> Memory]
  BY DEF StatusInv, TypeOK
<1>2. \A x \in Workers \ {w} : worker'[x] = worker[x]
  BY <1>1 DEF Prepared
<1>3. /\ worker'[w].req = worker[w].req /\ worker'[w].old = worker[w].old
      /\ worker'[w].cur.status = status /\ worker'[w].pc = "write"
      /\ worker'[w].op = worker[w].op /\ worker'[w].event = worker[w].event
      /\ worker'[w].view = worker[w].view
      /\ worker'[w].target = worker[w].target
  BY <1>1 DEF Prepared, Memory, Columns
<1>4. Remembers(w)'
  BY <1>1, <1>3 DEF Remembers, Supported, ApprovedOnce, EndedOnce, IsMerged
<1> QED BY <1>2, <1>4, OneMemory

(* A worker that writes a supported status to the request it works on. *)
LEMMA WriteKeeps ==
  ASSUME StatusInv, TypeOK', Grown, LinksKept, NEW w \in Workers,
         worker[w].pc # "idle", NEW old \in Columns, NEW cur \in Columns,
         row' = Written(worker[w].req, old, cur),
         \A x \in Workers \ {w} : worker'[x] = worker[x],
         UNCHANGED <<pr, payloads, referred>>,
         cur.status # "Absent", Supported(cur.status, worker[w].req),
         Remembers(w)'
  PROVE  StatusInv'
<1>1. PICK r \in Requests : r = worker[w].req /\ pr[r].state # "none"
  BY DEF StatusInv, TypeOK, Coherent, Remembers
<1>2. ToldOf(r) /\ Supported(row[r].status, r)
  BY <1>1 DEF StatusInv
<1>3. /\ \A q \in Requests \ {r} : row'[q] = row[q]
      /\ row'[r].status \in {row[r].status, cur.status}
  BY <1>1 DEF StatusInv, TypeOK, Written
<1>4. Supported(row[r].status, r)'
  BY <1>1, <1>2, <1>3 DEF Supported, ApprovedOnce, EndedOnce, IsMerged
<1>5. ToldOf(r)'
  BY <1>1, <1>2 DEF ToldOf, EndedOnce, IsMerged
<1> QED BY <1>1, <1>3, <1>4, <1>5, OneWorker

(* A pull request that has just been opened, by the worker that opened it. *)
LEMMA OpenedTold ==
  ASSUME StatusInv, NEW r \in Requests, Fresh(r),
         pr' = [pr EXCEPT ![r].state = "open"], UNCHANGED <<row, payloads>>
  PROVE  ToldOf(r)' /\ Supported(row[r].status, r)' /\ pr'[r].state = "open"
<1>1. ToldOf(r) /\ pr \in [Requests -> PullRequest]
  BY DEF StatusInv, TypeOK
<1>2. pr'[r].state = "open" /\ pr'[r].reviews = pr[r].reviews
  BY <1>1 DEF PullRequest
<1>3. row[r].status = "Absent" /\ \A p \in payloads[r] : ~p.merged
  BY <1>1 DEF ToldOf, Fresh, IsMerged
<1> QED BY <1>1, <1>2, <1>3 DEF ToldOf, EndedOnce, IsMerged, Supported

(* A closed pull request has told of its closing. *)
LEMMA ClosePrTold ==
  ASSUME StatusInv, Grown, NEW r \in Requests, ClosePr(r), UNCHANGED row
  PROVE  /\ ToldOf(r)' /\ Supported(row[r].status, r)'
         /\ \A q \in Requests \ {r} : pr'[q] = pr[q] /\ payloads'[q] = payloads[q]
         /\ pr[r].state # "none" => EndedOnce(r)'
<1>1. /\ ToldOf(r) /\ pr \in [Requests -> PullRequest]
      /\ Supported(row[r].status, r)
      /\ payloads \in [Requests -> SUBSET Payload]
  BY DEF StatusInv, TypeOK
<1>2. Supported(row[r].status, r)'
  BY <1>1 DEF Grown, GrownOf, Supported, ApprovedOnce, EndedOnce, IsMerged
<1>3. CASE pr[r].state = "open"
  <2> DEFINE new == [by |-> {}, merged |-> FALSE, closed |-> TRUE]
  <2>1. pr' = [pr EXCEPT ![r].state = "closed"]
    BY <1>3 DEF ClosePr
  <2>2. payloads' = [payloads EXCEPT ![r] = @ \cup {new}]
    BY <1>3 DEF ClosePr, Told
  <2>3. pr'[r].state = "closed" /\ pr'[r].reviews = pr[r].reviews
    BY <1>1, <2>1 DEF PullRequest
  <2>4. payloads'[r] = payloads[r] \cup {new}
    BY <1>1, <2>2
  <2>5. new.closed /\ ~new.merged
    OBVIOUS
  <2>6. \A q \in Requests \ {r} : pr'[q] = pr[q] /\ payloads'[q] = payloads[q]
    BY <1>1, <2>1, <2>2
  <2> HIDE DEF new
  <2>7. EndedOnce(r)'
    BY <2>4, <2>5 DEF EndedOnce
  <2>8. ToldOf(r)'
    BY <1>1, <1>3, <2>3, <2>4, <2>5, <2>7 DEF ToldOf, IsMerged
  <2> QED BY <1>2, <2>6, <2>7, <2>8
<1>4. CASE pr[r].state # "open"
  <2>1. UNCHANGED <<pr, payloads>>
    BY <1>4 DEF ClosePr
  <2>2. pr[r].state # "none" => EndedOnce(r)
    BY <1>1, <1>4 DEF ToldOf, PullRequest
  <2>3. ToldOf(r)'
    BY <1>1, <2>1 DEF ToldOf, EndedOnce, IsMerged
  <2> QED BY <1>2, <2>1, <2>2, <2>3 DEF EndedOnce
<1> QED BY <1>3, <1>4

(* A worker that stops in the middle of its handler. *)
LEMMA BackToIdle ==
  ASSUME StatusInv, TypeOK', Grown, LinksKept, NEW w \in Workers,
         worker' = [worker EXCEPT ![w] = Idle], UNCHANGED <<row, pr, payloads>>
  PROVE  StatusInv'
<1>1. Remembers(w)' /\ \A x \in Workers \ {w} : worker'[x] = worker[x]
  BY IdleRemembers DEF StatusInv, TypeOK
<1> QED BY <1>1, OneMemory

(***************************************************************************)
(* Every step keeps the status invariant: what a worker reads is true, and *)
(* what it writes is what it read or what has happened since.              *)
(***************************************************************************)
LEMMA StatusStep == StatusInv /\ [Next]_vars => StatusInv'
<1> SUFFICES ASSUME StatusInv, [Next]_vars, TypeOK', Grown, LinksKept
             PROVE  StatusInv'
  BY TypeStep, FactsGrow, JoinsKept, LinksStay DEF StatusInv, LinksKept
<1>1. ASSUME NEW w \in Workers, NEW r \in Requests, BeginView(w, r)
      PROVE  StatusInv'
  <2>1. Supported(ColumnsOf(r).status, r)
    BY DEF StatusInv, ColumnsOf
  <2> QED
    BY <1>1, <2>1, BeginRemembers DEF BeginView, Begin, ColumnsOf
<1>2. ASSUME NEW w \in Workers, NEW r \in Requests,
   NEW u \in Users, BeginCreate(w, r, u)
      PROVE  StatusInv'
  <2> DEFINE m == Holding("create", r, u, NoPayload, NoColumns, NoColumns,
                          "insert")
  <2>1. worker' = [worker EXCEPT ![w] = m]
    BY <1>2 DEF BeginCreate
  <2>2. /\ m.req = r /\ m.op = "create" /\ m.old.status = "Absent"
        /\ m.cur.status = "Absent" /\ m.target = NoRequest
        /\ m.pc = "insert" /\ m.view = NoView
    BY DEF Holding, NoColumns
  <2> HIDE DEF m
  <2>3. worker'[w] = m /\ \A x \in Workers \ {w} : worker'[x] = worker[x]
    BY <2>1 DEF StatusInv, TypeOK
  <2>4. ToldOf(r)' /\ Supported(row[r].status, r)' /\ pr'[r].state = "open"
    BY <1>2, OpenedTold DEF BeginCreate
  <2>5. Remembers(w)'
    BY <2>2, <2>3, <2>4 DEF Remembers, NoView, Supported
  <2>6. \A q \in Requests \ {r} : pr'[q] = pr[q]
    BY <1>2 DEF BeginCreate, StatusInv, TypeOK
  <2> QED
    BY <1>2, <2>3, <2>4, <2>5, <2>6, OneWorker DEF BeginCreate
<1>3. ASSUME NEW w \in Workers, NEW r \in Requests,
   NEW u \in Users, BeginUpdate(w, r, u)
      PROVE  StatusInv'
  <2> DEFINE new == IF row[r].status = "Approved"
                    THEN [status |-> "Pending", approvedBy |-> {}]
                    ELSE ColumnsOf(r)
  <2>1. Supported(ColumnsOf(r).status, r)
    BY DEF StatusInv, ColumnsOf
  <2>2. Supported(new.status, r) /\ new.status # "Absent"
    BY <1>3, <2>1 DEF BeginUpdate, ColumnsOf, Supported
  <2>3. Begin(w, "update", r, NoUser, NoPayload, ColumnsOf(r), new, "write")
    BY <1>3 DEF BeginUpdate
  <2> HIDE DEF new
  <2> QED
    BY <2>1, <2>2, <2>3, BeginRemembers
<1>4. ASSUME NEW w \in Workers, NEW r \in Requests,
   NEW u \in Users, BeginApprove(w, r, u)
      PROVE  StatusInv'
  <2> DEFINE names == row[r].approvedBy \cup {u}
             old == [status |-> "Pending", approvedBy |-> names]
             cur == [status |-> "Approving", approvedBy |-> names]
  <2>1. Begin(w, "approve", r, u, NoPayload, old, cur, "load")
    BY <1>4 DEF BeginApprove
  <2>2. old.status = "Pending" /\ cur.status = "Approving"
    OBVIOUS
  <2> HIDE DEF old, cur
  <2> QED
    BY <2>1, <2>2, BeginRemembers DEF Supported
<1>5. ASSUME NEW w \in Workers, NEW r \in Requests,
   NEW u \in Users, BeginApply(w, r, u)
      PROVE  StatusInv'
  <2> DEFINE cur == [ColumnsOf(r) EXCEPT !.status = "Applying"]
  <2>1. Supported(ColumnsOf(r).status, r)
    BY DEF StatusInv, ColumnsOf
  <2>2. Begin(w, "apply", r, NoUser, NoPayload, ColumnsOf(r), cur, "load")
    BY <1>5 DEF BeginApply
  <2>3. cur.status = "Applying" /\ ColumnsOf(r).status = "Approved"
    BY <1>5 DEF BeginApply, ColumnsOf
  <2> HIDE DEF cur
  <2> QED
    BY <2>1, <2>2, <2>3, BeginRemembers DEF Supported
<1>6. ASSUME NEW w \in Workers, NEW r \in Requests,
   NEW u \in Users, BeginReject(w, r, u)
      PROVE  StatusInv'
  <2> DEFINE m == [Holding("reject", r, NoUser, NoPayload, ColumnsOf(r),
                           ColumnsOf(r), "load")
                     EXCEPT !.refs = RefsOf(r), !.links = LinksOf(r)]
  <2>1. worker' = [worker EXCEPT ![w] = m]
    BY <1>6 DEF BeginReject
  <2>2. /\ m.req = r /\ m.op = "reject" /\ m.old.status = "Pending"
        /\ m.cur.status = "Pending" /\ m.target = NoRequest
        /\ m.pc = "load" /\ m.view = NoView
    BY <1>6 DEF BeginReject, Holding, ColumnsOf
  <2> HIDE DEF m
  <2>3. worker'[w] = m /\ \A x \in Workers \ {w} : worker'[x] = worker[x]
    BY <2>1 DEF StatusInv, TypeOK
  <2>4. pr[r].state # "none" /\ UNCHANGED <<row, pr, payloads>>
    BY <1>6 DEF BeginReject, StatusInv, ToldOf
  <2>5. Remembers(w)'
    BY <2>2, <2>3, <2>4 DEF Remembers, NoView, Supported
  <2> QED BY <2>3, <2>4, <2>5, OneMemory
<1>7. ASSUME NEW w \in Workers, NEW r \in Requests,
   NEW u \in Users, BeginRevert(w, r, u)
      PROVE  StatusInv'
  <2>1. Supported(ColumnsOf(r).status, r)
    BY DEF StatusInv, ColumnsOf
  <2> QED
    BY <1>7, <2>1, BeginRemembers DEF BeginRevert, Begin, ColumnsOf
<1>8. ASSUME NEW w \in Workers, NEW r \in Requests,
   NEW p \in payloads[r], BeginEvent(w, r, p)
      PROVE  StatusInv'
  <2>1. Supported(ColumnsOf(r).status, r)
    BY DEF StatusInv, ColumnsOf
  <2> QED
    BY <1>8, <2>1, BeginRemembers DEF BeginEvent, Begin, ColumnsOf
<1>9. ASSUME NEW w \in Workers, Insert(w)
      PROVE  StatusInv'
  <2>1. PICK r \in Requests : r = worker[w].req /\ pr[r].state # "none"
    BY <1>9 DEF Insert, StatusInv, TypeOK, Coherent, Remembers
  <2>2. ToldOf(r) /\ Remembers(w) /\ worker[w] \in Memory
    BY DEF StatusInv, TypeOK
  <2>3. row'[r].status = "Pending" /\ \A q \in Requests \ {r} : row'[q] = row[q]
    BY <1>9, <2>1 DEF Insert, StatusInv, TypeOK
  <2>4. ToldOf(r)' /\ Supported(row[r].status, r)'
    BY <1>9, <2>1, <2>2, <2>3 DEF Insert, ToldOf, EndedOnce, IsMerged, Supported
  <2>5. /\ worker'[w].req = r /\ worker'[w].old.status = "Pending"
        /\ worker'[w].cur.status = "Pending" /\ worker'[w].pc = "load"
        /\ worker'[w].op = worker[w].op /\ worker'[w].view = worker[w].view
        /\ worker'[w].event = worker[w].event
        /\ worker'[w].target = worker[w].target
    BY <1>9, <2>1, <2>2 DEF Insert, Memory, StatusInv, TypeOK
  <2>6. Remembers(w)'
    BY <1>9, <2>1, <2>2, <2>5 DEF Insert, Remembers, Supported, ApprovedOnce,
       EndedOnce, IsMerged
  <2>7. \A x \in Workers \ {w} : worker'[x] = worker[x]
    BY <1>9 DEF Insert, StatusInv, TypeOK
  <2> QED
    BY <1>9, <2>3, <2>4, <2>6, <2>7, OneWorker DEF Insert
<1>10. ASSUME NEW w \in Workers, Load(w)
      PROVE  StatusInv'
  <2>1. PICK r \in Requests : r = worker[w].req
    BY <1>10 DEF Load, StatusInv, TypeOK, Coherent
  <2>2. /\ ToldOf(r) /\ Remembers(w) /\ worker[w] \in Memory
        /\ pr[r] \in PullRequest
    BY DEF StatusInv, TypeOK
  <2>3. /\ worker'[w].req = r /\ worker'[w].old = worker[w].old
        /\ worker'[w].cur = worker[w].cur /\ worker'[w].op = worker[w].op
        /\ worker'[w].event = worker[w].event
        /\ worker'[w].target = worker[w].target
        /\ worker'[w].view = PrView(r)
        /\ worker'[w].pc \in {"respond", "act"}
    BY <1>10, <2>1, <2>2 DEF Load, Memory, StatusInv, TypeOK
  <2>4. /\ PrView(r).state = "merged" => IsMerged(r)
        /\ PrView(r).state = "closed" => EndedOnce(r)
    BY <2>2 DEF PrView, IsMerged, ToldOf
  <2>5. PrView(r).review = "APPROVED" => ApprovedOnce(r)
    BY <2>2 DEF PrView, ReviewState, ToldOf, ApprovedOnce, PullRequest
  <2>6. Remembers(w)'
    BY <1>10, <2>1, <2>2, <2>3, <2>4, <2>5 DEF Load, Remembers, Supported,
       ApprovedOnce, EndedOnce, IsMerged
  <2>7. \A x \in Workers \ {w} : worker'[x] = worker[x]
    BY <1>10 DEF Load, StatusInv, TypeOK
  <2> QED
    BY <1>10, <2>6, <2>7, OneMemory DEF Load
<1>11. ASSUME NEW w \in Workers, ActOnEnded(w)
      PROVE  StatusInv'
  <2>1. Remembers(w)
    BY DEF StatusInv
  <2> QED
    BY <1>11, <2>1, PreparedRemembers DEF ActOnEnded, Remembers, Supported
<1>12. ASSUME NEW w \in Workers, ActApprove(w)
      PROVE  StatusInv'
  BY <1>12, PreparedRemembers DEF ActApprove, Supported
<1>13. ASSUME NEW w \in Workers, ActApply(w)
      PROVE  StatusInv'
  <2>1. ApprovedOnce(worker[w].req)
    BY <1>13 DEF ActApply, StatusInv, Remembers
  <2> QED
    BY <1>13, <2>1, PreparedRemembers DEF ActApply, Supported
<1>14. ASSUME NEW w \in Workers, ActReject(w)
      PROVE  StatusInv'
  <2>1. PICK r \in Requests : r = worker[w].req /\ pr[r].state # "none"
    BY <1>14 DEF ActReject, StatusInv, TypeOK, Coherent, Remembers
  <2>2. /\ Remembers(w) /\ worker[w] \in Memory
        /\ worker \in [Workers -> Memory]
    BY DEF StatusInv, TypeOK
  <2>3. /\ ToldOf(r)' /\ Supported(row[r].status, r)' /\ EndedOnce(r)'
        /\ \A q \in Requests \ {r} : pr'[q] = pr[q] /\ payloads'[q] = payloads[q]
    BY <1>14, <2>1, ClosePrTold DEF ActReject
  <2>4. PICK status : /\ worker' = Prepared(w, status)
                      /\ status = worker[w].cur.status \/ status = "Rejected"
    BY <1>14 DEF ActReject
  <2>5. /\ worker'[w].req = r /\ worker'[w].old = worker[w].old
        /\ worker'[w].cur.status = status /\ worker'[w].op = worker[w].op
        /\ worker'[w].event = worker[w].event
        /\ worker'[w].target = worker[w].target
        /\ worker'[w].view = worker[w].view
        /\ worker'[w].pc = "write"
        /\ \A x \in Workers \ {w} : worker'[x] = worker[x]
    BY <2>1, <2>2, <2>4 DEF Prepared, Memory, Columns
  <2>6. GrownOf(r) /\ (worker[w].target \in Requests => GrownOf(worker[w].target))
    BY DEF Grown
  <2>7. Remembers(w)'
    BY <1>14, <2>1, <2>2, <2>3, <2>4, <2>5, <2>6 DEF ActReject, Remembers, Memory,
       Supported, ApprovedOnce, EndedOnce, IsMerged, GrownOf
  <2> QED
    BY <1>14, <2>3, <2>5, <2>7, OneWorker DEF ActReject
<1>15. ASSUME NEW w \in Workers, ActEventApproval(w)
      PROVE  StatusInv'
  <2>1. ApprovedOnce(worker[w].req)
    BY <1>15 DEF ActEventApproval, StatusInv, Remembers, ApprovedOnce
  <2> QED
    BY <1>15, <2>1, PreparedRemembers DEF ActEventApproval, Supported
<1>16. ASSUME NEW w \in Workers, ActEventMerged(w)
      PROVE  StatusInv'
  <2>1. PICK r \in Requests : r = worker[w].req
    BY <1>16 DEF ActEventMerged, StatusInv, TypeOK, Coherent
  <2>2. Remembers(w) /\ ToldOf(r) /\ worker[w] \in Memory
    BY DEF StatusInv, TypeOK
  <2>3. IsMerged(r)
    BY <1>16, <2>1, <2>2 DEF ActEventMerged, ToldOf, Remembers
  <2>4. /\ worker'[w].req = r /\ worker'[w].old = worker[w].old
        /\ worker'[w].cur.status = "Applied" /\ worker'[w].op = "event"
        /\ worker'[w].event = worker[w].event
        /\ worker'[w].target = worker[w].target
        /\ worker'[w].view = worker[w].view /\ worker'[w].pc = "write"
        /\ \A x \in Workers \ {w} : worker'[x] = worker[x]
    BY <1>16, <2>1, <2>2 DEF ActEventMerged, Memory, StatusInv, TypeOK
  <2>5. Remembers(w)'
    BY ZenonT(30), <1>16, <2>1, <2>2, <2>3, <2>4 DEF ActEventMerged, Remembers, Supported,
       ApprovedOnce, EndedOnce, IsMerged
  <2> QED
    BY <1>16, <2>4, <2>5, OneMemory DEF ActEventMerged
<1>17. ASSUME NEW w \in Workers, ActEventClosed(w)
      PROVE  StatusInv'
  <2>1. EndedOnce(worker[w].req)
    BY <1>17 DEF ActEventClosed, StatusInv, Remembers, EndedOnce
  <2> QED
    BY <1>17, <2>1, PreparedRemembers DEF ActEventClosed, Supported
<1>18. ASSUME NEW w \in Workers, NEW r \in Requests, ActRevert(w, r)
      PROVE  StatusInv'
  <2> DEFINE m == [Holding("create", r, worker[w].user, NoPayload, NoColumns,
                           NoColumns, "insert")
                     EXCEPT !.target = worker[w].req,
                            !.kept = worker[w].old.approvedBy]
  <2>1. worker' = [worker EXCEPT ![w] = m]
    BY <1>18 DEF ActRevert, StatusInv, TypeOK
  <2>2. /\ m.req = r /\ m.op = "create" /\ m.old.status = "Absent"
        /\ m.cur.status = "Absent" /\ m.target = worker[w].req
        /\ m.pc = "insert" /\ m.view = NoView
    BY DEF Holding, NoColumns
  <2> HIDE DEF m
  <2>3. worker'[w] = m /\ \A x \in Workers \ {w} : worker'[x] = worker[x]
    BY <2>1 DEF StatusInv, TypeOK
  <2>4. ToldOf(r)' /\ Supported(row[r].status, r)' /\ pr'[r].state = "open"
    BY <1>18, OpenedTold DEF ActRevert
  <2>5. PICK t \in Requests : t = worker[w].req /\ IsMerged(t)
    BY <1>18 DEF ActRevert, StatusInv, TypeOK, Coherent, Remembers
  <2>6. pr'[t].state = "merged"
    BY <2>5 DEF Grown, GrownOf, IsMerged
  <2>7. Remembers(w)'
    BY <2>2, <2>3, <2>4, <2>5, <2>6 DEF Remembers, NoView, Supported, IsMerged
  <2>8. \A q \in Requests \ {r} : pr'[q] = pr[q]
    BY <1>18 DEF ActRevert, StatusInv, TypeOK
  <2> QED
    BY <1>18, <2>3, <2>4, <2>7, <2>8, OneWorker DEF ActRevert
<1>19. ASSUME NEW w \in Workers, Refer(w)
      PROVE  StatusInv'
  <2>1. PICK r \in Requests : r = worker[w].target /\ IsMerged(r)
    BY <1>19, NamesAssumption DEF Refer, StatusInv, TypeOK, Coherent, Remembers
  <2>2. referred'[r] # {} /\ pr[r].state = "merged"
    BY <1>19, <2>1 DEF Refer, StatusInv, TypeOK, IsMerged
  <2> DEFINE old == [status |-> "Applied", approvedBy |-> worker[w].kept]
             cur == [status |-> "Reverted", approvedBy |-> {}]
             m == Holding("revert", r, NoUser, NoPayload, old, cur, "write")
  <2>3. worker' = [worker EXCEPT ![w] = m]
    BY <1>19, <2>1 DEF Refer, StatusInv, TypeOK
  <2>4. /\ m.req = r /\ m.op = "revert" /\ m.old.status = "Applied"
        /\ m.cur.status = "Reverted" /\ m.target = NoRequest
        /\ m.pc = "write" /\ m.view = NoView
    BY DEF Holding
  <2> HIDE DEF m
  <2>5. worker'[w] = m /\ \A x \in Workers \ {w} : worker'[x] = worker[x]
    BY <2>3 DEF StatusInv, TypeOK
  <2>6. Remembers(w)'
    BY <1>19, <2>2, <2>4, <2>5 DEF Refer, Remembers, NoView, Supported, IsMerged
  <2> QED
    BY <1>19, <2>5, <2>6, OneMemory DEF Refer
<1>20. ASSUME NEW w \in Workers, ReferRefused(w)
      PROVE  StatusInv'
  BY <1>20, BackToIdle DEF ReferRefused
<1>21. ASSUME NEW w \in Workers, WriteMerged(w)
      PROVE  StatusInv'
  <2>1. CASE Refused(worker[w])
    BY <1>21, <2>1, BackToIdle DEF WriteMerged
  <2>2. CASE ~Refused(worker[w])
    <3>1. /\ worker[w].req \in Requests /\ worker[w].pc = "write"
          /\ Remembers(w) /\ Linked(w) /\ worker[w] \in Memory
      BY <1>21 DEF WriteMerged, StatusInv, TypeOK, Coherent
    <3>2. row' = MergedRow(worker[w]) /\ UNCHANGED <<pr, payloads, referred>>
      BY <1>21, <2>2 DEF WriteMerged
    <3>3. /\ worker'[w] = [worker[w] EXCEPT !.pc = "respond", !.refs = NoRefs,
                                            !.links = NoLinks]
          /\ \A x \in Workers \ {w} : worker'[x] = worker[x]
      BY <1>21, <2>2 DEF WriteMerged, StatusInv, TypeOK
    <3>4. Remembers(w)'
      BY <3>1, <3>2, <3>3 DEF Remembers, Memory, Supported, ApprovedOnce,
         EndedOnce, IsMerged
    <3>5. ASSUME NEW q \in Requests
          PROVE  ToldOf(q)' /\ Supported(row[q].status, q)'
      <4>1. ToldOf(q) /\ Supported(row[q].status, q)
        BY DEF StatusInv
      <4>2. Supported(row'[q].status, q)
            /\ (row'[q].status # "Absent" => pr[q].state # "none")
        BY <3>1, <3>2, <4>1 DEF MergedRow, Merged, Remembers, Linked, ToldOf
      <4> QED
        BY <3>2, <4>1, <4>2 DEF ToldOf, Supported, ApprovedOnce, EndedOnce, IsMerged
    <3> QED
      BY <3>3, <3>4, <3>5, OthersRemember DEF StatusInv, LinksKept
  <2> QED BY <2>1, <2>2
<1>22. ASSUME NEW w \in Workers, Write(w)
      PROVE  StatusInv'
  <2>1. /\ worker[w].pc = "write" /\ Remembers(w) /\ worker[w] \in Memory
        /\ worker \in [Workers -> Memory]
    BY <1>22 DEF Write, StatusInv, TypeOK
  <2>2. \A x \in Workers \ {w} : worker'[x] = worker[x]
    BY <1>22, <2>1 DEF Write
  <2>3. Remembers(w)'
    <3>1. CASE worker[w].op \in {"event", "revert"}
      <4>1. worker' = [worker EXCEPT ![w] = Idle]
        BY <1>22, <3>1 DEF Write
      <4> QED BY <4>1, IdleRemembers DEF StatusInv
    <3>2. CASE worker[w].op \notin {"event", "revert"}
      <4>1. /\ worker'[w].req = worker[w].req
            /\ worker'[w].old = worker[w].cur
            /\ worker'[w].cur = worker[w].cur
            /\ worker'[w].op = worker[w].op
            /\ worker'[w].view = worker[w].view
            /\ worker'[w].target = worker[w].target
            /\ worker'[w].event = worker[w].event
            /\ worker'[w].pc \in {"load", "respond"}
        BY <1>22, <2>1, <3>2 DEF Write, Memory
      <4> QED
        BY <1>22, <2>1, <3>2, <4>1 DEF Write, Remembers, Supported, ApprovedOnce,
           EndedOnce, IsMerged
    <3> QED BY <3>1, <3>2
  <2>4. worker[w].old \in Columns /\ worker[w].cur \in Columns
    BY <2>1 DEF Memory
  <2> QED
    BY <1>22, <2>1, <2>2, <2>3, <2>4, WriteKeeps DEF Write, Remembers
<1>23. ASSUME NEW w \in Workers, Respond(w)
      PROVE  StatusInv'
  <2> DEFINE new == [status |-> "Approved",
                     approvedBy |-> worker[w].cur.approvedBy
                                    \cup worker[w].view.approvers]
  <2>1. /\ worker[w].pc = "respond" /\ Remembers(w) /\ worker[w] \in Memory
        /\ worker \in [Workers -> Memory] /\ worker[w].req \in Requests
    BY <1>23 DEF Respond, StatusInv, TypeOK, Coherent
  <2>2. /\ new \in Columns /\ new.status = "Approved"
        /\ worker[w].old \in Columns
    BY <2>1 DEF Memory, Columns, View, Statuses, Logins
  <2>3. row' = Written(worker[w].req, worker[w].old, new)
    BY <1>23 DEF Respond
  <2>4. ApprovedOnce(worker[w].req)
    BY <1>23, <2>1 DEF Respond, ReviewDecides, Remembers
  <2>5. /\ worker'[w].req = worker[w].req
        /\ worker'[w].old.status = "Approved"
        /\ worker'[w].cur.status = "Approved"
        /\ worker'[w].op = worker[w].op
        /\ worker'[w].view = worker[w].view
        /\ worker'[w].target = worker[w].target
        /\ worker'[w].event = worker[w].event
        /\ worker'[w].pc = "settle"
        /\ \A x \in Workers \ {w} : worker'[x] = worker[x]
    BY <1>23, <2>1 DEF Respond, Memory
  <2> HIDE DEF new
  <2>6. Remembers(w)'
    BY <1>23, <2>1, <2>4, <2>5 DEF Respond, Remembers, Supported, ApprovedOnce,
       EndedOnce, IsMerged
  <2>7. Supported(new.status, worker[w].req)
    BY <2>2, <2>4 DEF Supported
  <2> QED
    BY <1>23, <2>1, <2>2, <2>3, <2>5, <2>6, <2>7, WriteKeeps DEF Respond
<1>24. ASSUME NEW w \in Workers, RespondRaises(w)
      PROVE  StatusInv'
  BY <1>24, BackToIdle DEF RespondRaises
<1>25. ASSUME NEW w \in Workers, Settle(w)
      PROVE  StatusInv'
  <2>1. /\ worker[w].pc # "idle" /\ worker[w].pc # "insert" /\ Remembers(w)
        /\ worker[w] \in Memory /\ worker \in [Workers -> Memory]
    BY <1>25 DEF Settle, StatusInv, TypeOK
  <2>2. Remembers(w)' /\ \A x \in Workers \ {w} : worker'[x] = worker[x]
    <3>1. CASE worker[w].target = NoRequest
      <4>1. worker' = [worker EXCEPT ![w] = Idle]
        BY <1>25, <3>1 DEF Settle, Finished
      <4> QED BY <4>1, <2>1, IdleRemembers DEF StatusInv
    <3>2. CASE worker[w].target # NoRequest
      <4>1. worker' = [worker EXCEPT ![w].pc = "refer"]
        BY <1>25, <3>2 DEF Settle, Finished
      <4>2. /\ worker'[w].req = worker[w].req
            /\ worker'[w].old = worker[w].old
            /\ worker'[w].cur = worker[w].cur
            /\ worker'[w].op = worker[w].op
            /\ worker'[w].view = worker[w].view
            /\ worker'[w].target = worker[w].target
            /\ worker'[w].event = worker[w].event
            /\ worker'[w].pc = "refer"
            /\ \A x \in Workers \ {w} : worker'[x] = worker[x]
        BY <2>1, <4>1 DEF Memory
      <4> QED
        BY <1>25, <2>1, <4>2 DEF Settle, Remembers, Supported, ApprovedOnce,
           EndedOnce, IsMerged
    <3> QED BY <3>1, <3>2
  <2>3. CASE row' = row
    BY <1>25, <2>2, <2>3, OneMemory DEF Settle
  <2>4. CASE row' # row
    <3> DEFINE new == [worker[w].cur EXCEPT !.status = "Applied"]
    <3>1. /\ row' = Written(worker[w].req, worker[w].old, new)
          /\ worker[w].view.state = "merged"
      BY <1>25, <2>4 DEF Settle, MergeDecides
    <3>2. /\ new \in Columns /\ new.status = "Applied"
          /\ worker[w].old \in Columns
      BY <2>1 DEF Memory, Columns, Statuses
    <3> HIDE DEF new
    <3>3. Supported(new.status, worker[w].req)
      BY <2>1, <3>1, <3>2 DEF Remembers, Supported
    <3> QED
      BY <1>25, <2>1, <2>2, <3>1, <3>2, <3>3, WriteKeeps DEF Settle
  <2> QED BY <2>3, <2>4
<1>26. ASSUME NEW w \in Workers, Crash(w)
      PROVE  StatusInv'
  BY <1>26, BackToIdle DEF Crash
<1>27. ASSUME NEW r \in Requests, NEW by \in Reviewers \cup {Bot},
   NEW v \in {"APPROVED", "CHANGES_REQUESTED"}, SubmitReview(r, by, v)
      PROVE  StatusInv'
  <2> DEFINE new == [by |-> by, verdict |-> v]
             rs == pr[r].reviews
  <2>1. /\ ToldOf(r) /\ pr \in [Requests -> PullRequest]
        /\ payloads \in [Requests -> SUBSET Payload]
        /\ rs \in Seq(Review) /\ new \in Review
    BY DEF StatusInv, TypeOK, PullRequest, Review
  <2>2. new.by = by /\ new.verdict = v
    OBVIOUS
  <2>3. pr' = [pr EXCEPT ![r].reviews = Append(rs, new)]
    BY <1>27 DEF SubmitReview
  <2>4. /\ pr'[r].state = pr[r].state /\ pr'[r].reviews = Append(rs, new)
        /\ \A q \in Requests \ {r} : pr'[q] = pr[q]
    BY <2>1, <2>3 DEF PullRequest
  <2> HIDE DEF new
  <2>5. /\ \A q \in Requests \ {r} : payloads'[q] = payloads[q]
        /\ v = "APPROVED" => \E p \in payloads'[r] : by \in p.by
        /\ \A p \in payloads'[r] : p.merged => IsMerged(r)
    <3>1. CASE v = "APPROVED"
      <4> DEFINE p == [by |-> {by}, merged |-> pr[r].state = "merged",
                       closed |-> pr[r].state \in {"merged", "closed"}]
      <4>1. payloads' = [payloads EXCEPT ![r] = @ \cup {p}]
        BY <1>27, <3>1 DEF SubmitReview, Told
      <4>2. by \in p.by /\ (p.merged => IsMerged(r))
        BY DEF IsMerged
      <4> HIDE DEF p
      <4> QED BY <2>1, <4>1, <4>2 DEF ToldOf
    <3>2. CASE v # "APPROVED"
      BY <1>27, <2>1, <3>2 DEF SubmitReview, ToldOf
    <3> QED BY <3>1, <3>2
  <2>6. ASSUME NEW i \in DOMAIN Append(rs, new),
               Append(rs, new)[i].verdict = "APPROVED"
        PROVE  \E p \in payloads'[r] : Append(rs, new)[i].by \in p.by
    <3>1. CASE i \in DOMAIN rs
      <4>1. Append(rs, new)[i] = rs[i]
        BY <2>1, <3>1
      <4> QED
        BY <2>1, <2>6, <3>1, <4>1 DEF ToldOf, Grown, GrownOf
    <3>2. CASE i \notin DOMAIN rs
      <4>1. Append(rs, new)[i] = new
        BY <2>1, <3>2
      <4> QED BY <2>2, <2>5, <2>6, <4>1
    <3> QED BY <3>1, <3>2
  <2>7. EndedOnce(r) => EndedOnce(r)'
    BY DEF EndedOnce, Grown, GrownOf
  <2>8. ToldOf(r)'
    BY ZenonT(30), <1>27, <2>1, <2>4, <2>5, <2>6, <2>7 DEF SubmitReview, ToldOf, IsMerged
  <2> QED
    BY <1>27, <2>4, <2>5, <2>8, OnePr DEF SubmitReview
<1>28. ASSUME NEW r \in Requests, NEW i \in DOMAIN pr[r].reviews,
   DismissReview(r, i)
      PROVE  StatusInv'
  <2>1. /\ ToldOf(r) /\ pr \in [Requests -> PullRequest]
        /\ pr[r].reviews \in Seq(Review)
    BY DEF StatusInv, TypeOK, PullRequest
  <2>2. pr' = [pr EXCEPT ![r].reviews[i].verdict = "DISMISSED"]
    BY <1>28 DEF DismissReview
  <2>3. /\ pr'[r].state = pr[r].state
        /\ DOMAIN pr'[r].reviews = DOMAIN pr[r].reviews
        /\ \A j \in DOMAIN pr[r].reviews \ {i} :
             pr'[r].reviews[j] = pr[r].reviews[j]
        /\ pr'[r].reviews[i].verdict = "DISMISSED"
        /\ \A q \in Requests \ {r} : pr'[q] = pr[q]
    BY <2>1, <2>2 DEF PullRequest, Review
  <2>4. ToldOf(r)'
    BY <1>28, <2>1, <2>3 DEF DismissReview, ToldOf, EndedOnce, IsMerged
  <2> QED
    BY <1>28, <2>3, <2>4, OnePr DEF DismissReview
<1>29. ASSUME NEW r \in Requests, NEW state \in {"merged",
   "closed"}, EndPr(r, state)
      PROVE  StatusInv'
  <2> DEFINE new == [by |-> {}, merged |-> state = "merged",
                     closed |-> state \in {"merged", "closed"}]
  <2>1. /\ ToldOf(r) /\ pr \in [Requests -> PullRequest]
        /\ payloads \in [Requests -> SUBSET Payload]
    BY DEF StatusInv, TypeOK
  <2>2. pr' = [pr EXCEPT ![r].state = state] /\ pr[r].state = "open"
    BY <1>29 DEF EndPr
  <2>3. payloads' = [payloads EXCEPT ![r] = @ \cup {new}]
    BY <1>29 DEF EndPr, Told
  <2>4. new.closed /\ (new.merged => state = "merged")
    OBVIOUS
  <2> HIDE DEF new
  <2>5. /\ pr'[r].state = state /\ pr'[r].reviews = pr[r].reviews
        /\ payloads'[r] = payloads[r] \cup {new}
        /\ \A q \in Requests \ {r} : pr'[q] = pr[q] /\ payloads'[q] = payloads[q]
    BY <2>1, <2>2, <2>3 DEF PullRequest
  <2>6. ToldOf(r)'
    BY <1>29, <2>1, <2>2, <2>4, <2>5 DEF EndPr, ToldOf, EndedOnce, IsMerged
  <2> QED
    BY <1>29, <2>5, <2>6, OnePr DEF EndPr
<1>30. ASSUME NEW r \in Requests, ReopenPr(r)
      PROVE  StatusInv'
  <2>1. ToldOf(r) /\ pr \in [Requests -> PullRequest]
    BY DEF StatusInv, TypeOK
  <2>2. /\ pr'[r].state = "open" /\ pr'[r].reviews = pr[r].reviews
        /\ \A q \in Requests \ {r} : pr'[q] = pr[q]
    BY <1>30, <2>1 DEF ReopenPr, PullRequest
  <2>3. ToldOf(r)'
    BY <1>30, <2>1, <2>2 DEF ReopenPr, ToldOf, EndedOnce, IsMerged
  <2> QED
    BY <1>30, <2>2, <2>3, OnePr DEF ReopenPr
<1>31. CASE UNCHANGED vars
  <2>1. \A x \in Workers : Remembers(x)'
    BY <1>31, OthersRemember DEF vars
  <2>2. \A q \in Requests : ToldOf(q)' /\ Supported(row[q].status, q)'
    BY <1>31, OthersTold DEF vars
  <2> QED BY <2>1, <2>2 DEF StatusInv, LinksKept
<1> QED
  BY <1>1, <1>2, <1>3, <1>4, <1>5, <1>6, <1>7, <1>8, <1>9, <1>10, <1>11,
     <1>12, <1>13, <1>14, <1>15, <1>16, <1>17, <1>18, <1>19,
     <1>20, <1>21, <1>22, <1>23, <1>24, <1>25, <1>26, <1>27, <1>28,
     <1>29, <1>30, <1>31 DEF Next, Start, Continue, GitHub

(* Nothing has been claimed, read or told yet. *)
LEMMA StatusInit == Init => StatusInv
<1>1. Init => TypeOK
  BY BoundsAssumption, IdleType DEF Init, TypeOK, Row, PullRequest
<1>2. ASSUME Init, NEW r \in Requests
      PROVE  ToldOf(r) /\ Supported(row[r].status, r)
  BY <1>2 DEF Init, ToldOf, Supported
<1>3. ASSUME Init, NEW w \in Workers PROVE Remembers(w) /\ Linked(w)
  BY <1>3, IdleType DEF Init, Remembers, Linked, Supported, Idle, Holding, NoLinks,
     NoColumns
<1> QED BY <1>1, <1>2, <1>3 DEF StatusInv

(***************************************************************************)
(* The invariant that makes statuses truthful holds of every behaviour.    *)
(***************************************************************************)
THEOREM StatusInvariant == Spec => []StatusInv
  BY StatusInit, StatusStep, PTL DEF Spec

(***************************************************************************)
(* No interleaving of handlers and tasks, however many, makes a request    *)
(* claim an approval, a merge, a closing or a revert that never happened.  *)
(***************************************************************************)
THEOREM StatusCorrect == Spec => []StatusIsTruthful
<1>1. StatusInv => StatusIsTruthful
  BY DEF StatusInv, StatusIsTruthful
<1> QED BY <1>1, StatusInvariant, PTL
=============================================================================
