------------------------- MODULE IambicRecordProofs -------------------------
(***************************************************************************)
(* What the record of a request may say: proofs about IambicRequest.       *)
(*                                                                         *)
(* First the names in rows, in memory and in comments: who approved a      *)
(* request, and in whose name it was applied.  Then what a step may do to  *)
(* the rows and the references: the promise of RequestStatus and reverts.  *)
(***************************************************************************)
EXTENDS IambicRequestProofs

-----------------------------------------------------------------------------
(* Nobody who approved a pull request is ever forgotten. *)
LEMMA ApproversGrow ==
  ASSUME Grown, NEW r \in Requests
  PROVE  HumanApprovers(r) \subseteq HumanApprovers(r)'
  BY DEF Grown, GrownOf, HumanApprovers

(* Whoever is named by a payload, the app aside, has approved. *)
LEMMA PayloadNames ==
  ASSUME NEW r \in Requests, NEW p \in payloads[r], NEW x \in p.by, x # Bot
  PROVE  x \in HumanApprovers(r)
<1> DEFINE named == {q.by : q \in payloads[r]}
<1>1. p.by \in named
  BY Zenon
<1>2. HumanApprovers(r) = (UNION named) \ {Bot}
  BY DEF HumanApprovers
<1> HIDE DEF named
<1> QED BY <1>1, <1>2

(* Names a worker holds stay legitimate while it does nothing. *)
LEMMA OthersNames ==
  ASSUME NamesInv, Grown, NEW w \in Workers, worker'[w] = worker[w]
  PROVE  Names(w)'
<1>1. Names(w) /\ Coherent(worker[w]) /\ worker[w] \in Memory
  BY DEF NamesInv, StatusInv, TypeOK
<1>2. worker[w].pc # "idle" =>
        HumanApprovers(worker[w].req) \subseteq HumanApprovers(worker[w].req)'
  BY <1>1, ApproversGrow DEF Coherent
<1>3. worker[w].target # NoRequest =>
        HumanApprovers(worker[w].target) \subseteq HumanApprovers(worker[w].target)'
  BY <1>1, ApproversGrow DEF Memory
<1> QED BY <1>1, <1>2, <1>3 DEF Names

(* The names in the copies of other rows that a worker has joined stay     *)
(* legitimate too.                                                         *)
LinkedNamesKept == \A w \in Workers : LinkedNames(w)'

(* Whoever is named in such a copy was named in the row it was taken from. *)
LEMMA LinkedNamesStay ==
  ASSUME NamesInv, Grown, NEW w \in Workers, JoinsOf(w)
  PROVE  LinkedNames(w)'
<1> SUFFICES ASSUME NEW q \in Requests
             PROVE  worker'[w].links[q].approvedBy
                      \subseteq Approvers \cup HumanApprovers(q)'
  BY DEF LinkedNames
<1>1. worker'[w].links[q].approvedBy \subseteq Approvers \cup HumanApprovers(q)
  <2>1. CASE worker'[w].links = worker[w].links
    BY <2>1 DEF NamesInv, LinkedNames
  <2>2. CASE worker'[w].links = NoLinks
    BY <2>2 DEF NoLinks, NoColumns
  <2>3. ASSUME NEW r \in Requests, worker'[w].links = LinksOf(r)
        PROVE  worker'[w].links[q].approvedBy
                 \subseteq Approvers \cup HumanApprovers(q)
    <3>1. worker'[w].links[q].approvedBy \in {{}, row[q].approvedBy}
      BY <2>3 DEF LinksOf, ColumnsOf, NoColumns
    <3> QED BY <3>1 DEF NamesInv, ApproversAreLegitimate
  <2> QED BY <2>1, <2>2, <2>3 DEF JoinsOf
<1> QED BY <1>1, ApproversGrow

(* What is posted on a request, and by whom, while nothing is posted. *)
LEMMA SignedStays ==
  ASSUME NamesInv, UNCHANGED <<payloads, signed, applied>>,
         NEW r \in Requests
  PROVE  SignedOf(r)'
<1>1. SignedOf(r)
  BY DEF NamesInv
<1> QED BY <1>1 DEF SignedOf, ApprovedOnce

(* The names of a row that is left alone stay legitimate. *)
LEMMA OthersLegitimate ==
  ASSUME NamesInv, Grown, NEW r \in Requests,
         row'[r].approvedBy = row[r].approvedBy
  PROVE  row'[r].approvedBy \subseteq Approvers \cup HumanApprovers(r)'
  BY ApproversGrow DEF NamesInv, ApproversAreLegitimate

(* A step of one worker that writes no name to a row. *)
LEMMA OneHolder ==
  ASSUME NamesInv, StatusInv', Grown, LinkedNamesKept, NEW w \in Workers,
         \A x \in Workers \ {w} : worker'[x] = worker[x],
         UNCHANGED row, \A r \in Requests : SignedOf(r)', Names(w)'
  PROVE  NamesInv'
<1>1. ASSUME NEW x \in Workers PROVE Names(x)'
  BY OthersNames
<1>2. ApproversAreLegitimate'
  BY OthersLegitimate DEF ApproversAreLegitimate
<1> QED BY <1>1, <1>2 DEF NamesInv, LinkedNamesKept

(* A step of one worker that writes legitimate names to its request. *)
LEMMA OneWriter ==
  ASSUME NamesInv, StatusInv', Grown, LinkedNamesKept, NEW w \in Workers, NEW r \in Requests,
         \A x \in Workers \ {w} : worker'[x] = worker[x],
         \A q \in Requests \ {r} : row'[q] = row[q],
         row'[r].approvedBy \subseteq
           row[r].approvedBy \cup Approvers \cup HumanApprovers(r),
         UNCHANGED <<payloads, signed, applied>>, Names(w)'
  PROVE  NamesInv'
<1>1. ASSUME NEW x \in Workers PROVE Names(x)'
  BY OthersNames
<1>2. row'[r].approvedBy \subseteq Approvers \cup HumanApprovers(r)'
  BY ApproversGrow DEF NamesInv, ApproversAreLegitimate
<1>3. ApproversAreLegitimate'
  BY <1>2, OthersLegitimate DEF ApproversAreLegitimate
<1> QED BY <1>1, <1>3, SignedStays DEF NamesInv, LinkedNamesKept

(* A step of GitHub. *)
LEMMA NoWorker ==
  ASSUME NamesInv, StatusInv', Grown, LinkedNamesKept, UNCHANGED <<row, worker>>,
         \A r \in Requests : SignedOf(r)'
  PROVE  NamesInv'
<1>1. ASSUME NEW x \in Workers PROVE Names(x)'
  BY OthersNames
<1>2. ApproversAreLegitimate'
  BY OthersLegitimate DEF ApproversAreLegitimate
<1> QED BY <1>1, <1>2 DEF NamesInv, LinkedNamesKept

(* A worker that stops holds no names. *)
LEMMA IdleNames ==
  ASSUME NamesInv, StatusInv', Grown, LinkedNamesKept, NEW w \in Workers,
         worker' = [worker EXCEPT ![w] = Idle],
         UNCHANGED <<row, payloads, signed, applied>>
  PROVE  NamesInv'
<1>1. worker'[w] = Idle /\ \A x \in Workers \ {w} : worker'[x] = worker[x]
  BY DEF NamesInv, StatusInv, TypeOK
<1>2. Names(w)'
  BY <1>1, IdleType DEF Names
<1> QED BY <1>1, <1>2, SignedStays, OneHolder

(* A worker that has just read a row holds names of that row, or its own. *)
LEMMA BeginNames ==
  ASSUME NamesInv, StatusInv', Grown, LinkedNamesKept, NEW w \in Workers, NEW r \in Requests,
         NEW op, NEW u, NEW event, NEW old, NEW cur, NEW step,
         Begin(w, op, r, u, event, old, cur, step),
         op = "approve" => u \in Approvers,
         old.approvedBy \subseteq row[r].approvedBy \cup Approvers,
         cur.approvedBy \subseteq row[r].approvedBy \cup Approvers
  PROVE  NamesInv'
<1> DEFINE m == Holding(op, r, u, event, old, cur, step)
<1>1. worker' = [worker EXCEPT ![w] = m]
  BY DEF Begin
<1>2. /\ m.req = r /\ m.op = op /\ m.user = u /\ m.old = old /\ m.cur = cur
      /\ m.target = NoRequest /\ m.view.approvers = {}
  BY DEF Holding, NoView
<1> HIDE DEF m
<1>3. worker'[w] = m /\ \A x \in Workers \ {w} : worker'[x] = worker[x]
  BY <1>1 DEF NamesInv, StatusInv, TypeOK
<1>4. UNCHANGED <<row, payloads, signed, applied>>
  BY DEF Begin
<1>5. row[r].approvedBy \subseteq Approvers \cup HumanApprovers(r)'
  BY ApproversGrow DEF NamesInv, ApproversAreLegitimate
<1>6. Names(w)'
  BY <1>2, <1>3, <1>5 DEF Names
<1> QED BY <1>3, <1>4, <1>6, SignedStays, OneHolder

(* A worker that goes on with its request holds names it held, and those   *)
(* who have approved in the meantime.                                       *)
LEMMA HoldsNames ==
  ASSUME NamesInv, Grown, NEW w \in Workers, NEW r \in Requests,
         worker[w].pc # "idle", worker[w].req = r, worker'[w].req = r,
         worker'[w].op = worker[w].op, worker'[w].user = worker[w].user,
         worker'[w].target = worker[w].target,
         worker'[w].kept = worker[w].kept,
         worker'[w].view.approvers \subseteq
           worker[w].view.approvers \cup HumanApprovers(r),
         worker'[w].old.approvedBy \subseteq Approvers \cup HumanApprovers(r),
         worker'[w].cur.approvedBy \subseteq Approvers \cup HumanApprovers(r)
  PROVE  Names(w)'
<1>1. Names(w) /\ worker[w] \in Memory
  BY DEF NamesInv, StatusInv, TypeOK
<1>2. HumanApprovers(r) \subseteq HumanApprovers(r)'
  BY ApproversGrow
<1>3. worker[w].target # NoRequest =>
        HumanApprovers(worker[w].target) \subseteq HumanApprovers(worker[w].target)'
  BY <1>1, ApproversGrow DEF Memory
<1> QED BY <1>1, <1>2, <1>3 DEF Names

(* What a running worker holds, for the steps that follow. *)
LEMMA RunningHolds ==
  ASSUME NamesInv, NEW w \in Workers, worker[w].pc # "idle"
  PROVE  /\ worker[w].req \in Requests
         /\ worker[w].old.approvedBy \subseteq
              Approvers \cup HumanApprovers(worker[w].req)
         /\ worker[w].cur.approvedBy \subseteq
              Approvers \cup HumanApprovers(worker[w].req)
         /\ worker[w].view.approvers \subseteq HumanApprovers(worker[w].req)
         /\ worker[w] \in Memory /\ worker \in [Workers -> Memory]
  BY DEF NamesInv, StatusInv, TypeOK, Coherent, Names

(* A worker that has decided on a status holds the names it held. *)
LEMMA PreparedNames ==
  ASSUME NamesInv, StatusInv', Grown, LinkedNamesKept, NEW w \in Workers, NEW status,
         worker[w].pc # "idle", worker' = Prepared(w, status),
         UNCHANGED row, \A r \in Requests : SignedOf(r)'
  PROVE  NamesInv'
<1>1. PICK r \in Requests : r = worker[w].req
  BY RunningHolds
<1>2. /\ worker[w] \in Memory /\ worker \in [Workers -> Memory]
  BY RunningHolds
<1>3. \A x \in Workers \ {w} : worker'[x] = worker[x]
  BY <1>2 DEF Prepared
<1>4. /\ worker'[w].req = r /\ worker'[w].old = worker[w].old
      /\ worker'[w].cur.approvedBy = worker[w].cur.approvedBy
      /\ worker'[w].op = worker[w].op /\ worker'[w].user = worker[w].user
      /\ worker'[w].view = worker[w].view
      /\ worker'[w].target = worker[w].target
      /\ worker'[w].kept = worker[w].kept
  BY <1>1, <1>2 DEF Prepared, Memory, Columns
<1>5. Names(w)'
  BY <1>1, <1>4, RunningHolds, HoldsNames
<1> QED BY <1>3, <1>5, OneHolder

(* The names SQLAlchemy leaves in a row are the row's own or the writer's. *)
LEMMA WrittenNames ==
  ASSUME TypeOK, NEW r \in Requests, NEW old, NEW cur,
         row' = Written(r, old, cur)
  PROVE  /\ \A q \in Requests \ {r} : row'[q] = row[q]
         /\ row'[r].approvedBy \in {row[r].approvedBy, cur.approvedBy}
  BY DEF TypeOK, Written

(* A closing adds no approval. *)
LEMMA ClosePrSigned ==
  ASSUME NamesInv, NEW q \in Requests, ClosePr(q),
         UNCHANGED <<signed, applied>>, Grown, NEW r \in Requests
  PROVE  SignedOf(r)'
<1>1. SignedOf(r) /\ payloads \in [Requests -> SUBSET Payload]
  BY DEF NamesInv, StatusInv, TypeOK
<1>2. \A p \in payloads'[r] : p \in payloads[r] \/ p.by = {}
  BY <1>1 DEF ClosePr, Told
<1>3. ApprovedOnce(r) => ApprovedOnce(r)'
  BY DEF Grown, GrownOf, ApprovedOnce
<1> QED BY <1>1, <1>2, <1>3 DEF SignedOf

-----------------------------------------------------------------------------
(***************************************************************************)
(* Every step keeps the names legitimate, the comments signed by approvers *)
(* and the app's own review out of both.                                   *)
(***************************************************************************)
LEMMA NamesStep == NamesInv /\ [Next]_vars => NamesInv'
<1> SUFFICES ASSUME NamesInv, [Next]_vars, StatusInv', Grown, LinkedNamesKept
             PROVE  NamesInv'
  BY StatusStep, FactsGrow, JoinsKept, LinkedNamesStay
     DEF NamesInv, StatusInv, LinkedNamesKept
<1>0. /\ TypeOK /\ worker \in [Workers -> Memory]
      /\ \A w \in Workers : Coherent(worker[w])
  BY DEF NamesInv, StatusInv, TypeOK
<1>1. ASSUME NEW w \in Workers, NEW r \in Requests, BeginView(w, r)
      PROVE  NamesInv'
  BY <1>1, BeginNames DEF BeginView, ColumnsOf
<1>2. ASSUME NEW w \in Workers, NEW r \in Requests, NEW u \in Users,
             BeginCreate(w, r, u)
      PROVE  NamesInv'
  <2> DEFINE m == Holding("create", r, u, NoPayload, NoColumns, NoColumns,
                          "insert")
  <2>1. worker' = [worker EXCEPT ![w] = m]
    BY <1>2 DEF BeginCreate
  <2>2. /\ m.old.approvedBy = {} /\ m.cur.approvedBy = {} /\ m.op = "create"
        /\ m.view.approvers = {} /\ m.target = NoRequest
    BY DEF Holding, NoColumns, NoView
  <2> HIDE DEF m
  <2>3. worker'[w] = m /\ \A x \in Workers \ {w} : worker'[x] = worker[x]
    BY <1>0, <2>1
  <2>4. Names(w)'
    BY <2>2, <2>3 DEF Names
  <2> QED
    BY <1>2, <2>3, <2>4, SignedStays, OneHolder DEF BeginCreate
<1>3. ASSUME NEW w \in Workers, NEW r \in Requests, NEW u \in Users,
             BeginUpdate(w, r, u)
      PROVE  NamesInv'
  <2> DEFINE new == IF row[r].status = "Approved"
                    THEN [status |-> "Pending", approvedBy |-> {}]
                    ELSE ColumnsOf(r)
  <2>1. Begin(w, "update", r, NoUser, NoPayload, ColumnsOf(r), new, "write")
    BY <1>3 DEF BeginUpdate
  <2>2. new.approvedBy \subseteq row[r].approvedBy
    BY DEF ColumnsOf
  <2> HIDE DEF new
  <2> QED BY <2>1, <2>2, BeginNames DEF ColumnsOf
<1>4. ASSUME NEW w \in Workers, NEW r \in Requests, NEW u \in Users,
             BeginApprove(w, r, u)
      PROVE  NamesInv'
  BY <1>4, BeginNames DEF BeginApprove
<1>5. ASSUME NEW w \in Workers, NEW r \in Requests, NEW u \in Users,
             BeginApply(w, r, u)
      PROVE  NamesInv'
  BY <1>5, BeginNames DEF BeginApply, ColumnsOf
<1>6. ASSUME NEW w \in Workers, NEW r \in Requests, NEW u \in Users,
             BeginReject(w, r, u)
      PROVE  NamesInv'
  <2> DEFINE m == [Holding("reject", r, NoUser, NoPayload, ColumnsOf(r),
                           ColumnsOf(r), "load")
                     EXCEPT !.refs = RefsOf(r), !.links = LinksOf(r)]
  <2>1. worker' = [worker EXCEPT ![w] = m]
    BY <1>6 DEF BeginReject
  <2>2. /\ m.req = r /\ m.op = "reject" /\ m.target = NoRequest
        /\ m.old.approvedBy = row[r].approvedBy
        /\ m.cur.approvedBy = row[r].approvedBy /\ m.view.approvers = {}
    BY DEF Holding, NoView, ColumnsOf
  <2> HIDE DEF m
  <2>3. worker'[w] = m /\ \A x \in Workers \ {w} : worker'[x] = worker[x]
    BY <1>0, <2>1
  <2>4. row[r].approvedBy \subseteq Approvers \cup HumanApprovers(r)'
    BY ApproversGrow DEF NamesInv, ApproversAreLegitimate
  <2>5. Names(w)'
    BY <2>2, <2>3, <2>4 DEF Names
  <2> QED BY <1>6, <2>3, <2>5, SignedStays, OneHolder DEF BeginReject
<1>7. ASSUME NEW w \in Workers, NEW r \in Requests, NEW u \in Users,
             BeginRevert(w, r, u)
      PROVE  NamesInv'
  BY <1>7, BeginNames DEF BeginRevert, ColumnsOf
<1>8. ASSUME NEW w \in Workers, NEW r \in Requests, NEW p \in payloads[r],
             BeginEvent(w, r, p)
      PROVE  NamesInv'
  BY <1>8, BeginNames DEF BeginEvent, ColumnsOf
<1>9. ASSUME NEW w \in Workers, Insert(w)
      PROVE  NamesInv'
  <2>1. PICK r \in Requests : r = worker[w].req /\ worker[w].pc = "insert"
    BY <1>9, RunningHolds DEF Insert
  <2>2. /\ row'[r].approvedBy = {}
        /\ \A q \in Requests \ {r} : row'[q] = row[q]
    BY <1>0, <1>9, <2>1 DEF Insert, TypeOK
  <2>3. /\ worker'[w].req = r /\ worker'[w].old.approvedBy = {}
        /\ worker'[w].cur.approvedBy = {} /\ worker'[w].op = worker[w].op
        /\ worker'[w].user = worker[w].user /\ worker'[w].view = worker[w].view
        /\ worker'[w].target = worker[w].target
        /\ worker'[w].kept = worker[w].kept
        /\ \A x \in Workers \ {w} : worker'[x] = worker[x]
    BY <1>0, <1>9, <2>1 DEF Insert, Memory
  <2>4. Names(w)'
    BY <2>1, <2>3, HoldsNames
  <2> QED BY <1>9, <2>2, <2>3, <2>4, OneWriter DEF Insert
<1>10. ASSUME NEW w \in Workers, Load(w)
      PROVE  NamesInv'
  <2>1. PICK r \in Requests : r = worker[w].req /\ worker[w].pc = "load"
    BY <1>10, RunningHolds DEF Load
  <2>2. ApprovedBy(pr[r].reviews) \subseteq HumanApprovers(r)
    <3>1. ToldOf(r) /\ pr[r].reviews \in Seq(Review)
      BY <1>0 DEF NamesInv, StatusInv, TypeOK, PullRequest
    <3>2. ASSUME NEW x \in ApprovedBy(pr[r].reviews)
          PROVE  \E p \in payloads[r] : x \in p.by
      BY <3>1 DEF ApprovedBy, ToldOf
    <3>3. Bot \notin ApprovedBy(pr[r].reviews)
      BY NamesAssumption DEF ApprovedBy
    <3> QED BY <3>2, <3>3, PayloadNames
  <2>3. /\ worker'[w].req = r /\ worker'[w].old = worker[w].old
        /\ worker'[w].cur = worker[w].cur /\ worker'[w].op = worker[w].op
        /\ worker'[w].user = worker[w].user
        /\ worker'[w].target = worker[w].target
        /\ worker'[w].kept = worker[w].kept
        /\ worker'[w].view.approvers = ApprovedBy(pr[r].reviews)
        /\ \A x \in Workers \ {w} : worker'[x] = worker[x]
    BY <1>0, <1>10, <2>1 DEF Load, PrView, Memory
  <2>4. Names(w)'
    BY <2>1, <2>2, <2>3, RunningHolds, HoldsNames
  <2> QED BY <1>10, <2>3, <2>4, SignedStays, OneHolder DEF Load
<1>11. ASSUME NEW w \in Workers, ActOnEnded(w)
      PROVE  NamesInv'
  BY <1>11, PreparedNames, SignedStays DEF ActOnEnded
<1>12. ASSUME NEW w \in Workers, ActApprove(w)
      PROVE  NamesInv'
  <2>1. worker[w].user \in Approvers
    BY <1>12 DEF ActApprove, NamesInv, Names
  <2>2. ASSUME NEW r \in Requests PROVE SignedOf(r)'
    <3>1. SignedOf(r) /\ signed \in [Requests -> SUBSET Users]
      BY <1>0 DEF NamesInv, TypeOK
    <3>2. signed'[r] \in {signed[r], signed[r] \cup {worker[w].user}}
      BY <1>12, <3>1 DEF ActApprove
    <3> QED BY <1>12, <2>1, <3>1, <3>2 DEF ActApprove, SignedOf, ApprovedOnce
  <2> QED BY <1>12, <2>2, PreparedNames DEF ActApprove
<1>13. ASSUME NEW w \in Workers, ActApply(w)
      PROVE  NamesInv'
  <2>1. ApprovedOnce(worker[w].req)
    BY <1>13 DEF ActApply, NamesInv, StatusInv, Remembers
  <2>2. ASSUME NEW r \in Requests PROVE SignedOf(r)'
    <3>1. SignedOf(r) /\ applied \in [Requests -> BOOLEAN]
      BY <1>0 DEF NamesInv, TypeOK
    <3>2. applied'[r] => applied[r] \/ r = worker[w].req
      BY <1>13, <3>1 DEF ActApply
    <3> QED BY <1>13, <2>1, <3>1, <3>2 DEF ActApply, SignedOf, ApprovedOnce
  <2> QED BY <1>13, <2>2, PreparedNames DEF ActApply
<1>14. ASSUME NEW w \in Workers, ActReject(w)
      PROVE  NamesInv'
  BY <1>14, RunningHolds, ClosePrSigned, PreparedNames DEF ActReject
<1>15. ASSUME NEW w \in Workers, ActEventApproval(w)
      PROVE  NamesInv'
  <2>1. ApprovedOnce(worker[w].req)
    BY <1>15 DEF ActEventApproval, NamesInv, StatusInv, Remembers, ApprovedOnce
  <2>2. ASSUME NEW r \in Requests PROVE SignedOf(r)'
    <3>1. SignedOf(r) /\ applied \in [Requests -> BOOLEAN]
      BY <1>0 DEF NamesInv, TypeOK
    <3>2. applied'[r] => applied[r] \/ r = worker[w].req
      BY <1>15, <3>1 DEF ActEventApproval
    <3> QED
      BY <1>15, <2>1, <3>1, <3>2 DEF ActEventApproval, SignedOf, ApprovedOnce
  <2> QED BY <1>15, <2>2, PreparedNames DEF ActEventApproval
<1>16. ASSUME NEW w \in Workers, ActEventMerged(w)
      PROVE  NamesInv'
  <2>1. PICK r \in Requests : r = worker[w].req /\ worker[w].pc = "act"
    BY <1>16, RunningHolds DEF ActEventMerged
  <2>2. worker[w].event.by \ {Bot} \subseteq HumanApprovers(r)
    <3>1. worker[w].event \in payloads[r]
      BY <1>16, <2>1 DEF ActEventMerged, NamesInv, StatusInv, Remembers
    <3> QED BY <3>1, PayloadNames
  <2>3. /\ worker'[w].req = r /\ worker'[w].old = worker[w].old
        /\ worker'[w].cur.approvedBy =
             worker[w].cur.approvedBy \cup (worker[w].event.by \ {Bot})
        /\ worker'[w].op = worker[w].op /\ worker'[w].view = worker[w].view
        /\ worker'[w].user = worker[w].user
        /\ worker'[w].target = worker[w].target
        /\ worker'[w].kept = worker[w].kept
        /\ \A x \in Workers \ {w} : worker'[x] = worker[x]
    BY <1>0, <1>16, <2>1 DEF ActEventMerged, Memory
  <2>4. Names(w)'
    BY <2>1, <2>2, <2>3, RunningHolds, HoldsNames
  <2> QED BY <1>16, <2>3, <2>4, SignedStays, OneHolder DEF ActEventMerged
<1>17. ASSUME NEW w \in Workers, ActEventClosed(w)
      PROVE  NamesInv'
  BY <1>17, PreparedNames, SignedStays DEF ActEventClosed
<1>18. ASSUME NEW w \in Workers, NEW r \in Requests, ActRevert(w, r)
      PROVE  NamesInv'
  <2> DEFINE m == [Holding("create", r, worker[w].user, NoPayload, NoColumns,
                           NoColumns, "insert")
                     EXCEPT !.target = worker[w].req,
                            !.kept = worker[w].old.approvedBy]
  <2>1. worker' = [worker EXCEPT ![w] = m]
    BY <1>0, <1>18 DEF ActRevert
  <2>2. /\ m.old.approvedBy = {} /\ m.cur.approvedBy = {} /\ m.op = "create"
        /\ m.view.approvers = {} /\ m.target = worker[w].req
        /\ m.kept = worker[w].old.approvedBy
    BY DEF Holding, NoColumns, NoView
  <2> HIDE DEF m
  <2>3. worker'[w] = m /\ \A x \in Workers \ {w} : worker'[x] = worker[x]
    BY <1>0, <2>1
  <2>4. PICK t \in Requests :
          /\ t = worker[w].req
          /\ worker[w].old.approvedBy \subseteq Approvers \cup HumanApprovers(t)
    BY <1>18, RunningHolds DEF ActRevert
  <2>5. HumanApprovers(t) \subseteq HumanApprovers(t)'
    BY ApproversGrow
  <2>6. Names(w)'
    BY <2>2, <2>3, <2>4, <2>5 DEF Names
  <2> QED BY <1>18, <2>3, <2>6, SignedStays, OneHolder DEF ActRevert
<1>19. ASSUME NEW w \in Workers, Refer(w)
      PROVE  NamesInv'
  <2>1. PICK r \in Requests :
          /\ r = worker[w].target
          /\ worker[w].kept \subseteq Approvers \cup HumanApprovers(r)
    BY <1>0, <1>19, NamesAssumption DEF Refer, Coherent, NamesInv, Names
  <2> DEFINE m == Holding("revert", r, NoUser, NoPayload,
                          [status |-> "Applied", approvedBy |-> worker[w].kept],
                          [status |-> "Reverted", approvedBy |-> {}], "write")
  <2>2. worker' = [worker EXCEPT ![w] = m]
    BY <1>0, <1>19, <2>1 DEF Refer
  <2>3. /\ m.req = r /\ m.old.approvedBy = worker[w].kept
        /\ m.cur.approvedBy = {} /\ m.op = "revert"
        /\ m.view.approvers = {} /\ m.target = NoRequest
    BY DEF Holding, NoView
  <2> HIDE DEF m
  <2>4. worker'[w] = m /\ \A x \in Workers \ {w} : worker'[x] = worker[x]
    BY <1>0, <2>2
  <2>5. HumanApprovers(r) \subseteq HumanApprovers(r)'
    BY ApproversGrow
  <2>6. Names(w)'
    BY <2>1, <2>3, <2>4, <2>5 DEF Names
  <2> QED BY <1>19, <2>4, <2>6, SignedStays, OneHolder DEF Refer
<1>20. ASSUME NEW w \in Workers, ReferRefused(w)
      PROVE  NamesInv'
  BY <1>20, IdleNames DEF ReferRefused
<1>21. ASSUME NEW w \in Workers, WriteMerged(w)
      PROVE  NamesInv'
  <2>1. CASE Refused(worker[w])
    BY <1>21, <2>1, IdleNames DEF WriteMerged
  <2>2. CASE ~Refused(worker[w])
    <3>1. worker[w].req \in Requests /\ worker[w].pc = "write"
      BY <1>21, RunningHolds DEF WriteMerged
    <3>2. /\ row' = MergedRow(worker[w])
          /\ UNCHANGED <<payloads, signed, applied>>
      BY <1>21, <2>2 DEF WriteMerged
    <3>3. /\ worker'[w] = [worker[w] EXCEPT !.pc = "respond", !.refs = NoRefs,
                                            !.links = NoLinks]
          /\ \A x \in Workers \ {w} : worker'[x] = worker[x]
      BY <1>0, <1>21, <2>2 DEF WriteMerged
    <3>4. Names(w)'
      <4>1. /\ worker'[w].req = worker[w].req /\ worker'[w].op = worker[w].op
            /\ worker'[w].old = worker[w].old /\ worker'[w].cur = worker[w].cur
            /\ worker'[w].user = worker[w].user
            /\ worker'[w].view = worker[w].view
            /\ worker'[w].target = worker[w].target
            /\ worker'[w].kept = worker[w].kept
        BY <1>0, <3>3 DEF Memory
      <4> QED BY <3>1, <4>1, RunningHolds, HoldsNames
    <3>5. ASSUME NEW q \in Requests
          PROVE  row'[q].approvedBy \subseteq Approvers \cup HumanApprovers(q)'
      <4>1. row[q].approvedBy \subseteq Approvers \cup HumanApprovers(q)
        BY DEF NamesInv, ApproversAreLegitimate
      <4>2. row'[q].approvedBy \subseteq Approvers \cup HumanApprovers(q)
        BY <3>1, <3>2, <4>1, RunningHolds DEF MergedRow, Merged, NamesInv, LinkedNames
      <4> QED BY <4>2, ApproversGrow
    <3> QED
      BY <3>2, <3>3, <3>4, <3>5, OthersNames, SignedStays
         DEF NamesInv, LinkedNamesKept, ApproversAreLegitimate
  <2> QED BY <2>1, <2>2
<1>22. ASSUME NEW w \in Workers, Write(w)
      PROVE  NamesInv'
  <2>1. PICK r \in Requests : r = worker[w].req /\ worker[w].pc = "write"
    BY <1>22, RunningHolds DEF Write
  <2>2. /\ row'[r].approvedBy \subseteq row[r].approvedBy \cup Approvers
                                         \cup HumanApprovers(r)
        /\ \A q \in Requests \ {r} : row'[q] = row[q]
    BY <1>0, <1>22, <2>1, WrittenNames, RunningHolds DEF Write
  <2>3. \A x \in Workers \ {w} : worker'[x] = worker[x]
    BY <1>0, <1>22 DEF Write
  <2>4. Names(w)'
    <3>1. CASE worker[w].op \in {"event", "revert"}
      BY <1>0, <1>22, <3>1, IdleType DEF Write, Names
    <3>2. CASE worker[w].op \notin {"event", "revert"}
      <4>1. /\ worker'[w].req = r /\ worker'[w].old = worker[w].cur
            /\ worker'[w].cur = worker[w].cur /\ worker'[w].op = worker[w].op
            /\ worker'[w].user = worker[w].user
            /\ worker'[w].view = worker[w].view
            /\ worker'[w].target = worker[w].target
            /\ worker'[w].kept = worker[w].kept
        BY <1>0, <1>22, <2>1, <3>2 DEF Write, Memory
      <4> QED BY <2>1, <4>1, RunningHolds, HoldsNames
    <3> QED BY <3>1, <3>2
  <2> QED BY <1>22, <2>2, <2>3, <2>4, OneWriter DEF Write
<1>23. ASSUME NEW w \in Workers, Respond(w)
      PROVE  NamesInv'
  <2> DEFINE new == [status |-> "Approved",
                     approvedBy |-> worker[w].cur.approvedBy
                                    \cup worker[w].view.approvers]
  <2>1. PICK r \in Requests : r = worker[w].req /\ worker[w].pc = "respond"
    BY <1>23, RunningHolds DEF Respond
  <2>2. new.approvedBy \subseteq Approvers \cup HumanApprovers(r)
    BY <2>1, RunningHolds
  <2>3. row' = Written(r, worker[w].old, new)
    BY <1>23, <2>1 DEF Respond
  <2>4. /\ worker'[w].req = r /\ worker'[w].old = new
        /\ worker'[w].cur = new /\ worker'[w].op = worker[w].op
        /\ worker'[w].user = worker[w].user
        /\ worker'[w].view = worker[w].view
        /\ worker'[w].target = worker[w].target
        /\ worker'[w].kept = worker[w].kept
        /\ \A x \in Workers \ {w} : worker'[x] = worker[x]
    BY <1>0, <1>23, <2>1 DEF Respond, Memory
  <2> HIDE DEF new
  <2>5. /\ row'[r].approvedBy \subseteq row[r].approvedBy \cup Approvers
                                         \cup HumanApprovers(r)
        /\ \A q \in Requests \ {r} : row'[q] = row[q]
    BY <1>0, <2>2, <2>3, WrittenNames
  <2>6. Names(w)'
    BY <2>1, <2>2, <2>4, HoldsNames
  <2> QED BY <1>23, <2>4, <2>5, <2>6, OneWriter DEF Respond
<1>24. ASSUME NEW w \in Workers, RespondRaises(w)
      PROVE  NamesInv'
  BY <1>24, IdleNames DEF RespondRaises
<1>25. ASSUME NEW w \in Workers, Settle(w)
      PROVE  NamesInv'
  <2>1. PICK r \in Requests : r = worker[w].req /\ worker[w].pc # "idle"
    BY <1>25, RunningHolds DEF Settle
  <2>2. /\ row'[r].approvedBy \subseteq row[r].approvedBy \cup Approvers
                                         \cup HumanApprovers(r)
        /\ \A q \in Requests \ {r} : row'[q] = row[q]
    <3> DEFINE new == [worker[w].cur EXCEPT !.status = "Applied"]
    <3>1. new.approvedBy = worker[w].cur.approvedBy
      BY <1>0 DEF Memory, Columns
    <3>2. row' \in {row, Written(r, worker[w].old, new)}
      BY <1>25, <2>1 DEF Settle
    <3> HIDE DEF new
    <3> QED BY <1>0, <2>1, <3>1, <3>2, WrittenNames, RunningHolds
  <2>3. \A x \in Workers \ {w} : worker'[x] = worker[x]
    BY <1>0, <1>25 DEF Settle, Finished
  <2>4. Names(w)'
    <3>1. CASE worker[w].target = NoRequest
      BY <1>0, <1>25, <3>1, IdleType DEF Settle, Finished, Names
    <3>2. CASE worker[w].target # NoRequest
      <4>1. worker'[w] = [worker[w] EXCEPT !.pc = "refer"]
        BY <1>0, <1>25, <3>2 DEF Settle, Finished
      <4> QED BY <1>0, <2>1, <4>1, RunningHolds, HoldsNames DEF Memory
    <3> QED BY <3>1, <3>2
  <2> QED BY <1>25, <2>2, <2>3, <2>4, OneWriter DEF Settle
<1>26. ASSUME NEW w \in Workers, Crash(w)
      PROVE  NamesInv'
  BY <1>26, IdleNames DEF Crash
<1>27. ASSUME NEW r \in Requests, NEW by \in Reviewers \cup {Bot},
             NEW v \in {"APPROVED", "CHANGES_REQUESTED"},
             SubmitReview(r, by, v)
      PROVE  NamesInv'
  <2>1. ASSUME NEW q \in Requests PROVE SignedOf(q)'
    <3>1. SignedOf(q) /\ payloads \in [Requests -> SUBSET Payload]
      BY <1>0 DEF NamesInv, TypeOK
    <3>2. \A p \in payloads'[q] :
            \/ p \in payloads[q]
            \/ q = r /\ (Bot \in p.by => signed[r] # {})
      BY <1>27, <3>1 DEF SubmitReview, Told
    <3>3. ApprovedOnce(q) => ApprovedOnce(q)'
      BY DEF Grown, GrownOf, ApprovedOnce
    <3> QED BY <1>27, <3>1, <3>2, <3>3 DEF SubmitReview, SignedOf
  <2> QED BY <1>27, <2>1, NoWorker DEF SubmitReview
<1>28. ASSUME NEW r \in Requests, NEW i \in DOMAIN pr[r].reviews,
             DismissReview(r, i)
      PROVE  NamesInv'
  BY <1>28, SignedStays, NoWorker DEF DismissReview
<1>29. ASSUME NEW r \in Requests, NEW state \in {"merged", "closed"},
             EndPr(r, state)
      PROVE  NamesInv'
  <2>1. ASSUME NEW q \in Requests PROVE SignedOf(q)'
    <3>1. SignedOf(q) /\ payloads \in [Requests -> SUBSET Payload]
      BY <1>0 DEF NamesInv, TypeOK
    <3>2. \A p \in payloads'[q] : p \in payloads[q] \/ p.by = {}
      BY <1>29, <3>1 DEF EndPr, Told
    <3>3. ApprovedOnce(q) => ApprovedOnce(q)'
      BY DEF Grown, GrownOf, ApprovedOnce
    <3> QED BY <1>29, <3>1, <3>2, <3>3 DEF EndPr, SignedOf
  <2> QED BY <1>29, <2>1, NoWorker DEF EndPr
<1>30. ASSUME NEW r \in Requests, ReopenPr(r)
      PROVE  NamesInv'
  BY <1>30, SignedStays, NoWorker DEF ReopenPr
<1>31. CASE UNCHANGED vars
  BY <1>31, SignedStays, NoWorker DEF vars
<1> QED
  BY <1>1, <1>2, <1>3, <1>4, <1>5, <1>6, <1>7, <1>8, <1>9, <1>10, <1>11,
     <1>12, <1>13, <1>14, <1>15, <1>16, <1>17, <1>18, <1>19, <1>20, <1>21,
     <1>22, <1>23, <1>24, <1>25, <1>26, <1>27, <1>28, <1>29, <1>30, <1>31
     DEF Next, Start, Continue, GitHub

(***************************************************************************)
(* The names in rows, in memory and in comments are legitimate in every    *)
(* behaviour.                                                              *)
(***************************************************************************)
THEOREM NamesInvariant == Spec => []NamesInv
<1>1. ASSUME Init PROVE NamesInv
  <2>1. StatusInv
    BY <1>1, StatusInit
  <2>2. ApproversAreLegitimate /\ \A r \in Requests : SignedOf(r)
    BY <1>1 DEF Init, ApproversAreLegitimate, SignedOf
  <2>3. \A w \in Workers : Names(w) /\ LinkedNames(w)
    BY <1>1, IdleType DEF Init, Names, LinkedNames, Idle, Holding, NoLinks, NoColumns
  <2> QED BY <2>1, <2>2, <2>3 DEF NamesInv
<1> QED BY <1>1, NamesStep, PTL DEF Spec

(***************************************************************************)
(* `iambic apply` is only ever posted on a pull request that a person      *)
(* approved on GitHub or an allowed approver approved in Noq, whatever     *)
(* handlers and late webhook tasks interleave (merge_request).             *)
(***************************************************************************)
THEOREM ApplyCorrect == Spec => []ApplyIsAuthorised
<1>1. ASSUME NamesInv, NEW r \in Requests, applied[r]
      PROVE  HumanApprovers(r) # {} \/ signed[r] \cap Approvers # {}
  <2>1. SignedOf(r)
    BY <1>1 DEF NamesInv
  <2>2. PICK p \in payloads[r] : p.by # {}
    BY <1>1, <2>1 DEF SignedOf, ApprovedOnce
  <2>3. CASE p.by \subseteq {Bot}
    <3>1. Bot \in p.by
      BY <2>2, <2>3
    <3>2. signed[r] # {} /\ signed[r] \subseteq Approvers
      BY <2>1, <3>1 DEF SignedOf
    <3> QED BY <3>2
  <2>4. CASE ~(p.by \subseteq {Bot})
    BY <2>4, PayloadNames
  <2> QED BY <2>3, <2>4
<1>2. NamesInv => ApplyIsAuthorised
  BY <1>1 DEF ApplyIsAuthorised
<1> QED BY <1>2, NamesInvariant, PTL

(***************************************************************************)
(* approved_by never names anyone but allowed approvers and people who     *)
(* approved that very pull request on GitHub.                              *)
(***************************************************************************)
THEOREM ApproversCorrect == Spec => []ApproversAreLegitimate
<1>1. NamesInv => ApproversAreLegitimate
  BY DEF NamesInv
<1> QED BY <1>1, NamesInvariant, PTL

-----------------------------------------------------------------------------
(* The steps that write a row. *)
Writes(w) ==
  Insert(w) \/ WriteMerged(w) \/ Write(w) \/ Respond(w) \/ Settle(w)

(* Nobody else does. *)
LEMMA OnlyWritersWrite ==
  ASSUME [Next]_vars
  PROVE  UNCHANGED row \/ \E w \in Workers : Writes(w)
<1>1. ASSUME NEW w \in Workers, Start(w) PROVE UNCHANGED row
  BY <1>1 DEF Start, Begin, BeginView, BeginCreate, BeginUpdate, BeginApprove,
     BeginApply, BeginReject, BeginRevert, BeginEvent
<1>2. ASSUME NEW w \in Workers, Continue(w) PROVE UNCHANGED row \/ Writes(w)
  BY <1>2 DEF Continue, Writes, Load, ActOnEnded, ActApprove, ActApply, ActReject,
     ActEventApproval, ActEventMerged, ActEventClosed, ActRevert, Refer,
     ReferRefused, RespondRaises
<1>3. ASSUME GitHub PROVE UNCHANGED row
  BY <1>3 DEF GitHub, SubmitReview, DismissReview, EndPr, ReopenPr
<1> QED BY <1>1, <1>2, <1>3 DEF Next, Crash, vars

(* A write changes no fact; it changes one row, unless it is the merge of  *)
(* a rejection, which writes the linked rows back as they were read.       *)
LEMMA WriteShape ==
  ASSUME TypeOK, NEW w \in Workers, Writes(w)
  PROVE  /\ worker[w].req \in Requests /\ worker[w].pc # "idle"
         /\ \A q \in Requests \ {worker[w].req} :
              row'[q] # row[q] =>
                /\ worker[w].links[q].status # "Absent"
                /\ row'[q].status = worker[w].links[q].status
         /\ UNCHANGED <<pr, payloads, referred>>
<1>1. worker[w].req \in Requests /\ worker[w].pc # "idle"
  BY DEF TypeOK, Coherent, Writes, Insert, WriteMerged, Write, Respond, Settle
<1>2. CASE WriteMerged(w)
  BY <1>1, <1>2 DEF WriteMerged, MergedRow, Merged
<1>3. CASE Insert(w) \/ Write(w) \/ Respond(w) \/ Settle(w)
  BY <1>1, <1>3 DEF TypeOK, Insert, Write, Respond, Settle, Written
<1> QED BY <1>2, <1>3 DEF Writes

(* The steps that change a fact of some request, and which. *)
Changes(r) ==
  \/ \E w \in Workers, u \in Users : BeginCreate(w, r, u)
  \/ \E w \in Workers : \/ ActReject(w) /\ worker[w].req = r
                        \/ ActRevert(w, r)
                        \/ Refer(w) /\ worker[w].target = r
  \/ \E p \in Reviewers \cup {Bot}, v \in {"APPROVED", "CHANGES_REQUESTED"} :
       SubmitReview(r, p, v)
  \/ \E i \in DOMAIN pr[r].reviews : DismissReview(r, i)
  \/ \E state \in {"merged", "closed"} : EndPr(r, state)
  \/ ReopenPr(r)

(* No other step does. *)
LEMMA OnlyChangersChange ==
  ASSUME TypeOK, [Next]_vars
  PROVE  \/ UNCHANGED <<pr, payloads, referred>>
         \/ \E r \in Requests : Changes(r)
<1>1. ASSUME NEW w \in Workers, Start(w)
      PROVE  \/ UNCHANGED <<pr, payloads, referred>>
             \/ \E r \in Requests : Changes(r)
  BY ZenonT(30), <1>1 DEF Start, Begin, BeginView, BeginUpdate, BeginApprove, BeginApply,
     BeginReject, BeginRevert, BeginEvent, Changes
<1>2. ASSUME NEW w \in Workers, Continue(w)
      PROVE  \/ UNCHANGED <<pr, payloads, referred>>
             \/ \E r \in Requests : Changes(r)
  <2>1. /\ ActReject(w) => worker[w].req \in Requests
        /\ Refer(w) => worker[w].target \in Requests
    BY DEF TypeOK, Coherent, ActReject, Refer
  <2> QED
    BY <1>2, <2>1 DEF Continue, Changes, Insert, Load, ActOnEnded, ActApprove,
       ActApply, ActEventApproval, ActEventMerged, ActEventClosed,
       ReferRefused, WriteMerged, Write, Respond, RespondRaises, Settle
<1>3. ASSUME GitHub PROVE \E r \in Requests : Changes(r)
  BY <1>3 DEF GitHub, Changes
<1> QED BY <1>1, <1>2, <1>3 DEF Next, Crash, vars

(* They change facts of that request only, and write no row. *)
LEMMA ChangeShape ==
  ASSUME TypeOK, NEW r \in Requests, Changes(r)
  PROVE  /\ UNCHANGED row
         /\ \A q \in Requests \ {r} : /\ pr'[q] = pr[q]
                                      /\ payloads'[q] = payloads[q]
                                      /\ referred'[q] = referred[q]
<1>1. CASE \E w \in Workers : Refer(w) /\ worker[w].target = r
  BY <1>1 DEF TypeOK, Refer
<1>2. CASE ~ \E w \in Workers : Refer(w) /\ worker[w].target = r
  BY <1>2 DEF TypeOK, Changes, BeginCreate, ActReject, ClosePr, Told, ActRevert,
     SubmitReview, DismissReview, EndPr, ReopenPr
<1> QED BY <1>1, <1>2

(* What is written to a status is a status: no row disappears. *)
LEMMA WrittenStatus ==
  ASSUME StatusInv, NEW w \in Workers, NEW r \in Requests, Writes(w)
  PROVE  row'[r].status = row[r].status \/ row'[r].status \in Statuses
<1>1. /\ TypeOK /\ row \in [Requests -> Row] /\ worker[w] \in Memory
      /\ Remembers(w)
  BY DEF StatusInv, TypeOK
<1>2. worker[w].pc \notin {"idle", "insert"} => worker[w].cur.status \in Statuses
  BY <1>1 DEF Remembers, Memory, Columns
<1>3. CASE worker[w].req # r
  <2>1. worker[w].links[r].status \in Statuses \cup {"Absent"}
    BY <1>1 DEF Memory, Columns
  <2> QED BY <1>1, <1>3, <2>1, WriteShape
<1>4. CASE worker[w].req = r
  <2>1. CASE Insert(w)
    BY <1>1, <1>4, <2>1 DEF Insert, Statuses
  <2>2. CASE WriteMerged(w)
    BY <1>1, <1>2, <1>4, <2>2 DEF WriteMerged, MergedRow, Merged
  <2>3. CASE Write(w)
    BY <1>1, <1>2, <1>4, <2>3 DEF Write, Written
  <2>4. CASE Respond(w)
    BY <1>1, <1>4, <2>4 DEF Respond, Written, Statuses
  <2>5. CASE Settle(w)
    <3>1. [worker[w].cur EXCEPT !.status = "Applied"].status = "Applied"
      BY <1>1 DEF Memory, Columns
    <3> QED BY <1>1, <1>4, <2>5, <3>1 DEF Settle, Written, Statuses
  <2> QED BY <2>1, <2>2, <2>3, <2>4, <2>5 DEF Writes
<1> QED BY <1>3, <1>4

(* The facts a status needs are those that support it. *)
LEMMA SupportedHas ==
  ASSUME NEW r \in Requests, NEW status \in Statuses, Supported(status, r)
  PROVE  Promise!Needs[status] \subseteq FactsOf(r)
  BY DEF Statuses, Supported, Promise!Needs, FactsOf

(***************************************************************************)
(* The requests keep the promise of RequestStatus to its readers: handlers *)
(* that write a row claim what the facts support, and all other steps let  *)
(* facts be learnt, of one request at a time.                              *)
(***************************************************************************)
THEOREM PromiseKept == Spec => ImplementsPromise
<1>1. ASSUME Init PROVE Promise!Init
  BY <1>1, NamesAssumption DEF Init, Promise!Init, FactsOf, ApprovedOnce, EndedOnce, IsMerged
<1>2. ASSUME StatusInv, StatusInv', [Next]_vars
      PROVE  [Promise!Next]_<<[r \in Requests |-> row[r].status],
                              [r \in Requests |-> FactsOf(r)]>>
  <2> DEFINE claim == [r \in Requests |-> row[r].status]
             facts == [r \in Requests |-> FactsOf(r)]
  <2>1. TypeOK /\ Grown
    BY <1>2, FactsGrow DEF StatusInv
  <2>2. ASSUME NEW w \in Workers, Writes(w)
        PROVE  Promise!Next \/ UNCHANGED <<claim, facts>>
    <3>1. UNCHANGED <<pr, payloads, referred>>
      BY <2>1, <2>2, WriteShape
    <3>2. facts' = facts
      BY <3>1 DEF FactsOf, ApprovedOnce, EndedOnce, IsMerged
    <3>3. ASSUME NEW r \in Requests
          PROVE  /\ row'[r].status \in DOMAIN Promise!Needs
                 /\ row'[r].status # row[r].status =>
                      /\ row'[r].status # "Absent"
                      /\ Promise!Needs[row'[r].status] \subseteq FactsOf(r)
      <4>1. row'[r].status \in Statuses \cup {"Absent"}
        BY <1>2 DEF StatusInv, TypeOK, Row
      <4>2. row'[r].status # row[r].status => row'[r].status \in Statuses
        BY <1>2, <2>2, WrittenStatus
      <4>3. Supported(row'[r].status, r)
        BY <1>2, <3>1 DEF StatusInv, Supported, ApprovedOnce, EndedOnce, IsMerged
      <4>4. row'[r].status \in DOMAIN Promise!Needs
        BY <4>1 DEF Statuses, Promise!Needs
      <4> QED BY <4>2, <4>3, <4>4, SupportedHas DEF Statuses
    <3>4. Promise!Claim
      BY <3>2, <3>3 DEF Promise!Claim
    <3> QED BY <3>4 DEF Promise!Next
  <2>3. ASSUME NEW r \in Requests, Changes(r)
        PROVE  Promise!Next \/ UNCHANGED <<claim, facts>>
    <3>1. claim' = claim
      BY <2>1, <2>3, ChangeShape
    <3>2. ASSUME NEW q \in Requests \ {r} PROVE FactsOf(q)' = FactsOf(q)
      BY <2>1, <2>3, ChangeShape DEF FactsOf, ApprovedOnce, EndedOnce, IsMerged
    <3>3. FactsOf(r) \subseteq FactsOf(r)'
      BY <2>1 DEF Grown, GrownOf, FactsOf, ApprovedOnce, EndedOnce, IsMerged
    <3>4. facts' = [facts EXCEPT ![r] = @ \cup FactsOf(r)']
      BY <3>2, <3>3
    <3>5. FactsOf(r)' \in SUBSET Promise!Facts
      BY DEF FactsOf, Promise!Facts
    <3> QED BY <3>1, <3>4, <3>5 DEF Promise!Next, Promise!Learn
  <2>4. CASE UNCHANGED <<row, pr, payloads, referred>>
    BY <2>4 DEF FactsOf, ApprovedOnce, EndedOnce, IsMerged
  <2> QED
    BY <1>2, <2>1, <2>2, <2>3, <2>4, OnlyWritersWrite, OnlyChangersChange
<1> QED
  BY <1>1, <1>2, StatusInvariant, PTL DEF Spec, ImplementsPromise, Promise!Spec

-----------------------------------------------------------------------------
(* A worker keeps making the revert it is making, of the same request, and *)
(* leaves the insertion only by inserting; or it makes none.                *)
KeepsHeir(w) ==
  worker'[w].target # NoRequest =>
    /\ worker'[w].target = worker[w].target
    /\ worker'[w].req = worker[w].req
    /\ worker'[w].pc # "idle"
    /\ worker'[w].pc # "insert" =>
         worker[w].pc # "insert" \/ row'[worker[w].req].status # "Absent"

(* A handler that begins reverts nothing yet. *)
LEMMA StartsNoHeir ==
  ASSUME TypeOK, NEW w \in Workers, Start(w)
  PROVE  /\ worker'[w].target = NoRequest
         /\ \A x \in Workers \ {w} : worker'[x] = worker[x]
<1>1. worker \in [Workers -> Memory]
  BY DEF TypeOK
<1>2. ASSUME NEW r \in Requests, NEW u \in Users,
             BeginCreate(w, r, u) \/ BeginReject(w, r, u)
      PROVE  /\ worker'[w].target = NoRequest
             /\ \A x \in Workers \ {w} : worker'[x] = worker[x]
  <2>1. CASE BeginCreate(w, r, u)
    BY <1>1, <2>1 DEF BeginCreate, Holding
  <2>2. CASE BeginReject(w, r, u)
    <3> DEFINE m == [Holding("reject", r, NoUser, NoPayload, ColumnsOf(r),
                             ColumnsOf(r), "load")
                       EXCEPT !.refs = RefsOf(r), !.links = LinksOf(r)]
    <3>1. worker' = [worker EXCEPT ![w] = m]
      BY <2>2 DEF BeginReject
    <3>2. m.target = NoRequest
      BY DEF Holding
    <3> HIDE DEF m
    <3> QED BY <1>1, <3>1, <3>2
  <2> QED BY <1>2, <2>1, <2>2
<1>3. ASSUME NEW op, NEW r, NEW u, NEW event, NEW old, NEW cur, NEW step,
             Begin(w, op, r, u, event, old, cur, step)
      PROVE  /\ worker'[w].target = NoRequest
             /\ \A x \in Workers \ {w} : worker'[x] = worker[x]
  BY <1>1, <1>3 DEF Begin, Holding
<1>4. ASSUME NEW r \in Requests, BeginView(w, r)
      PROVE  /\ worker'[w].target = NoRequest
             /\ \A x \in Workers \ {w} : worker'[x] = worker[x]
  BY <1>3, <1>4 DEF BeginView
<1>5. ASSUME NEW r \in Requests, NEW u \in Users,
             \/ BeginUpdate(w, r, u) \/ BeginApprove(w, r, u)
             \/ BeginApply(w, r, u) \/ BeginRevert(w, r, u)
      PROVE  /\ worker'[w].target = NoRequest
             /\ \A x \in Workers \ {w} : worker'[x] = worker[x]
  BY <1>3, <1>5 DEF BeginUpdate, BeginApprove, BeginApply, BeginRevert
<1>6. ASSUME NEW r \in Requests, NEW p \in payloads[r], BeginEvent(w, r, p)
      PROVE  /\ worker'[w].target = NoRequest
             /\ \A x \in Workers \ {w} : worker'[x] = worker[x]
  BY <1>3, <1>6 DEF BeginEvent
<1> QED BY <1>2, <1>4, <1>5, <1>6 DEF Start

(* A step of a running worker changes its own memory only. *)
LEMMA ContinuesAlone ==
  ASSUME TypeOK, NEW w \in Workers, Continue(w)
  PROVE  \A x \in Workers \ {w} : worker'[x] = worker[x]
<1>1. worker \in [Workers -> Memory]
  BY DEF TypeOK
<1> QED
  BY <1>1 DEF Continue, Insert, Load, ActOnEnded, ActApprove, ActApply, ActReject,
     ActEventApproval, ActEventMerged, ActEventClosed, ActRevert, Refer,
     ReferRefused, WriteMerged, Write, Respond, RespondRaises, Settle,
     Prepared, Finished

(* Only the last step of a revert gives a worker a request to refer to. *)
LEMMA ContinuesHeir ==
  ASSUME TypeOK, NEW w \in Workers, Continue(w),
         ~ \E r \in Requests : ActRevert(w, r)
  PROVE  KeepsHeir(w)
<1>1. worker \in [Workers -> Memory] /\ worker[w] \in Memory /\ Coherent(worker[w])
  BY DEF TypeOK
<1>2. CASE Insert(w)
  BY <1>1, <1>2 DEF Insert, KeepsHeir, Memory, Coherent, TypeOK
<1>3. CASE Load(w)
  BY <1>1, <1>3 DEF Load, KeepsHeir, Memory
<1>4. ASSUME NEW status, worker' = Prepared(w, status), worker[w].pc = "act"
      PROVE  KeepsHeir(w)
  BY <1>1, <1>4 DEF Prepared, KeepsHeir, Memory
<1>5. CASE ActOnEnded(w) \/ ActApprove(w) \/ ActApply(w) \/ ActReject(w)
           \/ ActEventApproval(w) \/ ActEventClosed(w)
  <2>1. worker[w].pc = "act"
    BY <1>5 DEF ActOnEnded, ActApprove, ActApply, ActReject, ActEventApproval,
       ActEventClosed
  <2>2. CASE ActOnEnded(w)
    BY <1>4, <2>1, <2>2 DEF ActOnEnded
  <2>3. CASE ActApprove(w)
    BY <1>4, <2>1, <2>3 DEF ActApprove
  <2>4. CASE ActApply(w)
    BY <1>4, <2>1, <2>4 DEF ActApply
  <2>5. CASE ActReject(w)
    BY <1>4, <2>1, <2>5 DEF ActReject
  <2>6. CASE ActEventApproval(w)
    BY <1>4, <2>1, <2>6 DEF ActEventApproval
  <2>7. CASE ActEventClosed(w)
    BY <1>4, <2>1, <2>7 DEF ActEventClosed
  <2> QED BY <1>5, <2>2, <2>3, <2>4, <2>5, <2>6, <2>7
<1>6. CASE ActEventMerged(w)
  <2>1. /\ worker'[w].target = worker[w].target /\ worker'[w].pc = "write"
        /\ worker'[w].req = worker[w].req /\ worker[w].pc = "act"
    <3> DEFINE cur == [status |-> "Applied",
                       approvedBy |-> worker[w].cur.approvedBy
                                      \cup (worker[w].event.by \ {Bot})]
    <3>1. /\ worker' = [worker EXCEPT ![w].cur = cur, ![w].pc = "write"]
          /\ worker[w].pc = "act"
      BY <1>6 DEF ActEventMerged
    <3> HIDE DEF cur
    <3> QED BY <1>1, <3>1 DEF Memory
  <2> QED BY <2>1 DEF KeepsHeir
<1>7. CASE Refer(w) \/ ReferRefused(w) \/ RespondRaises(w)
  BY <1>1, <1>7 DEF Refer, ReferRefused, RespondRaises, Idle, Holding, KeepsHeir
<1>8. CASE WriteMerged(w) \/ Write(w) \/ Respond(w)
  <2>1. CASE WriteMerged(w)
    <3>1. CASE Refused(worker[w])
      BY <1>1, <2>1, <3>1 DEF WriteMerged, Idle, Holding, KeepsHeir
    <3>2. CASE ~Refused(worker[w])
      <4>1. /\ worker[w].pc = "write"
            /\ worker' = [worker EXCEPT ![w] = [worker[w] EXCEPT
                 !.pc = "respond", !.refs = NoRefs, !.links = NoLinks]]
        BY <2>1, <3>2 DEF WriteMerged
      <4> QED BY <1>1, <4>1 DEF KeepsHeir, Memory
    <3> QED BY <3>1, <3>2
  <2>2. CASE Write(w)
    BY <1>1, <2>2 DEF Write, Idle, Holding, KeepsHeir, Memory
  <2>3. CASE Respond(w)
    BY <1>1, <2>3 DEF Respond, KeepsHeir, Memory
  <2> QED BY <1>8, <2>1, <2>2, <2>3
<1>9. CASE Settle(w)
  BY <1>1, <1>9 DEF Settle, Finished, Idle, Holding, KeepsHeir, Memory
<1> QED BY <1>2, <1>3, <1>5, <1>6, <1>7, <1>8, <1>9 DEF Continue

(* Every step but the opening of a revert keeps every worker's. *)
LEMMA HeirsKept ==
  ASSUME TypeOK, NEW w \in Workers, [Next]_vars, Heir(w),
         ~ \E r \in Requests : ActRevert(w, r)
  PROVE  KeepsHeir(w)
<1>1. CASE worker'[w] = worker[w]
  BY <1>1 DEF KeepsHeir, Heir
<1>2. CASE worker'[w] # worker[w]
  <2>1. Start(w) \/ Continue(w) \/ Crash(w)
    <3>1. ASSUME NEW x \in Workers, Crash(x)
          PROVE  \A y \in Workers \ {x} : worker'[y] = worker[y]
      BY <3>1 DEF Crash, TypeOK
    <3>2. GitHub => UNCHANGED worker
      BY DEF GitHub, SubmitReview, DismissReview, EndPr, ReopenPr
    <3> QED
      BY <1>2, <3>1, <3>2, StartsNoHeir, ContinuesAlone DEF Next, vars
  <2>2. CASE Crash(w)
    BY <2>2 DEF Crash, TypeOK, Idle, Holding, KeepsHeir
  <2> QED BY <2>1, <2>2, StartsNoHeir, ContinuesHeir DEF KeepsHeir
<1> QED BY <1>1, <1>2

(* Only a worker that has made a revert refers to it, *)
LEMMA OnlyReferRefers ==
  ASSUME [Next]_vars
  PROVE  UNCHANGED referred \/ \E w \in Workers : Refer(w)
<1>1. ASSUME NEW w \in Workers, Start(w) PROVE UNCHANGED referred
  BY <1>1 DEF Start, Begin, BeginView, BeginCreate, BeginUpdate, BeginApprove,
     BeginApply, BeginReject, BeginRevert, BeginEvent
<1>2. ASSUME NEW w \in Workers, Continue(w) PROVE UNCHANGED referred \/ Refer(w)
  BY <1>2 DEF Continue, Insert, Load, ActOnEnded, ActApprove, ActApply, ActReject,
     ActEventApproval, ActEventMerged, ActEventClosed, ActRevert,
     ReferRefused, WriteMerged, Write, Respond, RespondRaises, Settle
<1>3. ASSUME GitHub PROVE UNCHANGED referred
  BY <1>3 DEF GitHub, SubmitReview, DismissReview, EndPr, ReopenPr
<1> QED BY <1>1, <1>2, <1>3 DEF Next, Crash, vars

(* and only a rejection takes a reference away or brings it back. *)
LEMMA OnlyMergeRestores ==
  ASSUME [Next]_vars
  PROVE  \/ UNCHANGED revertOf \/ \E w \in Workers : Refer(w)
         \/ \E w \in Workers : revertOf' = MergedRefs(worker[w])
<1>1. ASSUME NEW w \in Workers, Start(w) PROVE UNCHANGED revertOf
  BY <1>1 DEF Start, Begin, BeginView, BeginCreate, BeginUpdate, BeginApprove,
     BeginApply, BeginReject, BeginRevert, BeginEvent
<1>2. ASSUME NEW w \in Workers, Continue(w)
      PROVE  UNCHANGED revertOf \/ Refer(w) \/ revertOf' = MergedRefs(worker[w])
  BY <1>2 DEF Continue, Insert, Load, ActOnEnded, ActApprove, ActApply, ActReject,
     ActEventApproval, ActEventMerged, ActEventClosed, ActRevert,
     ReferRefused, WriteMerged, Write, Respond, RespondRaises, Settle
<1>3. ASSUME GitHub PROVE UNCHANGED revertOf
  BY <1>3 DEF GitHub, SubmitReview, DismissReview, EndPr, ReopenPr
<1> QED BY <1>1, <1>2, <1>3 DEF Next, Crash, vars

(* A request that was created never disappears. *)
LEMMA RowsStay ==
  ASSUME StatusInv, [Next]_vars, NEW r \in Requests, row[r].status # "Absent"
  PROVE  row'[r].status # "Absent"
<1>1. ASSUME NEW w \in Workers, Writes(w) PROVE row'[r].status # "Absent"
  BY <1>1, WrittenStatus DEF Statuses
<1> QED BY <1>1, OnlyWritersWrite

-----------------------------------------------------------------------------
(* The references that exist stay sound while no request is referred to. *)
LEMMA ReferencesStay ==
  ASSUME RevertInv, [Next]_vars, UNCHANGED referred
  PROVE  /\ \A r \in Requests : ReferredOf(r)'
         /\ \A w \in Workers : RefsInv(w)'
<1>1. /\ StatusInv /\ TypeOK /\ Grown /\ \A r \in Requests : ReferredOf(r)
      /\ \A w \in Workers : RefsInv(w) /\ JoinsOf(w)
  BY FactsGrow, JoinsKept DEF RevertInv, StatusInv
<1>2. ASSUME NEW w \in Workers PROVE RefsInv(w)'
  <2>1. CASE worker'[w].refs = worker[w].refs
    BY <1>1, <2>1 DEF RefsInv
  <2>2. CASE worker'[w].refs = NoRefs
    BY <2>2 DEF RefsInv, NoRefs
  <2>3. ASSUME NEW r \in Requests, worker'[w].refs = RefsOf(r) PROVE RefsInv(w)'
    BY <1>1, <2>3 DEF RefsInv, RefsOf, ReferredOf
  <2> QED BY <1>1, <2>1, <2>2, <2>3 DEF JoinsOf
<1>3. ASSUME NEW r \in Requests PROVE revertOf'[r] \in referred[r] \cup {NoRequest}
  <2>1. CASE UNCHANGED revertOf
    BY <1>1, <2>1 DEF ReferredOf
  <2>2. ASSUME NEW w \in Workers, Refer(w)
        PROVE  revertOf'[r] \in referred[r] \cup {NoRequest}
    <3>1. worker[w].target \in Requests /\ worker[w].req \in Requests
      BY <1>1, <2>2 DEF Refer, TypeOK, Coherent
    <3>2. \A q \in Requests \ {worker[w].target} : revertOf'[q] = revertOf[q]
      BY <1>1, <2>2, <3>1 DEF Refer, TypeOK
    <3>3. revertOf'[worker[w].target] \in referred[worker[w].target]
      BY <1>1, <2>2, <3>1 DEF Refer, TypeOK
    <3> QED BY <1>1, <3>2, <3>3 DEF ReferredOf
  <2>3. ASSUME NEW w \in Workers, revertOf' = MergedRefs(worker[w])
        PROVE  revertOf'[r] \in referred[r] \cup {NoRequest}
    BY <1>1, <2>3 DEF MergedRefs, RefsInv, ReferredOf
  <2> QED BY <2>1, <2>2, <2>3, OnlyMergeRestores
<1>4. ASSUME NEW r \in Requests PROVE ReferredOf(r)'
  <2>1. \A v \in referred[r] : row'[v].status # "Absent"
    BY <1>1, RowsStay DEF ReferredOf, TypeOK
  <2>2. IsMerged(r) => IsMerged(r)'
    BY <1>1 DEF Grown, GrownOf, IsMerged
  <2> QED BY <1>1, <1>3, <2>1, <2>2 DEF ReferredOf
<1> QED BY <1>2, <1>4

(***************************************************************************)
(* Every step keeps the references sound: the request of a revert is fresh *)
(* when a worker takes it, and stays that worker's alone.                  *)
(***************************************************************************)
LEMMA RevertStep == RevertInv /\ [Next]_vars => RevertInv'
<1> SUFFICES ASSUME RevertInv, [Next]_vars PROVE RevertInv'
  OBVIOUS
<1>1. /\ StatusInv /\ TypeOK /\ StatusInv' /\ Grown
      /\ \A r \in Requests : ReferredOf(r)
      /\ \A w \in Workers : Heir(w) /\ RefsInv(w)
      /\ worker \in [Workers -> Memory] /\ worker' \in [Workers -> Memory]
      /\ \A w \in Workers : Coherent(worker[w])
  BY StatusStep, FactsGrow DEF RevertInv, StatusInv, TypeOK
<1>2. ASSUME NEW w \in Workers, worker[w].target # NoRequest
      PROVE  /\ worker[w].req \in Requests /\ worker[w].target \in Requests
             /\ pr[worker[w].req].state # "none" /\ IsMerged(worker[w].target)
  BY <1>1, <1>2 DEF StatusInv, Remembers, Heir, Coherent, Memory
<1>3. ASSUME NEW w \in Workers, NEW r \in Requests, ActRevert(w, r)
      PROVE  RevertInv'
  <2>1. /\ UNCHANGED <<row, referred>> /\ pr[r].state = "none"
        /\ worker'[w].req = r /\ worker'[w].target = worker[w].req
        /\ worker'[w].pc = "insert"
        /\ \A x \in Workers \ {w} : worker'[x] = worker[x]
    BY <1>1, <1>3 DEF ActRevert, Fresh, Holding
  <2>2. worker[w].req # r
    BY <1>1, <1>3, <2>1 DEF ActRevert, StatusInv, Remembers
  <2>3. row[r].status = "Absent"
    BY <1>1, <2>1 DEF StatusInv, ToldOf
  <2>4. \A q \in Requests : r \notin referred[q]
    BY <1>1, <2>3 DEF ReferredOf
  <2>5. \A x \in Workers : worker[x].target # NoRequest => worker[x].req # r
    BY <1>2, <2>1
  <2>6. Heir(w)'
    BY <2>1, <2>2, <2>4, <2>5 DEF Heir
  <2>7. ASSUME NEW x \in Workers \ {w} PROVE Heir(x)'
    BY <1>1, <2>1, <2>5, <2>7 DEF Heir
  <2> QED BY <1>1, <2>1, <2>6, <2>7, ReferencesStay DEF RevertInv
<1>4. ASSUME ~ \E w \in Workers, r \in Requests : ActRevert(w, r)
      PROVE  RevertInv'
  <2>1. ASSUME NEW w \in Workers PROVE KeepsHeir(w)
    BY <1>1, <1>4, HeirsKept
  <2>2. ASSUME NEW w \in Workers, worker'[w].target # NoRequest
        PROVE  /\ worker[w].target = worker'[w].target
               /\ worker[w].req = worker'[w].req /\ worker[w].req \in Requests
               /\ worker'[w].pc # "idle" /\ worker[w].req # worker[w].target
               /\ worker'[w].pc # "insert" =>
                    row'[worker[w].req].status # "Absent"
               /\ \A q \in Requests : worker[w].req \notin referred[q]
               /\ \A x \in Workers \ {w} : worker[x].target # NoRequest =>
                    worker[x].req # worker[w].req
    <3>1. KeepsHeir(w) /\ Heir(w)
      BY <1>1, <2>1
    <3>2. worker[w].target # NoRequest
      BY <2>2, <3>1 DEF KeepsHeir
    <3>3. worker[w].pc # "insert" => row'[worker[w].req].status # "Absent"
      BY <1>1, <1>2, <3>1, <3>2, RowsStay DEF Heir
    <3> QED BY <1>2, <2>2, <3>1, <3>2, <3>3 DEF KeepsHeir, Heir
  <2>3. CASE UNCHANGED referred
    <3>1. ASSUME NEW w \in Workers PROVE Heir(w)'
      BY <2>2, <2>3 DEF Heir
    <3> QED BY <1>1, <2>3, <3>1, ReferencesStay DEF RevertInv
  <2>4. ASSUME NEW w \in Workers, Refer(w) PROVE RevertInv'
    <3>1. PICK r \in Requests :
            /\ r = worker[w].target /\ r # NoRequest
            /\ revertOf' = [revertOf EXCEPT ![r] = worker[w].req]
            /\ referred' = [referred EXCEPT ![r] = @ \cup {worker[w].req}]
            /\ worker'[w].target = NoRequest /\ worker'[w].refs = NoRefs
            /\ \A x \in Workers \ {w} : worker'[x] = worker[x]
            /\ UNCHANGED <<row, pr>>
      BY <1>1, <2>4, NamesAssumption DEF Refer, Coherent, Holding
    <3>2. /\ worker[w].req # r /\ IsMerged(r)
          /\ row[worker[w].req].status # "Absent"
          /\ \A q \in Requests : worker[w].req \notin referred[q]
          /\ worker[w].req \in Requests
      BY <1>1, <1>2, <2>4, <3>1 DEF Refer, Heir
    <3>3. /\ revertOf'[r] = worker[w].req
          /\ referred'[r] = referred[r] \cup {worker[w].req}
          /\ \A q \in Requests \ {r} : /\ revertOf'[q] = revertOf[q]
                                       /\ referred'[q] = referred[q]
      BY <1>1, <3>1 DEF TypeOK
    <3>4. ASSUME NEW q \in Requests PROVE ReferredOf(q)'
      <4>1. CASE q = r
        BY <1>1, <3>1, <3>2, <3>3, <4>1 DEF ReferredOf, IsMerged
      <4>2. CASE q # r
        BY <1>1, <3>1, <3>2, <3>3, <4>2 DEF ReferredOf, IsMerged
      <4> QED BY <4>1, <4>2
    <3>5. ASSUME NEW x \in Workers PROVE Heir(x)'
      <4>1. CASE x = w
        BY <3>1, <4>1 DEF Heir
      <4>2. CASE x # w /\ worker[x].target # NoRequest
        <5>1. worker[x].req # worker[w].req
          BY <1>1, <3>1, <4>2 DEF Heir
        <5>2. \A q \in Requests : worker[x].req \notin referred'[q]
          BY <1>1, <3>3, <4>2, <5>1 DEF Heir
        <5> QED BY <1>1, <3>1, <4>2, <5>2 DEF Heir
      <4>3. CASE x # w /\ worker[x].target = NoRequest
        BY <3>1, <4>3 DEF Heir
      <4> QED BY <4>1, <4>2, <4>3
    <3>6. ASSUME NEW x \in Workers PROVE RefsInv(x)'
      BY <1>1, <3>1, <3>3 DEF RefsInv, NoRefs
    <3> QED BY <1>1, <3>4, <3>5, <3>6 DEF RevertInv
  <2> QED BY <2>3, <2>4, OnlyReferRefers
<1> QED BY <1>3, <1>4

(***************************************************************************)
(* A revert reference joins a merged request to a request that exists, was *)
(* made for it alone and is not itself, however many workers revert at the *)
(* same time, and whatever references rejections delete and bring back.    *)
(***************************************************************************)
THEOREM RevertsCorrect == Spec => []RevertsAreSound
<1>1. ASSUME Init PROVE RevertInv
  <2>1. StatusInv
    BY <1>1, StatusInit
  <2>2. \A r \in Requests : ReferredOf(r)
    BY <1>1 DEF Init, ReferredOf
  <2>3. \A w \in Workers : Heir(w) /\ RefsInv(w)
    BY <1>1 DEF Init, Heir, RefsInv, Idle, Holding, NoRefs
  <2> QED BY <2>1, <2>2, <2>3 DEF RevertInv
<1>2. RevertInv => RevertsAreSound
  BY DEF RevertInv, RevertsAreSound, ReferredOf
<1> QED BY <1>1, <1>2, RevertStep, PTL DEF Spec

-----------------------------------------------------------------------------
(* A worker that reads a row as Reverted is one that only looks at it, or  *)
(* the webhook task.                                                        *)
LEMMA StartsReader ==
  ASSUME TypeOK, NEW w \in Workers, Start(w)
  PROVE  Reader(w)'
<1>1. ASSUME NEW op, NEW r, NEW u, NEW event, NEW old, NEW cur, NEW step,
             Begin(w, op, r, u, event, old, cur, step),
             old.status = "Reverted" => op \in {"view", "event"},
             cur.status = "Reverted" => op \in {"view", "event"},
             op = "view" => step = "load" /\ cur = old
      PROVE  Reader(w)'
  BY <1>1 DEF Begin, Holding, Reader, TypeOK
<1>2. ASSUME NEW r \in Requests, BeginView(w, r) PROVE Reader(w)'
  BY <1>1, <1>2 DEF BeginView
<1>3. ASSUME NEW r \in Requests, NEW u \in Users, BeginCreate(w, r, u)
      PROVE  Reader(w)'
  BY <1>3 DEF BeginCreate, Holding, NoColumns, Reader, TypeOK
<1>4. ASSUME NEW r \in Requests, NEW u \in Users, BeginUpdate(w, r, u)
      PROVE  Reader(w)'
  BY <1>1, <1>4 DEF BeginUpdate, ColumnsOf
<1>5. ASSUME NEW r \in Requests, NEW u \in Users, BeginApprove(w, r, u)
      PROVE  Reader(w)'
  BY <1>1, <1>5 DEF BeginApprove
<1>6. ASSUME NEW r \in Requests, NEW u \in Users,
             BeginApply(w, r, u) \/ BeginReject(w, r, u) \/ BeginRevert(w, r, u)
      PROVE  Reader(w)'
  <2>1. CASE BeginReject(w, r, u)
    BY <2>1 DEF BeginReject, Holding, ColumnsOf, Reader, TypeOK
  <2> QED BY <1>1, <1>6, <2>1 DEF BeginApply, BeginRevert, ColumnsOf
<1>7. ASSUME NEW r \in Requests, NEW p \in payloads[r], BeginEvent(w, r, p)
      PROVE  Reader(w)'
  BY <1>1, <1>7 DEF BeginEvent
<1> QED BY <1>2, <1>3, <1>4, <1>5, <1>6, <1>7 DEF Start

(* A worker that goes on with what it has read. *)
LEMMA ContinuesReader ==
  ASSUME TypeOK, NEW w \in Workers, Reader(w), Continue(w)
  PROVE  Reader(w)'
<1>1. worker \in [Workers -> Memory] /\ worker[w] \in Memory
  BY DEF TypeOK
<1>2. CASE Insert(w)
  BY <1>1, <1>2 DEF Insert, Reader, Memory
<1>3. CASE Load(w)
  <2>1. /\ worker'[w].old = worker[w].old /\ worker'[w].cur = worker[w].cur
        /\ worker'[w].op = worker[w].op
        /\ worker'[w].target = worker[w].target
        /\ worker[w].op = "view" => worker'[w].pc = "respond"
        /\ worker[w].pc = "load"
    BY <1>1, <1>3 DEF Load, Memory
  <2> QED BY <2>1 DEF Reader
<1>4. ASSUME NEW status, worker' = Prepared(w, status), worker[w].pc = "act",
             status # "Reverted" \/ status = worker[w].cur.status
      PROVE  Reader(w)'
  <2>1. /\ worker'[w].old = worker[w].old /\ worker'[w].op = worker[w].op
        /\ worker'[w].cur.status = status /\ worker[w].op # "view"
    BY <1>1, <1>4 DEF Prepared, Memory, Columns, Reader
  <2> QED BY <1>4, <2>1 DEF Reader
<1>5. ASSUME worker[w].pc = "act",
             ActOnEnded(w) \/ ActApprove(w) \/ ActApply(w)
      PROVE  Reader(w)'
  BY <1>4, <1>5 DEF ActOnEnded, ActApprove, ActApply
<1>6. ASSUME worker[w].pc = "act",
             ActReject(w) \/ ActEventApproval(w) \/ ActEventClosed(w)
      PROVE  Reader(w)'
  BY <1>4, <1>6 DEF ActReject, ActEventApproval, ActEventClosed
<1>7. CASE ActEventMerged(w)
  BY <1>1, <1>7 DEF ActEventMerged, Reader, Memory
<1>8. CASE \E r \in Requests : ActRevert(w, r)
  BY <1>1, <1>8 DEF ActRevert, Holding, NoColumns, Reader, Memory
<1>9. CASE Refer(w)
  BY <1>1, <1>9 DEF Refer, Holding, Reader, Memory
<1>10. CASE ReferRefused(w) \/ RespondRaises(w)
  BY <1>1, <1>10, IdleType DEF ReferRefused, RespondRaises, Reader
<1>11. CASE WriteMerged(w)
  <2>1. CASE Refused(worker[w])
    BY <1>1, <1>11, <2>1, IdleType DEF WriteMerged, Reader
  <2>2. CASE ~Refused(worker[w])
    <3>1. /\ worker[w].pc = "write" /\ worker[w].op = "reject"
          /\ worker' = [worker EXCEPT ![w] = [worker[w] EXCEPT
               !.pc = "respond", !.refs = NoRefs, !.links = NoLinks]]
      BY <1>11, <2>2 DEF WriteMerged
    <3> QED BY <1>1, <3>1 DEF Reader, Memory
  <2> QED BY <2>1, <2>2
<1>12. CASE Write(w)
  BY <1>1, <1>12, IdleType DEF Write, Reader, Memory
<1>13. CASE Respond(w)
  BY <1>1, <1>13 DEF Respond, Reader, Memory
<1>14. CASE Settle(w)
  BY <1>1, <1>14, IdleType DEF Settle, Finished, Reader, Memory
<1> QED
  BY <1>2, <1>3, <1>5, <1>6, <1>7, <1>8, <1>9, <1>10, <1>11, <1>12, <1>13, <1>14
     DEF Continue, ActOnEnded, ActApprove, ActApply, ActReject,
     ActEventApproval, ActEventClosed

(* Every step keeps what is said of those who have read Reverted. *)
LEMMA ReaderStep == ReaderInv /\ [Next]_vars => ReaderInv'
<1> SUFFICES ASSUME ReaderInv, [Next]_vars, NEW w \in Workers
             PROVE  Reader(w)'
  BY StatusStep DEF ReaderInv
<1>1. TypeOK /\ Reader(w)
  BY DEF ReaderInv, StatusInv
<1>2. CASE worker'[w] = worker[w]
  BY <1>1, <1>2 DEF Reader
<1>3. CASE worker'[w] # worker[w]
  <2>1. ASSUME NEW x \in Workers, Crash(x)
        PROVE  \A y \in Workers \ {x} : worker'[y] = worker[y]
    BY <1>1, <2>1 DEF Crash, TypeOK
  <2>2. GitHub => UNCHANGED worker
    BY DEF GitHub, SubmitReview, DismissReview, EndPr, ReopenPr
  <2>3. Start(w) \/ Continue(w) \/ Crash(w)
    BY <1>1, <1>3, <2>1, <2>2, StartsNoHeir, ContinuesAlone DEF Next, vars
  <2>4. CASE Crash(w)
    BY <1>1, <2>4, IdleType DEF Crash, TypeOK, Reader
  <2> QED BY <1>1, <2>3, <2>4, StartsReader, ContinuesReader
<1> QED BY <1>2, <1>3

(***************************************************************************)
(* A worker that has read a request as Reverted never takes that back: a   *)
(* Reverted row changes only under a worker whose copy of it was older,    *)
(* its own row or one that a rejection had joined to its own, or under the *)
(* webhook task, however many handlers run.                                *)
(***************************************************************************)
THEOREM RevertedStays == Spec => RevertedIsFinalForReaders
<1>1. Init => ReaderInv
  BY StatusInit DEF Init, ReaderInv, Reader, Idle, Holding
<1>2. ASSUME ReaderInv, [Next]_vars, NEW r \in Requests,
             row[r].status = "Reverted", row'[r].status # "Reverted"
      PROVE  \E w \in Workers :
               /\ worker'[w] # worker[w]
               /\ \/ worker[w].req = r /\ worker[w].op = "event"
                  \/ ReadEarlier(w, r)
  <2>1. TypeOK
    BY <1>2 DEF ReaderInv, StatusInv
  <2>2. PICK w \in Workers : Writes(w)
    BY <1>2, OnlyWritersWrite
  <2>3. worker \in [Workers -> Memory] /\ worker[w] \in Memory
    BY <2>1 DEF TypeOK
  <2>4. worker'[w].pc # worker[w].pc
    <3>1. Insert(w) => worker'[w].pc # worker[w].pc
      BY <2>3 DEF Insert, Memory
    <3>2. WriteMerged(w) => worker'[w].pc # worker[w].pc
      BY <2>3, IdleType DEF WriteMerged, Memory
    <3>3. Write(w) => worker'[w].pc # worker[w].pc
      BY <2>3, IdleType DEF Write, Memory
    <3>4. Respond(w) => worker'[w].pc # worker[w].pc
      BY <2>3 DEF Respond, Memory
    <3>5. Settle(w) => worker'[w].pc # worker[w].pc
      BY <2>3, IdleType DEF Settle, Finished, Memory
    <3> QED BY <2>2, <3>1, <3>2, <3>3, <3>4, <3>5 DEF Writes
  <2>5. CASE worker[w].req # r
    BY <1>2, <2>1, <2>2, <2>4, <2>5, WriteShape DEF ReadEarlier
  <2>6. ASSUME worker[w].req = r, worker[w].op # "event",
               worker[w].old.status = "Reverted"
        PROVE  FALSE
    <3>1. /\ worker[w].op = "view" /\ worker[w].cur.status = "Reverted"
          /\ worker[w].pc \in {"load", "respond", "settle"}
      <4>1. Reader(w) /\ worker[w].pc # "idle"
        BY <1>2, <2>1, <2>2, WriteShape DEF ReaderInv
      <4> QED BY <2>6, <4>1 DEF Reader
    <3>2. Settle(w)
      BY <2>2, <3>1 DEF Writes, Insert, WriteMerged, Write, Respond,
         ReviewDecides
    <3>3. row' = row
      BY <3>1, <3>2 DEF Settle, MergeDecides
    <3> QED BY <1>2, <3>3
  <2> QED BY <2>4, <2>5, <2>6 DEF ReadEarlier
<1>3. ReaderInv /\ [Next]_vars =>
        [\A r \in Requests :
           row[r].status = "Reverted" /\ row'[r].status # "Reverted" =>
             \E w \in Workers :
                /\ worker'[w] # worker[w]
                /\ \/ worker[w].req = r /\ worker[w].op = "event"
                   \/ ReadEarlier(w, r)]_vars
  BY <1>2
<1> QED BY <1>1, <1>3, ReaderStep, PTL DEF Spec, RevertedIsFinalForReaders
=============================================================================
