--------------------------- MODULE IambicRequest ---------------------------
(***************************************************************************)
(* The life of a self-service IAMbic request: a row of the `request` table *)
(* of the SaaS database, shadowing a pull request on GitHub.               *)
(*                                                                         *)
(* The row is written by the handlers of the API (create, view, update,    *)
(* approve, apply, reject, revert: common/iambic_request/request_crud.py)  *)
(* and by the Celery task that follows a GitHub webhook                    *)
(* (common/iambic_request/tasks.py).  A handler reads the row in one       *)
(* transaction, awaits GitHub, and writes in another one, with no lock and *)
(* no version column, so handlers interleave at every await.  A worker is  *)
(* one running handler or task; one action of a worker is the code between *)
(* two awaits that touch the row or the pull request.                      *)
(*                                                                         *)
(* GitHub is external: people review, merge, close and reopen the pull     *)
(* request, the IAMbic app approves it once Noq has posted a signed        *)
(* `iambic approve` comment, and every closing and every approving review  *)
(* produces a webhook payload.  The payloads are kept in a set that only   *)
(* grows and from which a task may take any member at any time: payloads   *)
(* are lost, repeated and reordered freely.                                *)
(*                                                                         *)
(* ARRAY columns are compared as sets, and the columns no handler tests    *)
(* (justification, rejected_by, updated_at, ...) are left out.             *)
(***************************************************************************)
EXTENDS Naturals, Sequences

CONSTANTS
  Requests,         \* ids of requests; each names its row and its pull request
  Users,            \* signed-in users of the tenant
  Approvers,        \* the users in a group of allowed_approvers
  Reviewers,        \* people who review the pull request on GitHub
  Bot,              \* the IAMbic app, whose login contains "[bot]"
  Workers,          \* handlers and tasks that run at the same time
  MergeOnApproval,  \* IambicRepoDetails.merge_on_approval of the tenant
  NoUser, NoRequest,
  MaxReviews,       \* bound: reviews per pull request
  MaxCalls          \* bound: calls made, views aside, and handlers that die

ASSUME ApproversAssumption == Approvers \subseteq Users
ASSUME NamesAssumption ==
  /\ Bot \notin Users \cup Reviewers
  /\ NoUser \notin Users
  /\ NoRequest \notin Requests
ASSUME MergeOnApprovalAssumption == MergeOnApproval \in BOOLEAN
ASSUME BoundsAssumption == MaxReviews \in Nat /\ MaxCalls \in Nat

VARIABLES
  row,       \* the request table
  pr,        \* the pull requests on GitHub
  payloads,  \* the webhook payloads GitHub has produced, per request
  signed,    \* the users in whose name `iambic approve` was posted
  applied,   \* whether `iambic apply` was posted
  revertOf,  \* the revert_request_reference table: target -> its revert
  referred,  \* history: the reverts each request was ever referred to
  worker,    \* what each running handler or task holds in memory
  calls      \* how many calls were made and handlers have died so far

vars == <<row, pr, payloads, signed, applied, revertOf, referred, worker, calls>>

(***************************************************************************)
(* Statuses and types.  "Absent" is a row that does not exist; the other   *)
(* labels of RequestStatusEnum (Pending in Git, Expired, Failed) are       *)
(* written by no code.                                                     *)
(***************************************************************************)
Statuses == {"Pending", "Approving", "Approved", "Applying", "Applied",
             "Rejected", "Reverted"}
Logins == Users \cup Reviewers \cup {Bot}

Review  == [by : Reviewers \cup {Bot},
            verdict : {"APPROVED", "CHANGES_REQUESTED", "DISMISSED"}]
Payload == [by : SUBSET (Reviewers \cup {Bot}), merged : BOOLEAN,
            closed : BOOLEAN]
View    == [state : {"none", "open", "closed", "merged"},
            review : {"PENDING_REVIEW", "CHANGES_REQUESTED", "APPROVED"},
            approvers : SUBSET Reviewers]
Columns == [status : Statuses \cup {"Absent"}, approvedBy : SUBSET Logins]
Steps   == {"idle", "load", "act", "write", "respond", "settle", "insert",
            "refer"}
Ops     == {"none", "view", "create", "update", "approve", "apply", "reject",
            "revert", "event"}

NoColumns == [status |-> "Absent", approvedBy |-> {}]
NoView    == [state |-> "none", review |-> "PENDING_REVIEW", approvers |-> {}]
NoPayload == [by |-> {}, merged |-> FALSE, closed |-> FALSE]
NoRefs    == [q \in Requests |-> NoRequest]
NoLinks   == [q \in Requests |-> NoColumns]

(* What a worker holds when it begins: nothing of the pull request yet. *)
Holding(op, r, u, event, old, cur, step) ==
  [pc |-> step, op |-> op, req |-> r, user |-> u, event |-> event,
   old |-> old, cur |-> cur, view |-> NoView, target |-> NoRequest,
   kept |-> {}, refs |-> NoRefs, links |-> NoLinks]

Idle == Holding("none", NoRequest, NoUser, NoPayload, NoColumns, NoColumns,
                "idle")

Row == [status : Statuses \cup {"Absent"}, approvedBy : SUBSET Logins,
        createdBy : Users \cup {NoUser}]
PullRequest == [state : {"none", "open", "closed", "merged"},
                reviews : Seq(Review)]
Memory == [pc : Steps, op : Ops, req : Requests \cup {NoRequest},
           user : Users \cup {NoUser}, event : Payload, old : Columns,
           cur : Columns, view : View, target : Requests \cup {NoRequest},
           kept : SUBSET Logins, refs : [Requests -> Requests \cup {NoRequest}],
           links : [Requests -> Columns]]

Coherent(me) == me.pc # "idle" =>
  /\ me.req \in Requests
  /\ me.op \in {"create", "approve"} => me.user \in Users
  /\ me.op = "revert" /\ me.pc # "write" => me.user \in Users
  /\ me.pc = "refer" => me.target \in Requests

TypeOK ==
  /\ row \in [Requests -> Row]
  /\ pr \in [Requests -> PullRequest]
  /\ payloads \in [Requests -> SUBSET Payload]
  /\ signed \in [Requests -> SUBSET Users]
  /\ applied \in [Requests -> BOOLEAN]
  /\ revertOf \in [Requests -> Requests \cup {NoRequest}]
  /\ referred \in [Requests -> SUBSET Requests]
  /\ worker \in [Workers -> Memory]
  /\ \A w \in Workers : Coherent(worker[w])
  /\ calls \in 0 .. MaxCalls

Init ==
  /\ row = [r \in Requests |->
              [status |-> "Absent", approvedBy |-> {}, createdBy |-> NoUser]]
  /\ pr = [r \in Requests |-> [state |-> "none", reviews |-> <<>>]]
  /\ payloads = [r \in Requests |-> {}]
  /\ signed = [r \in Requests |-> {}]
  /\ applied = [r \in Requests |-> FALSE]
  /\ revertOf = [r \in Requests |-> NoRequest]
  /\ referred = [r \in Requests |-> {}]
  /\ worker = [w \in Workers |-> Idle]
  /\ calls = 0

-----------------------------------------------------------------------------
(***************************************************************************)
(* What GitHubPullRequest.load_pr keeps of the reviews: the loop stops at  *)
(* the first review that requests changes, whatever was approved later.    *)
(***************************************************************************)
RequestsChanges(reviews) ==
  \E i \in DOMAIN reviews : reviews[i].verdict = "CHANGES_REQUESTED"

(* A mistake: any review but a request for changes counts as an approval. *)
ReviewStateOfAny(reviews) ==
  IF RequestsChanges(reviews) THEN "CHANGES_REQUESTED"
  ELSE IF reviews # <<>> THEN "APPROVED" ELSE "PENDING_REVIEW"

ReviewState(reviews) ==
  IF RequestsChanges(reviews) THEN "CHANGES_REQUESTED"
  ELSE IF \E i \in DOMAIN reviews : reviews[i].verdict = "APPROVED"
       THEN "APPROVED"
       ELSE "PENDING_REVIEW"

(* A mistake: the app's own review is not filtered out. *)
ApprovedByAnyone(reviews) ==
  {p \in Reviewers \cup {Bot} : \E i \in DOMAIN reviews :
      reviews[i] = [by |-> p, verdict |-> "APPROVED"]}

ApprovedBy(reviews) ==
  {p \in Reviewers : \E i \in DOMAIN reviews :
      /\ reviews[i] = [by |-> p, verdict |-> "APPROVED"]
      /\ \A j \in 1 .. i : reviews[j].verdict # "CHANGES_REQUESTED"}

PrView(r) == [state |-> pr[r].state, review |-> ReviewState(pr[r].reviews),
              approvers |-> ApprovedBy(pr[r].reviews)]

(* created_by, or a member of a group of allowed_approvers *)
MayManage(u, r) == u = row[r].createdBy \/ u \in Approvers

ColumnsOf(r) == [status |-> row[r].status, approvedBy |-> row[r].approvedBy]

(***************************************************************************)
(* What get_request joins to a row: the references it is in, as the        *)
(* reverted request or as the revert, and the row at the other end of each. *)
(***************************************************************************)
RefsOf(r) == [q \in Requests |->
  IF q = r \/ revertOf[q] = r THEN revertOf[q] ELSE NoRequest]
LinksOf(r) == [q \in Requests |->
  IF revertOf[q] = r \/ revertOf[r] = q THEN ColumnsOf(q) ELSE NoColumns]

(***************************************************************************)
(* Request.write: SQLAlchemy updates only the columns whose value differs  *)
(* from the one that was loaded, so a column a handler leaves alone keeps  *)
(* what another handler wrote in the meantime.                             *)
(***************************************************************************)
Written(r, old, cur) ==
  [row EXCEPT ![r] =
     [status |-> IF cur.status = old.status THEN @.status ELSE cur.status,
      approvedBy |-> IF cur.approvedBy = old.approvedBy THEN @.approvedBy
                     ELSE cur.approvedBy,
      createdBy |-> @.createdBy]]

(***************************************************************************)
(* A worker that has its answer is idle again, unless it was creating the  *)
(* revert of another request, which goes on with the reference row.        *)
(***************************************************************************)
Finished(w) ==
  IF worker[w].target = NoRequest
  THEN [worker EXCEPT ![w] = Idle]
  ELSE [worker EXCEPT ![w].pc = "refer"]

(* GitHub tells the webhook of an approving review and of a closing, with  *)
(* the merged_at and closed_at of that moment.                             *)
Told(r, by, state) ==
  [payloads EXCEPT ![r] = @ \cup
     {[by |-> by, merged |-> state = "merged",
       closed |-> state \in {"merged", "closed"}]}]

(* A fresh uuid: no pull request, row or handler uses it yet. *)
Fresh(r) == pr[r].state = "none"

-----------------------------------------------------------------------------
(***************************************************************************)
(* The first step of each handler: it reads the row, checks that the user  *)
(* may do this now, and prepares its change in memory.  A refused call     *)
(* raises before any effect and is no step of the model.                   *)
(***************************************************************************)
Call == calls < MaxCalls /\ calls' = calls + 1

Begin(w, op, r, u, event, old, cur, step) ==
  /\ IF op = "view" THEN UNCHANGED calls ELSE Call
  /\ worker[w].pc = "idle"
  /\ row[r].status # "Absent"
  /\ worker' = [worker EXCEPT ![w] =
                  Holding(op, r, u, event, old, cur, step)]
  /\ UNCHANGED <<row, pr, payloads, signed, applied, revertOf, referred>>

(* create_request, to the point where the branch and the pull request exist *)
BeginCreate(w, r, u) ==
  /\ worker[w].pc = "idle"
  /\ Fresh(r)
  /\ Call
  /\ pr' = [pr EXCEPT ![r].state = "open"]
  /\ worker' = [worker EXCEPT ![w] =
       Holding("create", r, u, NoPayload, NoColumns, NoColumns, "insert")]
  /\ UNCHANGED <<row, payloads, signed, applied, revertOf, referred>>

(* request_dict *)
BeginView(w, r) ==
  Begin(w, "view", r, NoUser, NoPayload, ColumnsOf(r), ColumnsOf(r), "load")

(* update_request: the commit is pushed before the row is written; the     *)
(* approval of a request that is changed is taken back.                    *)
BeginUpdate(w, r, u) ==
  /\ MayManage(u, r)
  /\ row[r].status \in {"Pending", "Approved"}
  /\ LET new == IF row[r].status = "Approved"
                THEN [status |-> "Pending", approvedBy |-> {}]
                ELSE ColumnsOf(r)
     IN Begin(w, "update", r, NoUser, NoPayload, ColumnsOf(r), new, "write")

(* approve_or_apply_request, approving: approved_by is changed in place,   *)
(* so the loaded value changes with it and the write will not see it.      *)
BeginApproveAnonymously(w, r, u) ==  \* a mistake: who approves is not kept
  /\ row[r].status = "Pending"
  /\ u \in Approvers
  /\ Begin(w, "approve", r, NoUser, NoPayload, ColumnsOf(r),
           [ColumnsOf(r) EXCEPT !.status = "Approving"], "load")

BeginApprove(w, r, u) ==
  /\ row[r].status = "Pending"
  /\ u \in Approvers
  /\ LET names == row[r].approvedBy \cup {u}
     IN Begin(w, "approve", r, u, NoPayload,
              [status |-> "Pending", approvedBy |-> names],
              [status |-> "Approving", approvedBy |-> names], "load")

(* approve_or_apply_request, applying *)
BeginApplyPending(w, r, u) ==  \* a mistake: a pending request may be applied
  /\ row[r].status \in {"Pending", "Approved"}
  /\ MayManage(u, r)
  /\ Begin(w, "apply", r, NoUser, NoPayload, ColumnsOf(r),
           [ColumnsOf(r) EXCEPT !.status = "Applying"], "load")

BeginApply(w, r, u) ==
  /\ row[r].status = "Approved"
  /\ MayManage(u, r)
  /\ Begin(w, "apply", r, NoUser, NoPayload, ColumnsOf(r),
           [ColumnsOf(r) EXCEPT !.status = "Applying"], "load")

(* reject_request, which will write back all that get_request has loaded *)
BeginReject(w, r, u) ==
  /\ worker[w].pc = "idle"
  /\ row[r].status = "Pending"
  /\ MayManage(u, r)
  /\ Call
  /\ worker' = [worker EXCEPT ![w] =
       [Holding("reject", r, NoUser, NoPayload, ColumnsOf(r), ColumnsOf(r),
                "load") EXCEPT !.refs = RefsOf(r), !.links = LinksOf(r)]]
  /\ UNCHANGED <<row, pr, payloads, signed, applied, revertOf, referred>>

(* revert_request *)
BeginRevert(w, r, u) ==
  /\ row[r].status = "Applied"
  /\ MayManage(u, r)
  /\ Begin(w, "revert", r, u, NoPayload, ColumnsOf(r), ColumnsOf(r), "load")

(* handle_tenant_iambic_github_event; without a row the task returns *)
BeginEvent(w, r, p) ==
  Begin(w, "event", r, NoUser, p, ColumnsOf(r), ColumnsOf(r), "load")

-----------------------------------------------------------------------------
(***************************************************************************)
(* load_pr: what the handler will know of the pull request from here on.   *)
(***************************************************************************)
Load(w) ==
  /\ worker[w].pc = "load"
  /\ worker' = [worker EXCEPT
       ![w].view = PrView(worker[w].req),
       ![w].pc = IF worker[w].op \in {"view", "create", "update"}
                 THEN "respond" ELSE "act"]
  /\ UNCHANGED <<row, pr, payloads, signed, applied, revertOf, referred, calls>>

(* The row of a new request.                                               *)
Insert(w) ==
  LET r == worker[w].req
      new == [status |-> "Pending", approvedBy |-> {}]
  IN /\ worker[w].pc = "insert"
     /\ row' = [row EXCEPT ![r] = [status |-> "Pending", approvedBy |-> {},
                                   createdBy |-> worker[w].user]]
     /\ worker' = [worker EXCEPT ![w].old = new, ![w].cur = new,
                                 ![w].pc = "load"]
     /\ UNCHANGED <<pr, payloads, signed, applied, revertOf, referred, calls>>

Prepared(w, status) ==
  [worker EXCEPT ![w].cur.status = status, ![w].pc = "write"]

(***************************************************************************)
(* approve_or_apply_request, from the loaded pull request to the write.    *)
(* approve_request and merge_request comment only if GitHub says that the  *)
(* pull request is mergeable, which it decides on its own; the status is   *)
(* written all the same.                                                   *)
(***************************************************************************)
ActOnEnded(w) ==
  /\ worker[w].pc = "act"
  /\ worker[w].op \in {"approve", "apply"}
  /\ worker[w].view.state \in {"closed", "merged"}
  /\ worker' = Prepared(w, IF worker[w].view.state = "merged"
                           THEN "Applied" ELSE "Rejected")
  /\ UNCHANGED <<row, pr, payloads, signed, applied, revertOf, referred, calls>>

ActApprove(w) ==
  /\ worker[w].pc = "act"
  /\ worker[w].op = "approve"
  /\ worker[w].view.state = "open"
  /\ \E mergeable \in BOOLEAN :
       signed' = IF mergeable
                 THEN [signed EXCEPT ![worker[w].req] = @ \cup {worker[w].user}]
                 ELSE signed
  /\ worker' = Prepared(w, "Approving")
  /\ UNCHANGED <<row, pr, payloads, applied, revertOf, referred, calls>>

ActApply(w) ==
  /\ worker[w].pc = "act"
  /\ worker[w].op = "apply"
  /\ worker[w].view.state = "open"
  /\ \E mergeable \in BOOLEAN :
       applied' = [applied EXCEPT ![worker[w].req] = @ \/ mergeable]
  /\ worker' = Prepared(w, "Applying")
  /\ UNCHANGED <<row, pr, payloads, signed, revertOf, referred, calls>>

(* pr_obj.edit(state="closed"), which does nothing to one that has ended. *)
ClosePr(r) ==
  IF pr[r].state = "open"
  THEN /\ pr' = [pr EXCEPT ![r].state = "closed"]
       /\ payloads' = Told(r, {}, "closed")
  ELSE UNCHANGED <<pr, payloads>>

(***************************************************************************)
(* reject_request closes the pull request, then decides on what it had     *)
(* loaded before.                                                          *)
(***************************************************************************)
ActReject(w) ==
  LET r == worker[w].req
  IN /\ worker[w].pc = "act"
     /\ worker[w].op = "reject"
     /\ ClosePr(r)
     /\ worker' = Prepared(w, IF worker[w].view.state = "merged"
                              THEN worker[w].cur.status ELSE "Rejected")
     /\ UNCHANGED <<row, signed, applied, revertOf, referred, calls>>

(***************************************************************************)
(* handle_tenant_iambic_github_event goes by the payload; the pull request *)
(* it has loaded only decides whether `iambic apply` may be posted.        *)
(***************************************************************************)
ActEventApproval(w) ==
  LET r == worker[w].req
      p == worker[w].event
  IN /\ worker[w].pc = "act"
     /\ worker[w].op = "event"
     /\ p.by # {} /\ ~p.closed /\ ~p.merged
     /\ \/ /\ worker[w].cur.status = "Approving" /\ MergeOnApproval
           /\ \E mergeable \in BOOLEAN :
                /\ mergeable => worker[w].view.state # "merged"
                /\ applied' = [applied EXCEPT ![r] = @ \/ mergeable]
           /\ worker' = Prepared(w, "Applying")
        \/ /\ ~(worker[w].cur.status = "Approving" /\ MergeOnApproval)
           /\ worker' = Prepared(w, "Approved")
           /\ UNCHANGED applied
     /\ UNCHANGED <<row, pr, payloads, signed, revertOf, referred, calls>>

ActEventMerged(w) ==
  /\ worker[w].pc = "act"
  /\ worker[w].op = "event"
  /\ worker[w].event.merged
  /\ worker' = [worker EXCEPT
       ![w].cur = [status |-> "Applied",
                   approvedBy |-> @.approvedBy
                                  \cup (worker[w].event.by \ {Bot})],
       ![w].pc = "write"]
  /\ UNCHANGED <<row, pr, payloads, signed, applied, revertOf, referred, calls>>

ActEventClosed(w) ==
  /\ worker[w].pc = "act"
  /\ worker[w].op = "event"
  /\ worker[w].event.closed /\ ~worker[w].event.merged
  /\ worker' = Prepared(w, "Rejected")
  /\ UNCHANGED <<row, pr, payloads, signed, applied, revertOf, referred, calls>>

ActRevertNothing(w, r) ==  \* a mistake: with nothing to revert it goes on
  /\ worker[w].pc = "act"
  /\ worker[w].op = "revert"
  /\ Fresh(r)
  /\ worker' = Prepared(w, "Reverted")
  /\ UNCHANGED <<row, pr, payloads, signed, applied, revertOf, referred, calls>>

(***************************************************************************)
(* BasePullRequest.revert_request: the worker goes through a whole         *)
(* create_request for the revert before it comes back to the request it    *)
(* reverts.  It would raise if the pull request were not merged, which     *)
(* never happens to a request that was read as Applied; a file that cannot *)
(* be reverted also makes it raise, which is a Crash.                      *)
(***************************************************************************)
ActRevert(w, r) ==
  /\ worker[w].pc = "act"
  /\ worker[w].op = "revert"
  /\ worker[w].view.state = "merged"
  /\ Fresh(r)
  /\ pr' = [pr EXCEPT ![r].state = "open"]
  /\ worker' = [worker EXCEPT ![w] =
       [Holding("create", r, @.user, NoPayload, NoColumns, NoColumns, "insert")
          EXCEPT !.target = worker[w].req, !.kept = worker[w].old.approvedBy]]
  /\ UNCHANGED <<row, payloads, signed, applied, revertOf, referred, calls>>

(* RevertRequestReference.write, whose target is unique, and the new       *)
(* status of the request that was reverted.                                *)
ReferSwapped(w) ==  \* a mistake: the two ids of the row are exchanged
  /\ worker[w].pc = "refer"
  /\ revertOf[worker[w].target] = NoRequest
  /\ revertOf' = [revertOf EXCEPT ![worker[w].req] = worker[w].target]
  /\ referred' = [referred EXCEPT ![worker[w].req] = @ \cup {worker[w].target}]
  /\ worker' = [worker EXCEPT ![w] = Idle]
  /\ UNCHANGED <<row, pr, payloads, signed, applied, calls>>

Refer(w) ==
  LET r == worker[w].target
  IN /\ worker[w].pc = "refer"
     /\ revertOf[r] = NoRequest
     /\ revertOf' = [revertOf EXCEPT ![r] = worker[w].req]
     /\ referred' = [referred EXCEPT ![r] = @ \cup {worker[w].req}]
     /\ worker' = [worker EXCEPT ![w] =
          Holding("revert", r, NoUser, NoPayload,
                  [status |-> "Applied", approvedBy |-> @.kept],
                  [status |-> "Reverted", approvedBy |-> {}], "write")]
     /\ UNCHANGED <<row, pr, payloads, signed, applied, calls>>

ReferRefused(w) ==
  /\ worker[w].pc = "refer"
  /\ revertOf[worker[w].target] # NoRequest
  /\ worker' = [worker EXCEPT ![w] = Idle]
  /\ UNCHANGED <<row, pr, payloads, signed, applied, revertOf, referred, calls>>

-----------------------------------------------------------------------------
(***************************************************************************)
(* The write of each handler.  reject_request goes through session.merge,  *)
(* which leaves the handler's own object unflushed and copies every loaded *)
(* column over the row.  The merge cascades: the linked rows are written   *)
(* as they were loaded, a reference written since is deleted as an orphan, *)
(* and one deleted since is inserted again, which the unique columns       *)
(* refuse if the request has another by now.  Then nothing is written.     *)
(***************************************************************************)
Merged(r, copy) == [status |-> copy.status, approvedBy |-> copy.approvedBy,
                    createdBy |-> row[r].createdBy]

MergedRow(me) == [q \in Requests |->
  IF q = me.req THEN Merged(q, me.cur)
  ELSE IF me.links[q].status # "Absent" THEN Merged(q, me.links[q]) ELSE row[q]]

MergedRefs(me) == [q \in Requests |->
  IF q = me.req \/ me.req \in {revertOf[q], me.refs[q]} THEN me.refs[q]
  ELSE revertOf[q]]

Refused(me) == \E q \in Requests :
  me.refs[q] # NoRequest /\ revertOf[q] \notin {NoRequest, me.refs[q]}

WriteMerged(w) ==
  LET me == worker[w]
  IN /\ me.pc = "write"
     /\ me.op = "reject"
     /\ IF Refused(me)
        THEN /\ worker' = [worker EXCEPT ![w] = Idle]
             /\ UNCHANGED <<row, revertOf>>
        ELSE /\ row' = MergedRow(me)
             /\ revertOf' = MergedRefs(me)
             /\ worker' = [worker EXCEPT ![w] =
                  [me EXCEPT !.pc = "respond", !.refs = NoRefs, !.links = NoLinks]]
     /\ UNCHANGED <<pr, payloads, signed, applied, referred, calls>>

(* The answer to a revert writes nothing: the status is Reverted.          *)
Write(w) ==
  LET me == worker[w]
  IN /\ me.pc = "write"
     /\ me.op # "reject"
     /\ row' = Written(me.req, me.old, me.cur)
     /\ worker' = [worker EXCEPT ![w] =
          IF me.op \in {"event", "revert"} THEN Idle
          ELSE [me EXCEPT !.old = me.cur,
                          !.pc = IF me.op = "update" THEN "load"
                                 ELSE "respond"]]
     /\ UNCHANGED <<pr, payloads, signed, applied, revertOf, referred, calls>>

(***************************************************************************)
(* maybe_update_request, which ends every handler of the API with two      *)
(* writes of their own.  On the object a create has just inserted,         *)
(* approved_by is still the dict of the column's default: adding a list of *)
(* reviewers to it raises.                                                 *)
(***************************************************************************)
ReviewDecides(w) ==
  /\ worker[w].view.review = "APPROVED"
  /\ worker[w].cur.status \in {"Pending", "Applying", "Approving", "Rejected"}

(* Mistakes in that test: closed_at for merged_at, no exception for a       *)
(* Reverted request, only the status the apply handler leaves behind.       *)
MergeDecidesOnClosing(w) ==
  /\ worker[w].view.state \in {"closed", "merged"}
  /\ worker[w].cur.status \notin {"Applied", "Reverted"}
MergeDecidesOnReverted(w) ==
  worker[w].view.state = "merged" /\ worker[w].cur.status # "Applied"
MergeDecidesOnApplying(w) ==
  worker[w].view.state = "merged" /\ worker[w].cur.status = "Applying"

MergeDecides(w) ==
  /\ worker[w].view.state = "merged"
  /\ worker[w].cur.status \notin {"Applied", "Reverted"}

AddsToDefault(w) == worker[w].op = "create" /\ worker[w].view.approvers # {}

Respond(w) ==
  LET me == worker[w]
      new == [status |-> "Approved",
              approvedBy |-> me.cur.approvedBy \cup me.view.approvers]
  IN /\ me.pc = "respond"
     /\ ReviewDecides(w) /\ ~AddsToDefault(w)
     /\ row' = Written(me.req, me.old, new)
     /\ worker' = [worker EXCEPT ![w].old = new, ![w].cur = new,
                                 ![w].pc = "settle"]
     /\ UNCHANGED <<pr, payloads, signed, applied, revertOf, referred, calls>>

RespondRaises(w) ==
  /\ worker[w].pc = "respond"
  /\ ReviewDecides(w) /\ AddsToDefault(w)
  /\ worker' = [worker EXCEPT ![w] = Idle]
  /\ UNCHANGED <<row, pr, payloads, signed, applied, revertOf, referred, calls>>

Settle(w) ==
  LET me == worker[w]
  IN /\ \/ me.pc = "settle"
        \/ me.pc = "respond" /\ ~ReviewDecides(w)
     /\ row' = IF MergeDecides(w)
               THEN Written(me.req, me.old, [me.cur EXCEPT !.status = "Applied"])
               ELSE row
     /\ worker' = Finished(w)
     /\ UNCHANGED <<pr, payloads, signed, applied, revertOf, referred, calls>>

(* A handler raises, or its process dies, at any await.                    *)
Crash(w) ==
  /\ worker[w].pc # "idle"
  /\ Call
  /\ worker' = [worker EXCEPT ![w] = Idle]
  /\ UNCHANGED <<row, pr, payloads, signed, applied, revertOf, referred>>

-----------------------------------------------------------------------------
(***************************************************************************)
(* GitHub: people review, dismiss, merge, close and reopen; the app        *)
(* approves once a signed comment asks it to.                              *)
(***************************************************************************)
SubmitReview(r, p, verdict) ==
  /\ pr[r].state # "none"
  /\ Len(pr[r].reviews) < MaxReviews
  /\ p = Bot => signed[r] # {} /\ verdict = "APPROVED"
  /\ pr' = [pr EXCEPT ![r].reviews = Append(@, [by |-> p, verdict |-> verdict])]
  /\ payloads' = IF verdict = "APPROVED" THEN Told(r, {p}, pr[r].state)
                 ELSE payloads
  /\ UNCHANGED <<row, signed, applied, revertOf, referred, worker, calls>>

DismissReview(r, i) ==
  /\ pr[r].reviews[i].verdict # "DISMISSED"
  /\ pr' = [pr EXCEPT ![r].reviews[i].verdict = "DISMISSED"]
  /\ UNCHANGED <<row, payloads, signed, applied, revertOf, referred, worker, calls>>

EndPr(r, state) ==
  /\ pr[r].state = "open"
  /\ pr' = [pr EXCEPT ![r].state = state]
  /\ payloads' = Told(r, {}, state)
  /\ UNCHANGED <<row, signed, applied, revertOf, referred, worker, calls>>

ReopenPr(r) ==
  /\ pr[r].state = "closed"
  /\ pr' = [pr EXCEPT ![r].state = "open"]
  /\ UNCHANGED <<row, payloads, signed, applied, revertOf, referred, worker, calls>>

-----------------------------------------------------------------------------
Start(w) ==
  \E r \in Requests :
    \/ BeginView(w, r)
    \/ \E u \in Users :
         \/ BeginCreate(w, r, u) \/ BeginUpdate(w, r, u)
         \/ BeginApprove(w, r, u) \/ BeginApply(w, r, u)
         \/ BeginReject(w, r, u) \/ BeginRevert(w, r, u)
    \/ \E p \in payloads[r] : BeginEvent(w, r, p)

Continue(w) ==
  \/ Insert(w) \/ Load(w)
  \/ ActOnEnded(w) \/ ActApprove(w) \/ ActApply(w) \/ ActReject(w)
  \/ ActEventApproval(w) \/ ActEventMerged(w) \/ ActEventClosed(w)
  \/ \E r \in Requests : ActRevert(w, r)
  \/ Refer(w) \/ ReferRefused(w)
  \/ WriteMerged(w) \/ Write(w)
  \/ Respond(w) \/ RespondRaises(w) \/ Settle(w)

GitHub ==
  \E r \in Requests :
    \/ \E p \in Reviewers \cup {Bot}, v \in {"APPROVED", "CHANGES_REQUESTED"} :
         SubmitReview(r, p, v)
    \/ \E i \in DOMAIN pr[r].reviews : DismissReview(r, i)
    \/ \E state \in {"merged", "closed"} : EndPr(r, state)
    \/ ReopenPr(r)

Next ==
  \/ \E w \in Workers : Start(w) \/ Continue(w) \/ Crash(w)
  \/ GitHub

Spec == Init /\ [][Next]_vars

-----------------------------------------------------------------------------
(***************************************************************************)
(* What has happened on GitHub, from what nobody can take back.            *)
(***************************************************************************)
ApprovedOnce(r) == \E p \in payloads[r] : p.by # {}
EndedOnce(r)    == \E p \in payloads[r] : p.closed
IsMerged(r)     == pr[r].state = "merged"
HumanApprovers(r) == (UNION {p.by : p \in payloads[r]}) \ {Bot}

(* What has to be true of a request for its row to say so. *)
Supported(status, r) ==
  /\ status \in {"Approved", "Applying"} => ApprovedOnce(r)
  /\ status \in {"Applied", "Reverted"} => IsMerged(r)
  /\ status = "Rejected" => EndedOnce(r)
  /\ status = "Reverted" => referred[r] # {}

(***************************************************************************)
(* Whatever handlers and tasks interleave, with stale rows, stale views of *)
(* the pull request and late or repeated payloads, the status of a request *)
(* never claims what has not happened: an approval nobody gave, a merge, a *)
(* closing, or a revert for which no request was ever referred to.  (Every  *)
(* write of Request.status in request_crud.py, models.py and tasks.py.)    *)
(***************************************************************************)
StatusIsTruthful == \A r \in Requests : Supported(row[r].status, r)

(***************************************************************************)
(* `iambic apply`, which makes the IAMbic app apply the change to the      *)
(* cloud, is only ever posted (merge_request, called by the apply handler  *)
(* and by the webhook task) on a pull request that a person approved on    *)
(* GitHub or that an allowed approver approved in Noq.                     *)
(***************************************************************************)
ApplyIsAuthorised ==
  \A r \in Requests :
     applied[r] => HumanApprovers(r) # {} \/ signed[r] \cap Approvers # {}

(***************************************************************************)
(* approved_by names only allowed approvers and people who approved that   *)
(* pull request on GitHub, never the app: load_pr and the task both filter *)
(* it out, and a name never moves from one request to another.             *)
(***************************************************************************)
ApproversAreLegitimate ==
  \A r \in Requests :
     row[r].approvedBy \subseteq Approvers \cup HumanApprovers(r)

(***************************************************************************)
(* A revert reference joins a merged request to a request that exists, was *)
(* made for it alone and is not the request itself, even when two workers  *)
(* revert it at the same time (revert_request and the unique columns of    *)
(* RevertRequestReference), or a rejection deletes the reference and       *)
(* another brings it back.                                                 *)
(***************************************************************************)
RevertsAreSound ==
  \A r \in Requests : revertOf[r] # NoRequest =>
     /\ IsMerged(r)
     /\ revertOf[r] # r
     /\ row[revertOf[r]].status # "Absent"
     /\ \A q \in Requests \ {r} : revertOf[q] # revertOf[r]

(***************************************************************************)
(* A worker that has read a request as Reverted never takes that back: no  *)
(* handler of the API accepts such a request and maybe_update_request      *)
(* leaves it alone.  A Reverted row can change only under a worker that    *)
(* has an older copy of it, which includes one that rejects the revert and *)
(* joined that copy to it, or by the webhook task, which does not look.    *)
(***************************************************************************)
ReadEarlier(w, r) ==
  \/ worker[w].req = r /\ worker[w].old.status # "Reverted"
  \/ worker[w].links[r].status \notin {"Absent", "Reverted"}

RevertedIsFinalForReaders ==
  [][\A r \in Requests :
       row[r].status = "Reverted" /\ row'[r].status # "Reverted" =>
         \E w \in Workers :
            /\ worker'[w] # worker[w]
            /\ \/ worker[w].req = r /\ worker[w].op = "event"
               \/ ReadEarlier(w, r)]_vars

(***************************************************************************)
(* What schedules the workers: a handler or task that runs goes on running *)
(* (asyncio and Celery starve nobody), and whoever cares for a request     *)
(* keeps opening its page, among all other calls.  Nothing is assumed of   *)
(* people on GitHub or of the webhook, whose payloads may all be lost.     *)
(***************************************************************************)
Fairness ==
  /\ \A w \in Workers : WF_vars(Continue(w))
  /\ \A r \in Requests : SF_vars(\E w \in Workers : BeginView(w, r))

FairSpec == Spec /\ Fairness

(***************************************************************************)
(* Once the calls that change requests have stopped, a request whose pull  *)
(* request was merged ends up Applied or Reverted and stays so, whatever   *)
(* stale handlers and lost, late or repeated payloads wrote in between:    *)
(* looking at the request repairs it (maybe_update_request).               *)
(***************************************************************************)
MergedStaysReported ==
  \A r \in Requests :
    <>[](IsMerged(r) /\ row[r].status # "Absent"
           => row[r].status \in {"Applied", "Reverted"})

-----------------------------------------------------------------------------
(***************************************************************************)
(* The inductive invariant behind the properties above.  Handlers write    *)
(* from memory, so the rows are truthful only because every copy of a row, *)
(* of a pull request or of a payload that a worker holds was true when it  *)
(* was taken, and stays true: the facts only grow.                         *)
(***************************************************************************)
ToldOf(r) ==
  /\ pr[r].state \in {"closed", "merged"} => EndedOnce(r)
  /\ \A i \in DOMAIN pr[r].reviews :
       pr[r].reviews[i].verdict = "APPROVED" =>
         \E p \in payloads[r] : pr[r].reviews[i].by \in p.by
  /\ \A p \in payloads[r] : p.merged => IsMerged(r)
  /\ row[r].status # "Absent" => pr[r].state # "none"

Remembers(w) ==
  LET me == worker[w] IN
    me.pc # "idle" =>
      /\ pr[me.req].state # "none"
      /\ Supported(me.old.status, me.req) /\ Supported(me.cur.status, me.req)
      /\ me.view.state = "merged" => IsMerged(me.req)
      /\ me.view.state = "closed" => EndedOnce(me.req)
      /\ me.view.review = "APPROVED" => ApprovedOnce(me.req)
      /\ me.op = "event" => me.event \in payloads[me.req]
      /\ me.op = "apply" => ApprovedOnce(me.req)
      /\ me.target # NoRequest => IsMerged(me.target)
      /\ me.pc # "insert" => me.cur.status # "Absent"

Linked(w) ==
  \A q \in Requests :
    LET status == worker[w].links[q].status IN
      Supported(status, q) /\ (status # "Absent" => pr[q].state # "none")

StatusInv ==
  /\ TypeOK
  /\ \A r \in Requests : ToldOf(r) /\ Supported(row[r].status, r)
  /\ \A w \in Workers : Remembers(w) /\ Linked(w)

(* The part that carries the names and the comments. *)
SignedOf(r) ==
  /\ signed[r] \subseteq Approvers
  /\ applied[r] => ApprovedOnce(r)
  /\ \A p \in payloads[r] : Bot \in p.by => signed[r] # {}

Names(w) ==
  LET me == worker[w] IN
    me.pc # "idle" =>
      /\ me.old.approvedBy \subseteq Approvers \cup HumanApprovers(me.req)
      /\ me.cur.approvedBy \subseteq Approvers \cup HumanApprovers(me.req)
      /\ me.view.approvers \subseteq HumanApprovers(me.req)
      /\ me.op = "approve" => me.user \in Approvers
      /\ me.target # NoRequest =>
           me.kept \subseteq Approvers \cup HumanApprovers(me.target)

LinkedNames(w) ==
  \A q \in Requests :
    worker[w].links[q].approvedBy \subseteq Approvers \cup HumanApprovers(q)

NamesInv ==
  /\ StatusInv /\ ApproversAreLegitimate
  /\ \A r \in Requests : SignedOf(r)
  /\ \A w \in Workers : Names(w) /\ LinkedNames(w)

(* The part that carries the reverts: every reference, in the table or in  *)
(* memory, was written once, for a merged request and a revert of its own; *)
(* and one that is being made for another request is no other's yet.       *)
ReferredOf(r) ==
  /\ revertOf[r] \in referred[r] \cup {NoRequest}
  /\ \A v \in referred[r] :
       /\ IsMerged(r) /\ v # r /\ row[v].status # "Absent"
       /\ \A q \in Requests \ {r} : v \notin referred[q]

Heir(w) ==
  LET me == worker[w] IN
    me.target # NoRequest =>
      /\ me.pc # "idle" /\ me.req # me.target
      /\ me.pc # "insert" => row[me.req].status # "Absent"
      /\ \A q \in Requests : me.req \notin referred[q]
      /\ \A x \in Workers \ {w} :
           worker[x].target # NoRequest => worker[x].req # me.req

RefsInv(w) ==
  \A q \in Requests : worker[w].refs[q] \in referred[q] \cup {NoRequest}

RevertInv ==
  /\ StatusInv
  /\ \A r \in Requests : ReferredOf(r)
  /\ \A w \in Workers : Heir(w) /\ RefsInv(w)

(* And the part that carries their status: who may have read Reverted. *)
Reader(w) ==
  LET me == worker[w] IN
    me.pc # "idle" =>
      /\ me.old.status = "Reverted" => me.op \in {"view", "event"}
      /\ me.cur.status = "Reverted" => me.op \in {"view", "event", "revert"}
      /\ me.op = "view" => /\ me.pc \in {"load", "respond", "settle"}
                           /\ me.cur.status = me.old.status
                           /\ me.target = NoRequest

ReaderInv == StatusInv /\ \A w \in Workers : Reader(w)

-----------------------------------------------------------------------------
(***************************************************************************)
(* The promise to the rest of the system: RequestStatus, with the facts    *)
(* read off GitHub and the reference table, and the status column as the   *)
(* claim.                                                                  *)
(***************************************************************************)
FactsOf(r) ==
  (IF ApprovedOnce(r) THEN {"approved"} ELSE {})
  \cup (IF EndedOnce(r) THEN {"ended"} ELSE {})
  \cup (IF IsMerged(r) THEN {"merged"} ELSE {})
  \cup (IF referred[r] # {} THEN {"referenced"} ELSE {})

Promise == INSTANCE RequestStatus WITH
  claim <- [r \in Requests |-> row[r].status],
  facts <- [r \in Requests |-> FactsOf(r)]

(* The detailed request implements the promise. *)
ImplementsPromise == Promise!Spec
=============================================================================
