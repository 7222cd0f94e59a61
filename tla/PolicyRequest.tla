--------------------------- MODULE PolicyRequest ---------------------------
(***************************************************************************)
(* A cloud policy request (v2): from its creation, through the commands    *)
(* that apply, cancel, approve or reject it, to the removal of what it     *)
(* granted when its expiration date has passed.                            *)
(*                                                                         *)
(* The request is one row of DynamoDB.  Every API call reads the whole     *)
(* row, changes its copy in memory, calls AWS on the way and writes the    *)
(* whole copy back, twice as a rule (api/handlers/v2/requests.py and       *)
(* common/lib/v2/requests.py).  A page view may write its copy too.  A     *)
(* Celery task does the same to the approved requests that have expired    *)
(* (common/lib/aws/utils.py).  Nothing locks the row.                      *)
(*                                                                         *)
(* Time passes from one expiration date to the next.  What AWS grants for  *)
(* a change bears the mark (a policy name, the Sid of a statement) the     *)
(* change had when it was applied.                                         *)
(***************************************************************************)
EXTENDS Naturals, FiniteSets, FiniteSetsExt

CONSTANTS
  Changes,    \* the changes of the request, numbered as in its list
  Marked,     \* those whose grant bears a mark: inline and resource policies
  Resource,   \* the resource policies among them
  Lasting,    \* those of the types the removal has no branch for
  Misnamed,   \* those it looks for under another name: policies of S3 and SQS
  Topics,     \* the policies of SNS topics, which it replaces by an empty one
  Trust,      \* the trust policies of roles, at which it ends without the role
  Stray,      \* the tags of resources outside IAM, at which it always ends
  Generated,  \* those generated when the request was created
  Foreign,    \* those to accounts the tenant does not have
  ReadOnly,   \* those to accounts Noq may only read
  Handlers,   \* API calls served at the same time
  MaxCalls,   \* bound: the API calls served
  MaxMarks,   \* bound: the marks given out
  MaxFaults   \* bound: failed AWS calls, failed writes and handlers that die

ASSUME ChangesAssumption ==
  /\ Changes \subseteq Nat \ {0} /\ Changes # {} /\ IsFiniteSet(Changes)
  /\ Marked \cup Lasting \cup Generated \cup Foreign \cup ReadOnly \subseteq Changes
  /\ Resource \subseteq Marked /\ Marked \cap Lasting = {}
  /\ Foreign \cup Topics \cup Trust \subseteq Resource
  /\ Misnamed \cup Stray \subseteq Changes /\ Stray \cap Resource = {}
ASSUME BoundsAssumption == {MaxCalls, MaxMarks, MaxFaults} \subseteq Nat

VARIABLES
  row,      \* the item of policy_requests_multitenant
  grants,   \* what AWS grants: pairs of a change and the mark it bears
  past,     \* the expiration dates that have passed
  marks,    \* how many marks were given out
  handler,  \* what each API call holds in memory
  expirer,  \* what the removal of expired requests holds in memory
  spoilt,   \* history: the changes the record may be wrong about, see Spoil
  calls, faults

vars == <<row, grants, past, marks, handler, expirer, spoilt, calls, faults>>

Open == {"pending", "approved", "expired"}
Closed == {"cancelled", "rejected"}
Statuses == {"not_applied", "applied", "cancelled", "expired"}

(* A mark is given with every date, and a date goes by the mark given then. *)
Marks == 0 .. MaxMarks
Row == [status : {"absent"} \cup Open \cup Closed, ch : [Changes -> Statuses],
        supported : SUBSET Changes, auto : SUBSET Changes,
        date : Marks, mark : Marks, ttl : BOOLEAN]

NoRow == [status |-> "absent", ch |-> [c \in Changes |-> "not_applied"],
          supported |-> Changes \ Foreign, auto |-> Generated,
          date |-> 0, mark |-> 0, ttl |-> FALSE]
Idle == [pc |-> "idle", copy |-> NoRow, todo |-> {}, account |-> 0,
         rest |-> {}, post |-> FALSE]
Resting == [pc |-> "idle", copy |-> NoRow, todo |-> {}, changed |-> FALSE]

Memory == [pc : {"idle", "apply", "record", "write", "settle", "view", "final"},
           copy : Row, todo : SUBSET Changes, account : Changes \cup {0},
           rest : SUBSET Changes, post : BOOLEAN]
Removal == [pc : {"idle", "remove", "write"}, copy : Row,
            todo : SUBSET Changes, changed : BOOLEAN]

TypeOK ==
  /\ row \in Row
  /\ grants \subseteq Changes \X Marks
  /\ past \subseteq 1 .. marks
  /\ marks \in Marks
  /\ handler \in [Handlers -> Memory]
  /\ \A h \in Handlers :
       handler[h].pc \in {"apply", "record"} => handler[h].todo # {}
  /\ expirer \in Removal
  /\ expirer.pc = "remove" => expirer.todo # {}
  /\ spoilt \subseteq Changes
  /\ calls \in 0 .. MaxCalls
  /\ faults \in 0 .. MaxFaults

Init ==
  /\ row = NoRow
  /\ grants = {}
  /\ past = {}
  /\ marks = 0
  /\ handler = [h \in Handlers |-> Idle]
  /\ expirer = Resting
  /\ spoilt = {}
  /\ calls = 0
  /\ faults = 0

-----------------------------------------------------------------------------
(***************************************************************************)
(* What the code does to a copy.                                           *)
(***************************************************************************)
MarkOf(r, c) == IF c \in Marked THEN r.mark ELSE 0
Granted(c) == \E m \in Marks : <<c, m>> \in grants
In(r, s) == {c \in Changes : r.ch[c] = s}

(* update_extended_request_expiration_date: all the marks are new. *)
Redate(r, date, mark) == [r EXCEPT !.date = date, !.mark = mark]

(***************************************************************************)
(* maybe_approve_reject_request.  Unsupported resource policies and        *)
(* generated changes do not keep a request from being settled.             *)
(***************************************************************************)
Pending(r) ==
  In(r, "not_applied") \ ((Resource \ r.supported) \cup r.auto)

SettledStatus(r) ==
  CASE Pending(r) = {} /\ In(r, "applied") # {} -> "approved"
    [] Pending(r) = {} /\ In(r, "applied") = {} /\ In(r, "cancelled") # {}
         -> "cancelled"
    [] OTHER -> r.status

Settles(r) ==
  Pending(r) = {} /\ In(r, "applied") \cup In(r, "cancelled") # {}

Busy == {h \in Handlers : handler[h].pc # "idle"}
Alone == Busy = {} /\ expirer.pc = "idle"

(***************************************************************************)
(* History.  The record of a change is open to doubt once two copies were  *)
(* out at the same time, a write of it was lost, its grant bears a mark    *)
(* that is no longer its own, or it was applied by the account of another. *)
(***************************************************************************)
Spoil(C) == spoilt' = spoilt \cup C
SpoilIfRaced == Spoil(IF Alone THEN {} ELSE Changes)
Unsaved(r) == {c \in Changes : r.ch[c] # row.ch[c]}

(* _update_dynamo_with_change: a failed write is reported and forgotten. *)
Save(r) ==
  \/ /\ row' = r
     /\ UNCHANGED <<spoilt, faults>>
  \/ /\ faults < MaxFaults
     /\ faults' = faults + 1
     /\ Spoil(Unsaved(r))
     /\ UNCHANGED row

-----------------------------------------------------------------------------
(***************************************************************************)
(* POST /api/v2/request.  A request that a rule, the configuration of role *)
(* access or its requester's wish to approve it as an admin has approved   *)
(* is written first, and each of its own changes applied then, which fails *)
(* for who may not apply it.                                               *)
(***************************************************************************)
Create(h, approved, allowed, dated, ttl) ==
  LET copy == [NoRow EXCEPT !.status = IF approved THEN "approved" ELSE "pending",
                            !.date = IF dated THEN 1 ELSE 0,
                            !.mark = IF dated THEN 1 ELSE 0, !.ttl = ttl]
      own == Changes \ Generated
  IN  /\ row.status = "absent"
      /\ dated => MaxMarks > 0
      /\ row' = copy
      /\ marks' = copy.mark
      /\ handler' = [handler EXCEPT ![h] =
           IF approved /\ allowed /\ own # {}
           THEN [pc |-> "apply", copy |-> copy, todo |-> {Min(own)},
                 account |-> Min(own), rest |-> own \ {Min(own)}, post |-> TRUE]
           ELSE @]
      /\ UNCHANGED <<grants, past, expirer, spoilt, calls, faults>>

(***************************************************************************)
(* PUT /api/v2/requests/{id}: the row is read, and the command changes the *)
(* copy or is refused.  What follows is a write, or the calls of an apply. *)
(***************************************************************************)
Begin(h, pc, copy, todo) ==
  /\ row.status # "absent"
  /\ handler[h].pc = "idle"
  /\ calls < MaxCalls
  /\ calls' = calls + 1
  /\ SpoilIfRaced
  /\ handler' = [handler EXCEPT ![h] =
       [Idle EXCEPT !.pc = pc, !.copy = copy, !.todo = todo,
                    !.account = IF todo = {} THEN 0 ELSE Max(todo)]]
  /\ UNCHANGED <<row, grants, past, expirer, faults>>

AddComment(h) == Begin(h, "write", row, {}) /\ UNCHANGED marks

UpdateTtl(h) ==
  /\ row.status = "pending"
  /\ Begin(h, "write", [row EXCEPT !.date = 0, !.ttl = TRUE], {})
  /\ UNCHANGED marks

(* The grants of changes applied before keep the mark they have. *)
UpdateExpirationDate(h, dated) ==
  LET m == marks + 1 IN
  /\ row.status = "pending"
  /\ marks < MaxMarks
  /\ marks' = m
  /\ handler[h].pc = "idle" /\ calls < MaxCalls /\ calls' = calls + 1
  /\ Spoil(IF Alone THEN In(row, "applied") \cap Marked ELSE Changes)
  /\ handler' = [handler EXCEPT ![h] = [Idle EXCEPT !.pc = "write",
       !.copy = [Redate(row, IF dated THEN m ELSE 0, m) EXCEPT !.ttl = FALSE]]]
  /\ UNCHANGED <<row, grants, past, expirer, faults>>

(* A generated resource policy that a user edits is the user's. *)
UpdateChange(h, c) ==
  /\ row.status \notin Closed
  /\ row.ch[c] = "not_applied"
  /\ Begin(h, "write", [row EXCEPT !.auto = @ \ (Resource \cap {c})], {})
  /\ UNCHANGED marks

CancelChange(h, c) ==
  /\ row.status \notin Closed
  /\ row.ch[c] = "not_applied"
  /\ Begin(h, "write", [row EXCEPT !.ch[c] = "cancelled"], {})
  /\ UNCHANGED marks

CloseAnyway(h, status) ==  \* a mistake: what was applied is not looked at
  /\ row.status = "pending"
  /\ Begin(h, "write", [row EXCEPT !.status = status], {})
  /\ UNCHANGED marks

(* Neither is possible, and said to be so, once a change was applied. *)
CloseRequest(h, status) ==
  /\ row.status = "pending"
  /\ IF In(row, "applied") = {}
     THEN Begin(h, "write", [row EXCEPT !.status = status], {})
     ELSE Begin(h, "settle", row, {})
  /\ UNCHANGED marks

ApproveRequest(h) ==
  /\ row.status = "pending"
  /\ Begin(h, "write", [row EXCEPT !.status = "approved"], {})
  /\ UNCHANGED marks

MoveBackToPending(h) ==
  /\ row.status \in Closed
  /\ Begin(h, "write", [row EXCEPT !.status = "pending"], {})
  /\ UNCHANGED marks

ApplyChange(h, c) ==
  /\ row.status \notin Closed
  /\ row.ch[c] = "not_applied"
  /\ Begin(h, "apply", row, {c})
  /\ UNCHANGED marks

(* All the changes that are not applied, which all count as supported. *)
ApplyAllChanges(h) ==
  LET todo == In(row, "not_applied") IN
  /\ row.status \notin Closed
  /\ Begin(h, IF todo = {} THEN "settle" ELSE "apply",
              [row EXCEPT !.supported = @ \cup todo], todo)
  /\ UNCHANGED marks

(***************************************************************************)
(* GET /api/v2/requests/{id}: when a policy the request wants to change    *)
(* has changed in AWS since the last look, what was read is written back.  *)
(***************************************************************************)
View(h) ==
  LET looked == (Resource \cup Lasting) \ In(row, "applied") IN
  /\ looked # {}
  /\ Begin(h, "view",
       [row EXCEPT !.supported = (@ \ (looked \cap Resource))
                                 \cup ((looked \cap Resource) \ Foreign)], {})
  /\ UNCHANGED marks

-----------------------------------------------------------------------------
(* What the handler does next when a command has been carried out. *)
Finished(m) ==
  CASE m.rest # {} -> [m EXCEPT !.pc = "apply", !.todo = {Min(m.rest)},
                          !.account = Min(m.rest), !.rest = @ \ {Min(m.rest)}]
    [] m.rest = {} /\ m.post -> [m EXCEPT !.pc = "final", !.todo = {}]
    [] OTHER -> Idle

TriedForEver(m, c) ==  \* a mistake: the loop does not end
  [m EXCEPT !.todo = @ \ {c}, !.pc = "apply"]

(* The next change of an apply, or its end. *)
Tried(m, c) ==
  [m EXCEPT !.todo = @ \ {c},
            !.pc = IF m.todo = {c} THEN "settle" ELSE "apply"]

(***************************************************************************)
(* apply_change, one change.  Whether the account is known and whether it  *)
(* is read-only is asked of the account of the last change of the list.    *)
(***************************************************************************)
AccountUnknown(h) ==
  LET m == handler[h] IN
  /\ m.pc = "apply"
  /\ m.account \in Foreign
  /\ handler' = [handler EXCEPT ![h] = Finished(m)]
  /\ UNCHANGED <<row, grants, past, marks, expirer, spoilt, calls, faults>>

Possible(m, c) == c \notin Foreign /\ (c \in Resource => c \in m.copy.supported)

(* A time to live begins when the change is applied: all marks are new.    *)
Record(h, c) ==
  LET m == handler[h]
      applied == [m.copy EXCEPT !.ch[c] = "applied"]
      mixed == IF (c \in ReadOnly) = (m.account \in ReadOnly) THEN {} ELSE {c}
  IN  IF m.copy.ttl
      THEN /\ marks < MaxMarks
           /\ marks' = marks + 1
           /\ Spoil(mixed \cup (In(applied, "applied") \cap Marked))
           /\ handler' = [handler EXCEPT ![h] =
                [m EXCEPT !.pc = "record",
                          !.copy = Redate(applied, marks + 1, marks + 1)]]
      ELSE /\ Spoil(mixed)
           /\ handler' = [handler EXCEPT ![h] =
                [m EXCEPT !.pc = "record", !.copy = applied]]
           /\ UNCHANGED marks

ApplyOne(h) ==
  LET m == handler[h]
      c == Min(m.todo)
  IN  /\ m.pc = "apply"
      /\ m.account \notin Foreign
      /\ IF m.account \in ReadOnly
         THEN UNCHANGED grants
         ELSE /\ Possible(m, c)
              /\ grants' = grants \cup {<<c, MarkOf(m.copy, c)>>}
      /\ Record(h, c)
      /\ UNCHANGED <<row, past, expirer, calls, faults>>

(* AWS refuses, or the change is not supported: it stays as it was. *)
ApplyFails(h) ==
  LET m == handler[h]
      c == Min(m.todo)
  IN  /\ m.pc = "apply"
      /\ m.account \notin Foreign \cup ReadOnly
      /\ IF Possible(m, c) THEN faults < MaxFaults /\ faults' = faults + 1
                           ELSE UNCHANGED faults
      /\ handler' = [handler EXCEPT ![h] = Tried(m, c)]
      /\ UNCHANGED <<row, grants, past, marks, expirer, spoilt, calls>>

RecordChange(h) ==
  LET m == handler[h] IN
  /\ m.pc = "record"
  /\ Save(m.copy)
  /\ handler' = [handler EXCEPT ![h] = Tried(m, Min(m.todo))]
  /\ UNCHANGED <<grants, past, marks, expirer, calls>>

Write(h) ==
  LET m == handler[h] IN
  /\ m.pc = "write"
  /\ Save(m.copy)
  /\ handler' = [handler EXCEPT ![h].pc = "settle"]
  /\ UNCHANGED <<grants, past, marks, expirer, calls>>

Settle(h) ==
  LET m == handler[h]
      settled == [m.copy EXCEPT !.status = SettledStatus(m.copy)]
  IN  /\ m.pc = "settle"
      /\ IF Settles(m.copy) THEN Save(settled) ELSE UNCHANGED <<row, spoilt, faults>>
      /\ handler' = [handler EXCEPT ![h] = Finished([m EXCEPT !.copy = settled])]
      /\ UNCHANGED <<grants, past, marks, expirer, calls>>

(* The plain write_v2 that ends a POST, and that of a view. *)
WriteBack(h) ==
  /\ handler[h].pc \in {"final", "view"}
  /\ row' = handler[h].copy
  /\ handler' = [handler EXCEPT ![h] = Idle]
  /\ UNCHANGED <<grants, past, marks, expirer, spoilt, calls, faults>>

(* An exception that nothing catches, or a restart of the server. *)
Die(h) ==
  /\ h \in Busy
  /\ faults < MaxFaults
  /\ faults' = faults + 1
  /\ Spoil(Unsaved(handler[h].copy))
  /\ handler' = [handler EXCEPT ![h] = Idle]
  /\ UNCHANGED <<row, grants, past, marks, expirer, calls>>

-----------------------------------------------------------------------------
(***************************************************************************)
(* remove_expired_tenant_requests, every six hours.                        *)
(***************************************************************************)
Due(r) == r.date \in past

FindPending ==  \* a mistake: the query asks for pending requests
  /\ expirer.pc = "idle"
  /\ row.status = "pending"
  /\ Due(row)
  /\ In(row, "applied") # {}
  /\ expirer' = [pc |-> "remove", copy |-> row, todo |-> In(row, "applied"),
                 changed |-> FALSE]
  /\ SpoilIfRaced
  /\ UNCHANGED <<row, grants, past, marks, handler, calls, faults>>

FindExpired ==
  /\ expirer.pc = "idle"
  /\ row.status = "approved"
  /\ Due(row)
  /\ In(row, "applied") # {}
  /\ expirer' = [pc |-> "remove", copy |-> row, todo |-> In(row, "applied"),
                 changed |-> FALSE]
  /\ SpoilIfRaced
  /\ UNCHANGED <<row, grants, past, marks, handler, calls, faults>>

Looked(e) == [e EXCEPT !.todo = @ \ {Min(@)},
                      !.pc = IF e.todo = {Min(e.todo)} THEN "write" ELSE "remove"]

(* The changes a pass leaves alone, whatever AWS says: without a branch, in *)
(* an account the tenant does not have, or sought under the type of their  *)
(* resource ("bucket", "sqs") instead of its name.                         *)
Futile == Lasting \cup Foreign \cup Misnamed

(* And those AWS is free to refuse: what it is sent for a topic is an empty *)
(* policy, and an account that is read-only lets nobody write.             *)
Refusable == Topics \cup ReadOnly

(***************************************************************************)
(* A grant that is not found is as good as removed.  An empty policy takes *)
(* all the statements of a topic away, whatever mark they bear.            *)
(***************************************************************************)
RemoveGrant ==
  LET c == Min(expirer.todo) IN
  /\ expirer.pc = "remove"
  /\ c \notin Futile \cup Stray
  /\ grants' = grants \ {<<c, m>> : m \in IF c \in Topics THEN Marks
                                          ELSE {MarkOf(expirer.copy, c)}}
  /\ expirer' = [Looked(expirer) EXCEPT !.copy.ch[c] = "expired", !.changed = TRUE]
  /\ UNCHANGED <<row, past, marks, handler, spoilt, calls, faults>>

KeepUnnoticed ==  \* a mistake: a failed removal counts as done
  /\ expirer.pc = "remove"
  /\ faults < MaxFaults
  /\ faults' = faults + 1
  /\ expirer' = [Looked(expirer) EXCEPT !.changed = TRUE,
                                        !.copy.ch[Min(expirer.todo)] = "expired"]
  /\ UNCHANGED <<row, grants, past, marks, handler, spoilt, calls>>

KeepGrant ==
  LET c == Min(expirer.todo) IN
  /\ expirer.pc = "remove"
  /\ c \notin Stray
  /\ IF c \in Futile \cup Refusable THEN UNCHANGED faults
     ELSE faults < MaxFaults /\ faults' = faults + 1
  /\ expirer' = Looked(expirer)
  /\ UNCHANGED <<row, grants, past, marks, handler, spoilt, calls>>

(* The role is gone, and the function returns; or its handling of an error *)
(* raises another one.  What was removed before is never recorded.         *)
Halt ==
  /\ expirer.pc = "remove"
  /\ Min(expirer.todo) \in Trust \cup Stray
  /\ Spoil(Unsaved(expirer.copy))
  /\ expirer' = Resting
  /\ UNCHANGED <<row, grants, past, marks, handler, calls, faults>>

(* Whatever was removed, the request counts as expired as a whole. *)
WriteExpired ==
  /\ expirer.pc = "write"
  /\ IF expirer.changed THEN Save([expirer.copy EXCEPT !.status = "expired"])
     ELSE UNCHANGED <<row, spoilt, faults>>
  /\ expirer' = Resting
  /\ UNCHANGED <<grants, past, marks, handler, calls>>

ExpirerDies ==
  /\ expirer.pc # "idle"
  /\ faults < MaxFaults
  /\ faults' = faults + 1
  /\ Spoil(Unsaved(expirer.copy))
  /\ expirer' = Resting
  /\ UNCHANGED <<row, grants, past, marks, handler, calls>>

Pass(d) ==
  /\ past' = past \cup {d}
  /\ UNCHANGED <<row, grants, marks, handler, expirer, spoilt, calls, faults>>

-----------------------------------------------------------------------------
Command(h) ==
  \/ AddComment(h) \/ UpdateTtl(h) \/ ApproveRequest(h) \/ MoveBackToPending(h)
  \/ \E dated \in BOOLEAN : UpdateExpirationDate(h, dated)
  \/ \E status \in Closed : CloseRequest(h, status)
  \/ \E c \in Changes : UpdateChange(h, c) \/ CancelChange(h, c) \/ ApplyChange(h, c)
  \/ ApplyAllChanges(h)
  \/ View(h)

Serve(h) ==
  \/ AccountUnknown(h) \/ ApplyOne(h) \/ ApplyFails(h)
  \/ RecordChange(h) \/ Write(h) \/ Settle(h) \/ WriteBack(h)

Remove == RemoveGrant \/ KeepGrant \/ Halt \/ WriteExpired

Next ==
  \/ \E h \in Handlers :
       \/ \E approved, allowed, dated, ttl \in BOOLEAN :
            Create(h, approved, allowed, dated, ttl)
       \/ Command(h) \/ Serve(h) \/ Die(h)
  \/ FindExpired \/ Remove \/ ExpirerDies
  \/ \E d \in 1 .. marks : Pass(d)

Spec == Init /\ [][Next]_vars

(***************************************************************************)
(* Celery starts the removal every six hours and a run of it ends.  That   *)
(* users issue commands, and that a date passes, is not assumed.           *)
(***************************************************************************)
FairSpec == Spec /\ WF_vars(FindExpired) /\ WF_vars(Remove)

-----------------------------------------------------------------------------
(***************************************************************************)
(* "Request cannot be cancelled because at least one change has been       *)
(* applied already" (common/lib/v2/requests.py:3671, 3704): whatever order *)
(* the copies of several calls are written in, no cancelled or rejected    *)
(* request records an applied change.                                      *)
(***************************************************************************)
Coherent(r) == r.status \in Closed => In(r, "applied") = {}

ClosedHasNothingApplied == Coherent(row)

(***************************************************************************)
(* At rest the record of a change is right: it says applied exactly when   *)
(* AWS grants what the change asked for.  This is so of the changes that   *)
(* no race, lost write, new mark or foreign account has spoilt, through    *)
(* refused calls, several commands and the removal.                        *)
(***************************************************************************)
RecordIsRight ==
  Alone => \A c \in Changes \ (spoilt \cup ReadOnly) :
             (row.ch[c] = "applied") = Granted(c)

(***************************************************************************)
(* Nobody works on a request that was not created, and nobody holds one.   *)
(***************************************************************************)
StartInv ==
  /\ row.status = "absent" => Alone /\ grants = {} /\ marks = 0
  /\ \A h \in Busy : handler[h].copy.status # "absent"
  /\ expirer.pc # "idle" => expirer.copy.status # "absent"

(***************************************************************************)
(* The inductive invariants behind the two.  A row is written back from a  *)
(* copy, so every copy that is out has to be fit to be written: coherent,  *)
(* and open if it is to be granted something yet.                          *)
(***************************************************************************)
Carries(m) ==
  /\ Coherent(m.copy)
  /\ m.pc \in {"apply", "record"} => m.copy.status \notin Closed
  /\ m.post => /\ m.copy.status \notin Closed
               /\ In(m.copy, "cancelled") = {}
  /\ m.rest # {} => m.post

CoherentInv ==
  /\ TypeOK /\ ClosedHasNothingApplied
  /\ \A h \in Handlers : Carries(handler[h])
  /\ expirer.pc # "idle" => expirer.copy.status \notin Closed

(***************************************************************************)
(* And right: as long as one copy is out at a time, what it says of a      *)
(* change that nothing has spoilt is what AWS grants, under the mark the   *)
(* copy has; and so is what the row says, should the copy be dropped.      *)
(***************************************************************************)
Sure == Changes \ (spoilt \cup ReadOnly)

Right(r, c) ==
  /\ (r.ch[c] = "applied") = Granted(c)
  /\ \A m \in Marks : <<c, m>> \in grants => m = MarkOf(r, c)

HandlerRight(m, c) ==
  /\ Right(m.copy, c)
  /\ m.copy.ch[c] = row.ch[c] => Right(row, c)
  /\ m.pc \in {"apply", "settle", "view", "final"} => m.copy.ch[c] = row.ch[c]

ToApply(m) ==
  /\ m.pc \in {"apply", "record"} => m.todo \cap m.rest = {}
  /\ m.pc = "apply" => m.todo \subseteq In(m.copy, "not_applied")
  /\ m.pc = "record" =>
       m.todo \ {Min(m.todo)} \subseteq In(m.copy, "not_applied")
  /\ m.rest \subseteq In(m.copy, "not_applied")

ExpirerRight(c) ==
  /\ Right(expirer.copy, c)
  /\ expirer.copy.ch[c] = row.ch[c] => Right(row, c)
  /\ ~expirer.changed => expirer.copy.ch[c] = row.ch[c]

RecordInv ==
  /\ TypeOK /\ StartInv
  /\ spoilt # Changes =>
       /\ \A g, h \in Busy : g = h
       /\ expirer.pc # "idle" => Busy = {}
  /\ \A h \in Busy : ToApply(handler[h])
  /\ \A c \in Sure :
       /\ Alone => Right(row, c)
       /\ \A h \in Busy : HandlerRight(handler[h], c)
       /\ expirer.pc # "idle" => ExpirerRight(c)

(***************************************************************************)
(* An approved request does not stay so when its date has passed and it    *)
(* has a change the removal can take back: remove_expired_tenant_requests  *)
(* gets to it, through failures and commands that write it meanwhile.      *)
(* Nothing is promised of what the removal never gets: it does not succeed *)
(* with the policies of S3 and SQS, with accounts it may not write to or   *)
(* with a topic, and a request it stops at is never written.               *)
(***************************************************************************)
Removable == Changes \ (Futile \cup Refusable \cup Trust \cup Stray)

Overdue ==
  /\ row.status = "approved" /\ row.date \in past
  /\ In(row, "applied") \cap Removable # {}
  /\ In(row, "applied") \cap (Trust \cup Stray) = {}

ExpiryHappens == Overdue ~> ~Overdue

=============================================================================
