------------------------ MODULE AccountRegistration ------------------------
(***************************************************************************)
(* How the AWS accounts of a tenant get into its configuration.            *)
(*                                                                         *)
(* CloudFormation announces the roles it has created in an account by a    *)
(* message to an SQS queue.  A Celery task receives the messages in        *)
(* batches, checks that it can assume the roles, writes the account to the *)
(* configuration and answers CloudFormation, which waits for that          *)
(* (common/lib/tenant_integrations/aws.py).  Of a batch that raises        *)
(* nothing is deleted.                                                     *)
(*                                                                         *)
(* The configuration of a tenant is one document.  Whoever changes a part  *)
(* of it reads the whole, awaits, and writes the whole                     *)
(* (common/config/models.py): the task, the admins, and the task that      *)
(* takes accounts over from AWS Organizations                              *)
(* (common/aws/organizations/utils.py).  A read may return the document as *)
(* it was a while ago, since none asks for a consistent one, and nothing   *)
(* at all after an error, which is taken for an empty document             *)
(* (common/config/config.py).  What they look up before, they look up in   *)
(* copies that are refreshed every ten seconds.                            *)
(***************************************************************************)
EXTENDS Naturals, Sequences, SequencesExt, FiniteSets

CONSTANTS
  Messages,     \* ids of registration messages
  Mailings,     \* what kinds of messages may be sent together
  Accounts,     \* AWS accounts of the tenant
  Hub,          \* the key of the hub account in the document
  Consumers,    \* runs of handle_tenant_integration_queue
  Syncs,        \* runs of cache_organization_structure
  Admins,       \* API calls that change the accounts
  BatchSize,    \* MaxNumberOfMessages of receive_message
  MaxMessages,  \* max_num_messages_to_process
  MaxRuns,      \* bound: what syncs and admins start, together
  MaxFaults     \* bound: exceptions and lost answers

AllKinds == {"central",      \* the roles of a hub account were created
             "spoke",        \* the role of a spoke account was created
             "stranger",     \* the external id is not the tenant's
             "update",       \* a stack was updated or deleted
             "unknown",      \* another type of request
             "unsupported",  \* another type of action
             "malformed"}    \* a message the loop cannot read

ASSUME MailingsAssumption == Mailings \subseteq [Messages -> AllKinds]
ASSUME HubAssumption == Hub \notin Accounts
ASSUME ActorsAssumption ==
  Consumers \cap Syncs = {} /\ Consumers \cap Admins = {} /\ Syncs \cap Admins = {}
ASSUME SizesAssumption ==
  /\ {BatchSize, MaxMessages} \subseteq Nat \ {0}
  /\ {MaxRuns, MaxFaults} \subseteq Nat

VARIABLES
  mail,    \* the queue: what became of each message
  doc,     \* the tenant's configuration document, as far as accounts go
  versions,  \* the document as it is and as it was, see Readable
  task,    \* what each consumer, sync and admin holds in memory
  told,    \* what CloudFormation was answered to each message
  mute,    \* history: messages whose answer did not get through
  spoilt,  \* history: parts an admin removed, or a write took back that was
           \* made of an earlier document, or of none
  runs, faults

vars == <<mail, doc, versions, task, told, mute, spoilt, runs, faults>>

(***************************************************************************)
(* An entry of spoke_accounts, as far as it differs: who described the     *)
(* account, and whether it was searched for an organization.               *)
(***************************************************************************)
Entry == [account : Accounts, by : {"stack", "sync", "admin"}, checked : BOOLEAN]
Registered(a) == [account |-> a, by |-> "stack", checked |-> FALSE]
Onboarded(a) == [account |-> a, by |-> "sync", checked |-> FALSE]
Document == [hub : BOOLEAN, spokes : Seq(Entry)]

Letter == [place : {"unsent", "visible", "invisible", "deleted"},
           kind : AllKinds, account : Accounts]

Actors == Consumers \cup Syncs \cup Admins
Parts == Accounts \cup {Hub}
NoDoc == [hub |-> FALSE, spokes |-> <<>>]
Idle == [pc |-> "idle", batch |-> <<>>, done |-> {}, count |-> 0,
         stage |-> "spoke", entry |-> {}, base |-> NoDoc, draft |-> NoDoc]

Memory == [pc : {"idle", "batch", "poll", "read", "put", "answer"},
           batch : Seq(Messages), done : SUBSET Messages, count : Nat,
           stage : {"hub", "spoke"}, entry : SUBSET Entry,
           base : Document, draft : Document]

Typed ==
  /\ mail \in [Messages -> Letter]
  /\ {doc} \cup versions \subseteq Document
  /\ task \in [Actors -> Memory]
  /\ told \in [Messages -> SUBSET {"SUCCESS", "FAILED"}]
  /\ mute \subseteq Messages
  /\ spoilt \subseteq Parts

TypeOK ==
  /\ Typed
  /\ \A x \in Actors : /\ Len(task[x].batch) <= BatchSize
                       /\ task[x].count < MaxMessages + BatchSize
  /\ runs \in 0 .. MaxRuns
  /\ faults \in 0 .. MaxFaults

Init ==
  /\ \E kind \in Mailings, account \in [Messages -> Accounts] :
       mail = [m \in Messages |-> [place |-> "unsent", kind |-> kind[m],
                                   account |-> account[m]]]
  /\ doc = NoDoc
  /\ versions = {NoDoc}
  /\ task = [x \in Actors |-> Idle]
  /\ told = [m \in Messages |-> {}]
  /\ mute = {}
  /\ spoilt = {}
  /\ runs = 0
  /\ faults = 0

-----------------------------------------------------------------------------
(***************************************************************************)
(* ModelAdapter.  An item of a list replaces the first that is similar to  *)
(* it, or is added at the end.  By default only equal items are similar;   *)
(* syncs and admins compare the account.                                   *)
(***************************************************************************)
Places(s, a) == {i \in DOMAIN s : s[i].account = a}
Has(d, p) == IF p = Hub THEN d.hub ELSE Places(d.spokes, p) # {}

FirstOf(s, a) == CHOOSE i \in Places(s, a) : \A j \in Places(s, a) : i <= j

StoreAnyway(s, e) == Append(s, e)  \* a mistake: an equal item is added again
StoreEqual(s, e) == IF Contains(s, e) THEN s ELSE Append(s, e)
StoreByAccount(s, e) ==
  IF Places(s, e.account) = {} THEN Append(s, e)
  ELSE [s EXCEPT ![FirstOf(s, e.account)] = e]

(* What is left of the entries of s, in their order. *)
Left(s, keep) ==
  {t \in BoundedSeq(Entry, Len(s)) :
     \E f \in [DOMAIN t -> keep] :
       /\ Range(f) = keep
       /\ \A i, j \in DOMAIN t : i < j => f[i] < f[j]
       /\ \A i \in DOMAIN t : t[i] = s[f[i]]}

(* delete_list takes the first entry of the account away, as many times as *)
(* the copy of the list that it has loaded has items, if it has any.       *)
Removals(s, a) ==
  UNION {Left(s, DOMAIN s \ gone) :
           gone \in {g \in SUBSET Places(s, a) :
                      \A i \in g, j \in Places(s, a) : j < i => j \in g}}

(***************************************************************************)
(* What a read returns, or a look-up in a copy, which reads the document   *)
(* where the copy has nothing (__optimistic_loader): the document as it is *)
(* or was, for no read is a consistent one and copies are kept; or nothing *)
(* after an error, which is taken for an empty document                    *)
(* (get_tenant_static_config_from_dynamo).  No age is too old here.        *)
(***************************************************************************)
Readable == versions \cup {NoDoc}

(***************************************************************************)
(* The first half of every change: the document is read and the change     *)
(* made to the copy.  Then update_static_config_for_tenant awaits.         *)
(***************************************************************************)
Read(x, base, draft) ==
  task' = [task EXCEPT ![x].pc = "put", ![x].base = base, ![x].draft = draft]

Dropped(x) == {p \in Parts : Has(doc, p) /\ ~Has(task[x].draft, p)}

(* The second half.  What the writer has not seen, it takes back. *)
Put(x) ==
  /\ task[x].pc = "put"
  /\ doc' = task[x].draft
  /\ versions' = versions \cup {task[x].draft}

Fault == faults < MaxFaults /\ faults' = faults + 1

-----------------------------------------------------------------------------
(***************************************************************************)
(* CloudFormation, and SQS: it has no redrive policy for this queue.       *)
(***************************************************************************)
Send(m) ==
  /\ mail[m].place = "unsent"
  /\ mail' = [mail EXCEPT ![m].place = "visible"]
  /\ UNCHANGED <<doc, versions, task, told, mute, spoilt, runs, faults>>

Expire(m) ==
  /\ mail[m].place = "invisible"
  /\ mail' = [mail EXCEPT ![m].place = "visible"]
  /\ UNCHANGED <<doc, versions, task, told, mute, spoilt, runs, faults>>

-----------------------------------------------------------------------------
(***************************************************************************)
(* handle_tenant_integration_queue.                                        *)
(***************************************************************************)
Batches == {s \in BoundedSeq({m \in Messages : mail[m].place = "visible"},
                             BatchSize) : s # <<>> /\ IsInjective(s)}

Receive(c) ==
  /\ task[c].pc \in {"idle", "poll"}
  /\ \E s \in Batches :
       /\ mail' = [m \in Messages |->
            IF Contains(s, m) THEN [mail[m] EXCEPT !.place = "invisible"]
            ELSE mail[m]]
       /\ task' = [task EXCEPT ![c].pc = "batch", ![c].batch = s]
  /\ UNCHANGED <<doc, versions, told, mute, spoilt, runs, faults>>

PollNothing(c) ==
  /\ task[c].pc = "poll"
  /\ task' = [task EXCEPT ![c] = Idle]
  /\ UNCHANGED <<mail, doc, versions, told, mute, spoilt, runs, faults>>

BreakAtLimit(c) ==
  /\ task[c].pc = "batch"
  /\ task[c].done = {}
  /\ task[c].count >= MaxMessages
  /\ task' = [task EXCEPT ![c] = Idle]
  /\ UNCHANGED <<mail, doc, versions, told, mute, spoilt, runs, faults>>

InBatch(c) ==
  /\ task[c].pc = "batch"
  /\ task[c].batch # <<>>
  /\ task[c].done # {} \/ task[c].count < MaxMessages

Current(c) == Head(task[c].batch)
Letters(c) == mail[Current(c)]

ProcessedByBatch(c) ==  \* a mistake: each message counts as what is left
  task' = [task EXCEPT ![c] =
    [Idle EXCEPT !.pc = "batch", !.batch = Tail(task[c].batch),
                 !.count = task[c].count + Len(task[c].batch),
                 !.done = task[c].done \cup {Current(c)}]]

Processed(c) ==
  task' = [task EXCEPT ![c] =
    [Idle EXCEPT !.pc = "batch", !.batch = Tail(task[c].batch),
                 !.count = task[c].count + 1,
                 !.done = task[c].done \cup {Current(c)}]]

(* return_cf_response, which swallows the errors of its connection. *)
Respond(c, status) ==
  \/ /\ told' = [told EXCEPT ![Current(c)] = @ \cup {status}]
     /\ UNCHANGED <<mute, faults>>
  \/ /\ Fault
     /\ mute' = mute \cup {Current(c)}
     /\ UNCHANGED told

Ignore(c) ==
  /\ InBatch(c)
  /\ Letters(c).kind = "unsupported"
  /\ Processed(c)
  /\ UNCHANGED <<mail, doc, versions, told, mute, spoilt, runs, faults>>

(* An update or deletion changes nothing, and is said to have succeeded. *)
RespondAtOnce(c) ==
  /\ InBatch(c)
  /\ \/ Letters(c).kind = "update" /\ Respond(c, "SUCCESS")
     \/ Letters(c).kind \in {"unknown", "stranger"} /\ Respond(c, "FAILED")
  /\ Processed(c)
  /\ UNCHANGED <<mail, doc, versions, spoilt, runs>>

(***************************************************************************)
(* handle_spoke_account_registration, handle_central_account_registration. *)
(* A spoke account needs a hub; the roles are tried three times.           *)
(***************************************************************************)
NoHub(c) ==
  /\ InBatch(c)
  /\ Letters(c).kind = "spoke"
  /\ \E d \in Readable : ~d.hub
  /\ Respond(c, "FAILED")
  /\ Processed(c)
  /\ UNCHANGED <<mail, doc, versions, spoilt, runs>>

Registrable(c) ==
  /\ InBatch(c)
  /\ \/ Letters(c).kind = "central"
     \/ Letters(c).kind = "spoke" /\ \E d \in Readable : d.hub

NotAssumable(c) ==
  /\ Registrable(c)
  /\ Respond(c, "FAILED")
  /\ Processed(c)
  /\ UNCHANGED <<mail, doc, versions, spoilt, runs>>

Accept(c) ==
  /\ Registrable(c)
  /\ task' = [task EXCEPT ![c].pc = "read",
       ![c].stage = IF Letters(c).kind = "central" THEN "hub" ELSE "spoke"]
  /\ UNCHANGED <<mail, doc, versions, told, mute, spoilt, runs, faults>>

ReadConfig(c) ==
  /\ task[c].pc = "read"
  /\ \E d \in Readable :
       Read(c, d, IF task[c].stage = "hub" THEN [d EXCEPT !.hub = TRUE]
                  ELSE [d EXCEPT !.spokes =
                          StoreEqual(@, Registered(Letters(c).account))])
  /\ UNCHANGED <<mail, doc, versions, told, mute, spoilt, runs, faults>>

StoreHubOnly(c) ==  \* a mistake: the hub account is not listed with the spokes
  LET own == IF task[c].stage = "hub" THEN Hub ELSE Letters(c).account IN
  /\ Put(c)
  /\ spoilt' = (spoilt \cup (IF doc = task[c].base THEN {} ELSE Dropped(c))) \ {own}
  /\ task' = [task EXCEPT ![c].pc = "answer", ![c].stage = "spoke",
                          ![c].base = NoDoc, ![c].draft = NoDoc]
  /\ UNCHANGED <<mail, told, mute, runs, faults>>

(* The hub account is written by itself, and then listed with the spokes. *)
StoreConfig(c) ==
  LET hub == task[c].stage = "hub" IN
  /\ Put(c)
  /\ spoilt' = (spoilt \cup (IF doc = task[c].base THEN {} ELSE Dropped(c)))
                 \ {IF hub THEN Hub ELSE Letters(c).account}
  /\ task' = [task EXCEPT ![c].pc = IF hub THEN "read" ELSE "answer",
                          ![c].stage = "spoke", ![c].base = NoDoc, ![c].draft = NoDoc]
  /\ UNCHANGED <<mail, told, mute, runs, faults>>

(* The answer, and the tasks that fill the caches of the new account. *)
Answer(c) ==
  /\ task[c].pc = "answer"
  /\ Respond(c, "SUCCESS")
  /\ Processed(c)
  /\ UNCHANGED <<mail, doc, versions, spoilt, runs>>

SkipMalformed(c) ==  \* a mistake: the exception is not raised again
  /\ InBatch(c)
  /\ Letters(c).kind = "malformed"
  /\ Processed(c)
  /\ UNCHANGED <<mail, doc, versions, told, mute, spoilt, runs, faults>>

(* An exception is raised again, and the run ends without deleting. *)
Malformed(c) ==
  /\ InBatch(c)
  /\ Letters(c).kind = "malformed"
  /\ task' = [task EXCEPT ![c] = Idle]
  /\ UNCHANGED <<mail, doc, versions, told, mute, spoilt, runs, faults>>

Raise(c) ==
  /\ task[c].pc # "idle"
  /\ Fault
  /\ task' = [task EXCEPT ![c] = Idle]
  /\ UNCHANGED <<mail, doc, versions, told, mute, spoilt, runs>>

DeleteAnswered(c) ==  \* a mistake: only what was answered is deleted
  /\ task[c].pc = "batch"
  /\ task[c].batch = <<>>
  /\ mail' = [m \in Messages |->
       IF m \in task[c].done /\ told[m] # {}
       THEN [mail[m] EXCEPT !.place = "deleted"] ELSE mail[m]]
  /\ task' = [task EXCEPT ![c].pc = "poll", ![c].done = {}]
  /\ UNCHANGED <<doc, versions, told, mute, spoilt, runs, faults>>

DeleteBatch(c) ==
  /\ task[c].pc = "batch"
  /\ task[c].batch = <<>>
  /\ mail' = [m \in Messages |->
       IF m \in task[c].done THEN [mail[m] EXCEPT !.place = "deleted"] ELSE mail[m]]
  /\ task' = [task EXCEPT ![c].pc = "poll", ![c].done = {}]
  /\ UNCHANGED <<doc, versions, told, mute, spoilt, runs, faults>>

-----------------------------------------------------------------------------
(***************************************************************************)
(* The accounts of an organization.  New ones are taken over once their    *)
(* role could be assumed (onboard_new_accounts_from_orgs); known ones are  *)
(* read from the copy and written back whole with what was found out       *)
(* (autodiscover_aws_org_accounts, sync_account_names_from_orgs).          *)
(***************************************************************************)
Start(x, entry) ==
  /\ task[x].pc = "idle"
  /\ runs < MaxRuns
  /\ runs' = runs + 1
  /\ task' = [task EXCEPT ![x].pc = "read", ![x].entry = {entry}]
  /\ UNCHANGED <<mail, doc, versions, told, mute, spoilt, faults>>

Onboard(y, a) ==
  /\ \E d \in Readable : d.hub
  /\ \E d \in Readable : Places(d.spokes, a) = {}
  /\ Start(y, Onboarded(a))

FindOut(y, a) ==
  \E d \in Readable :
    LET entry == d.spokes[FirstOf(d.spokes, a)]
    IN  /\ Places(d.spokes, a) # {}
        /\ ~entry.checked
        /\ Start(y, [entry EXCEPT !.checked = TRUE])

ReadForSync(y) ==
  /\ task[y].pc = "read"
  /\ \E d \in Readable, e \in task[y].entry :
       Read(y, d, [d EXCEPT !.spokes =
                     IF e.by = "sync" /\ ~e.checked THEN StoreEqual(@, e)
                     ELSE StoreByAccount(@, e)])
  /\ UNCHANGED <<mail, doc, versions, told, mute, spoilt, runs, faults>>

StoreOfSync(y) ==
  /\ Put(y)
  /\ spoilt' = spoilt \cup (IF doc = task[y].base THEN {} ELSE Dropped(y))
  /\ task' = [task EXCEPT ![y] = Idle]
  /\ UNCHANGED <<mail, told, mute, runs, faults>>

-----------------------------------------------------------------------------
(***************************************************************************)
(* The handlers of the settings page (api/handlers/model_handlers.py).     *)
(***************************************************************************)
Edit(x, base, draft) ==
  /\ base \in Readable
  /\ task[x].pc = "idle"
  /\ runs < MaxRuns
  /\ runs' = runs + 1
  /\ Read(x, base, draft)
  /\ UNCHANGED <<mail, doc, versions, told, mute, spoilt, faults>>

PostHub(x) == \E d \in Readable : Edit(x, d, [d EXCEPT !.hub = TRUE])
DeleteHub(x) == \E d \in Readable : d.hub /\ Edit(x, d, [d EXCEPT !.hub = FALSE])

PostSpoke(x, a, checked) ==
  \E d \in Readable :
    Edit(x, d, [d EXCEPT !.spokes = StoreByAccount(@,
                  [account |-> a, by |-> "admin", checked |-> checked])])

DeleteSpoke(x, a) ==
  \E d \in Readable : \E s \in Removals(d.spokes, a) :
    Edit(x, d, [d EXCEPT !.spokes = s])

StoreOfAdmin(x) ==
  /\ Put(x)
  /\ spoilt' = spoilt \cup Dropped(x)
  /\ task' = [task EXCEPT ![x] = Idle]
  /\ UNCHANGED <<mail, told, mute, runs, faults>>

-----------------------------------------------------------------------------
Work(c) ==
  \/ PollNothing(c) \/ BreakAtLimit(c) \/ Ignore(c) \/ RespondAtOnce(c)
  \/ NoHub(c) \/ NotAssumable(c) \/ Accept(c) \/ ReadConfig(c) \/ StoreConfig(c)
  \/ Answer(c) \/ Malformed(c) \/ DeleteBatch(c)

Next ==
  \/ \E m \in Messages : Send(m) \/ Expire(m)
  \/ \E c \in Consumers : Receive(c) \/ Work(c) \/ Raise(c)
  \/ \E y \in Syncs :
       \/ \E a \in Accounts : Onboard(y, a) \/ FindOut(y, a)
       \/ ReadForSync(y) \/ StoreOfSync(y)
  \/ \E x \in Admins :
       \/ PostHub(x) \/ DeleteHub(x) \/ StoreOfAdmin(x)
       \/ \E a \in Accounts :
            DeleteSpoke(x, a) \/ \E checked \in BOOLEAN : PostSpoke(x, a, checked)

Spec == Init /\ [][Next]_vars

(***************************************************************************)
(* The task is started every 15 seconds and each run goes on; SQS does not *)
(* withhold a visible message from every poll and lets invisible messages  *)
(* come back.  Nothing is assumed of syncs, admins and faults.             *)
(***************************************************************************)
Fairness ==
  /\ \A c \in Consumers : WF_vars(Work(c))
  /\ \A m \in Messages :
       /\ SF_vars(\E c \in Consumers : Receive(c) /\ mail'[m].place = "invisible")
       /\ WF_vars(Expire(m))

FairSpec == Spec /\ Fairness

-----------------------------------------------------------------------------
(***************************************************************************)
(* CloudFormation is told of a success only if the configuration has the   *)
(* account, and the hub if it is one, although two documents are written   *)
(* one after the other, messages are handled again, and others write the   *)
(* same document.  A part may be missing, though, that was lost since it   *)
(* was last written in one of two ways: an admin has removed it; or a      *)
(* write was made of an earlier document, or of none as the read had       *)
(* failed, and this may be a write of the same registration, whose second  *)
(* half then loses the hub that the first has put.  No write that was made *)
(* of the document it replaces loses any.                                  *)
(***************************************************************************)
AnsweredIsRegistered ==
  \A m \in Messages :
    "SUCCESS" \in told[m] =>
      /\ mail[m].kind \in {"spoke", "central"} =>
           mail[m].account \in spoilt \/ Has(doc, mail[m].account)
      /\ mail[m].kind = "central" => Hub \in spoilt \/ doc.hub

(***************************************************************************)
(* CloudFormation waits for an answer until the stack times out: no        *)
(* message it expects one to is deleted before it was sent one, whatever   *)
(* became of the rest of its batch.                                        *)
(***************************************************************************)
DeletedWasAnswered ==
  \A m \in Messages :
    mail[m].place = "deleted" /\ mail[m].kind # "unsupported" =>
      told[m] # {} \/ m \in mute

(***************************************************************************)
(* An account can be listed more than once, as those who add one compare   *)
(* whole entries and not accounts (config/models.py:100).  But no          *)
(* description of it is listed twice, and whatever is not the first entry  *)
(* was added by a registration or by a sync that takes the account over.   *)
(* So it is listed three times at most, as each of the two describes it in *)
(* one way here, however often messages are handled again, entries         *)
(* rewritten and stale documents written.                                  *)
(***************************************************************************)
Apart(s) ==
  \A i, j \in DOMAIN s : i < j /\ s[i].account = s[j].account =>
    /\ s[i] # s[j]
    /\ s[j] \in {Registered(s[j].account), Onboarded(s[j].account)}

EntriesAreApart == Apart(doc.spokes)

(***************************************************************************)
(* The inductive invariants behind the first two.  What a run holds of     *)
(* messages it is done with; what a writer's draft has of the document it  *)
(* has read; and how far a run has got with the account of its message.    *)
(***************************************************************************)
DoneInv ==
  /\ DeletedWasAnswered
  /\ \A x \in Actors : \A m \in task[x].done :
       mail[m].kind # "unsupported" => told[m] # {} \/ m \in mute

(* A part is in the document, or an admin or a write of another base took it. *)
Stands(p) == p \in spoilt \/ Has(doc, p)

DraftInv ==
  \A x \in Consumers \cup Syncs : task[x].pc = "put" =>
    \A p \in Parts : Has(task[x].base, p) => Has(task[x].draft, p)

Registering(c) ==
  LET hub == task[c].stage = "hub" IN
  /\ task[c].batch # <<>>
  /\ Letters(c).kind \in {"spoke", "central"}
  /\ hub => Letters(c).kind = "central" /\ task[c].pc # "answer"
  /\ ~hub /\ Letters(c).kind = "central" => Stands(Hub)
  /\ task[c].pc = "put" =>
       Has(task[c].draft, IF hub THEN Hub ELSE Letters(c).account)
  /\ task[c].pc = "answer" => Stands(Letters(c).account)

RegistryInv ==
  /\ AnsweredIsRegistered
  /\ DraftInv
  /\ \A c \in Consumers :
       task[c].pc \in {"read", "put", "answer"} => Registering(c)

(***************************************************************************)
(* The inductive invariant behind TypeOK and the third: a batch begins     *)
(* below the limit and is finished; the document was at no time other than *)
(* it is now in this; and a sync writes what it has looked into, or what   *)
(* it takes over.                                                          *)
(***************************************************************************)
Fit(x, me) ==
  /\ Len(me.batch) <= BatchSize
  /\ me.count < MaxMessages + BatchSize
  /\ me.done # {} => me.count + Len(me.batch) < MaxMessages + BatchSize
  /\ me.pc \in {"idle", "poll"} => me.done = {}
  /\ x \in Consumers /\ me.pc \in {"read", "put", "answer"} =>
       me.done # {} \/ me.count < MaxMessages
  /\ \A e \in me.entry : e.checked \/ e.by = "sync"
  /\ Apart(me.draft.spokes)

FitInv ==
  /\ \A d \in {doc} \cup versions : Apart(d.spokes)
  /\ \A x \in Actors : Fit(x, task[x])
  /\ runs \in 0 .. MaxRuns
  /\ faults \in 0 .. MaxFaults

(***************************************************************************)
(* Unless there is a message the loop cannot read, which may take others   *)
(* down with it for as long as it is in the queue, every message is dealt  *)
(* with in the end, although a batch that raises is done all over again.   *)
(***************************************************************************)
MessageIsSettled ==
  \A m \in Messages :
    (mail[m].place = "visible" /\ \A n \in Messages : mail[n].kind # "malformed")
      ~> mail[m].place = "deleted"
=============================================================================
