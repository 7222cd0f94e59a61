---------------------------- MODULE WebhookQueue ----------------------------
(***************************************************************************)
(* How a webhook of GitHub reaches the tenants of the SaaS.                *)
(*                                                                         *)
(* A lambda publishes every webhook of the Noq GitHub app to an SQS queue. *)
(* A Celery task, started every 15 seconds and retried when it raises,     *)
(* receives the messages in batches, finds the tenants that have linked    *)
(* the installation the message comes from, sends each of them a task, and *)
(* deletes the batch (common/github/webhook_event_buffer.py).  Several of  *)
(* these tasks, the consumers, may run at the same time.                   *)
(*                                                                         *)
(* SQS is external: a message that was received stays invisible for a      *)
(* while, comes back if nobody deletes it, and moves to the dead-letter    *)
(* queue when it has been received MaxReceiveCount times.  The entries of  *)
(* a delete batch fail one by one, those of an old receipt among them.     *)
(*                                                                         *)
(* The update_self_service_state task of a tenant is an event of module    *)
(* IambicRequest.                                                          *)
(***************************************************************************)
EXTENDS Naturals, Sequences, SequencesExt

CONSTANTS
  Messages,         \* ids of webhook messages
  Kinds,            \* the kinds of webhooks considered, among AllKinds
  Installations,    \* installations of the GitHub app
  Tenants,
  Consumers,        \* runs of handle_github_webhook_integration_queue
  NoInstallation,
  BatchSize,        \* MaxNumberOfMessages of receive_message
  MaxMessages,      \* max_num_messages_to_process
  MaxReceiveCount,  \* maxReceiveCount of the redrive policy
  MaxLinks          \* bound: how often tenants link and unlink

AllKinds == {"pull",       \* a pull request was closed or approved
             "push",       \* a branch was pushed
             "deleted",    \* the webhook was deleted on GitHub
             "other",      \* an event the handler ignores
             "malformed"}  \* a message iterate_event_messages rejects

ASSUME KindsAssumption == Kinds \subseteq AllKinds
ASSUME InstallationsAssumption == NoInstallation \notin Installations
ASSUME LimitsAssumption ==
  /\ {BatchSize, MaxMessages, MaxReceiveCount} \subseteq Nat \ {0}
  /\ MaxLinks \in Nat

VARIABLES
  mail,       \* the queue: what became of each message
  installs,   \* the github_installs table, a row at most per tenant
  links,      \* how many times tenants linked or unlinked, which numbers rows
  consumer,   \* what each consumer holds in memory
  told,       \* per message, the tenants a task was sent for
  outcome,    \* history: how the attempts to handle each message ended
  ever,       \* history: the tenants linked at some time since it was sent
  since       \* history: the tenants linked all the time since it was sent

vars == <<mail, installs, links, consumer, told, outcome, ever, since>>

Places == {"unsent", "visible", "invisible", "deleted", "dead"}
Letter == [place : Places, kind : AllKinds, from : Installations,
           receives : 0 .. MaxReceiveCount]
Link == [installation : Installations \cup {NoInstallation},
         id : 0 .. MaxLinks]

Idle == [pc |-> "idle", batch |-> <<>>, done |-> {}, count |-> 0,
         tenants |-> {}, rows |-> {}]

Memory == [pc : {"idle", "batch", "unlink", "tell", "poll"},
           batch : BoundedSeq(Messages, BatchSize), done : SUBSET Messages,
           count : 0 .. MaxMessages + BatchSize - 1, tenants : SUBSET Tenants,
           rows : SUBSET (Tenants \X (0 .. MaxLinks))]

TypeOK ==
  /\ mail \in [Messages -> Letter]
  /\ installs \in [Tenants -> Link]
  /\ links \in 0 .. MaxLinks
  /\ consumer \in [Consumers -> Memory]
  /\ told \in [Messages -> SUBSET Tenants]
  /\ outcome \in [Messages -> SUBSET {"handled", "failed"}]
  /\ ever \in [Messages -> SUBSET Tenants]
  /\ since \in [Messages -> SUBSET Tenants]

Init ==
  /\ mail \in [Messages -> {[place |-> "unsent", kind |-> k, from |-> i,
                             receives |-> 0] : k \in Kinds, i \in Installations}]
  /\ installs = [t \in Tenants |-> [installation |-> NoInstallation, id |-> 0]]
  /\ links = 0
  /\ consumer = [c \in Consumers |-> Idle]
  /\ told = [m \in Messages |-> {}]
  /\ outcome = [m \in Messages |-> {}]
  /\ ever = [m \in Messages |-> {}]
  /\ since = [m \in Messages |-> {}]

Linked(i) == {t \in Tenants : installs[t].installation = i}

-----------------------------------------------------------------------------
(* SQS and the lambda that publishes to it. *)
Send(m) ==
  /\ mail[m].place = "unsent"
  /\ mail' = [mail EXCEPT ![m].place = "visible"]
  /\ ever' = [ever EXCEPT ![m] = Linked(mail[m].from)]
  /\ since' = [since EXCEPT ![m] = Linked(mail[m].from)]
  /\ UNCHANGED <<installs, links, consumer, told, outcome>>

Receivable(m) ==
  mail[m].place = "visible" /\ mail[m].receives < MaxReceiveCount

Expire(m) ==
  /\ mail[m].place = "invisible"
  /\ mail' = [mail EXCEPT ![m].place = "visible"]
  /\ UNCHANGED <<installs, links, consumer, told, outcome, ever, since>>

RedriveLater(m) ==  \* a mistake: the policy allows one receive more
  /\ mail[m].place = "visible"
  /\ mail[m].receives > MaxReceiveCount
  /\ mail' = [mail EXCEPT ![m].place = "dead"]
  /\ UNCHANGED <<installs, links, consumer, told, outcome, ever, since>>

Redrive(m) ==
  /\ mail[m].place = "visible"
  /\ mail[m].receives = MaxReceiveCount
  /\ mail' = [mail EXCEPT ![m].place = "dead"]
  /\ UNCHANGED <<installs, links, consumer, told, outcome, ever, since>>

-----------------------------------------------------------------------------
(***************************************************************************)
(* GitHubInstall.create, which writes over the row of a tenant that has    *)
(* one already, and GitHubInstall.delete from the settings of the tenant.  *)
(***************************************************************************)
LinkTenant(t, i) ==
  /\ links < MaxLinks
  /\ links' = links + 1
  /\ installs' = [installs EXCEPT ![t] =
       [installation |-> i,
        id |-> IF @.installation = NoInstallation THEN links + 1 ELSE @.id]]
  /\ ever' = [m \in Messages |->
       IF mail[m].place # "unsent" /\ mail[m].from = i THEN ever[m] \cup {t}
       ELSE ever[m]]
  /\ since' = [m \in Messages |->
       IF mail[m].from = i THEN since[m] ELSE since[m] \ {t}]
  /\ UNCHANGED <<mail, consumer, told, outcome>>

UnlinkTenant(t) ==
  /\ links < MaxLinks
  /\ links' = links + 1
  /\ installs[t].installation # NoInstallation
  /\ installs' = [installs EXCEPT ![t] =
                    [installation |-> NoInstallation, id |-> 0]]
  /\ since' = [m \in Messages |-> since[m] \ {t}]
  /\ UNCHANGED <<mail, consumer, told, outcome, ever>>

-----------------------------------------------------------------------------
(***************************************************************************)
(* receive_message, at the start of a run and after each batch.  A short   *)
(* poll may find nothing at all, upon which the run ends.                  *)
(***************************************************************************)
Batches == {s \in BoundedSeq({m \in Messages : Receivable(m)}, BatchSize) :
              s # <<>> /\ IsInjective(s)}

Receive(c) ==
  /\ consumer[c].pc \in {"idle", "poll"}
  /\ \E s \in Batches :
       /\ mail' = [m \in Messages |->
            IF m \in Range(s)
            THEN [mail[m] EXCEPT !.place = "invisible", !.receives = @ + 1]
            ELSE mail[m]]
       /\ consumer' = [consumer EXCEPT ![c].pc = "batch", ![c].batch = s]
  /\ UNCHANGED <<installs, links, told, outcome, ever, since>>

PollNothing(c) ==
  /\ consumer[c].pc = "poll"
  /\ consumer' = [consumer EXCEPT ![c] = Idle]
  /\ UNCHANGED <<mail, installs, links, told, outcome, ever, since>>

(* The limit is tested when the next batch is already received. *)
BreakAtLimit(c) ==
  /\ consumer[c].pc = "batch"
  /\ consumer[c].done = {}
  /\ consumer[c].count >= MaxMessages
  /\ consumer' = [consumer EXCEPT ![c] = Idle]
  /\ UNCHANGED <<mail, installs, links, told, outcome, ever, since>>

InBatchUnlimited(c) ==  \* a mistake: the limit is forgotten
  consumer[c].pc = "batch" /\ consumer[c].batch # <<>>

InBatch(c) ==
  /\ consumer[c].pc = "batch"
  /\ consumer[c].batch # <<>>
  /\ consumer[c].done # {} \/ consumer[c].count < MaxMessages

Current(c) == Head(consumer[c].batch)

(* Whatever happened to a message, the finally clause puts it on the list  *)
(* of those to delete, and the loop goes on with the next one.             *)
Processed(c, me) ==
  consumer' = [consumer EXCEPT ![c] =
    [me EXCEPT !.pc = "batch", !.batch = Tail(@), !.done = @ \cup {Head(me.batch)},
               !.tenants = {}, !.rows = {}]]

Ended(m, how) == outcome' = [outcome EXCEPT ![m] = @ \cup {how}]

MalformedSkipped(c) ==  \* a mistake: the iterator passes over the message
  /\ InBatch(c)
  /\ mail[Current(c)].kind = "malformed"
  /\ Processed(c, consumer[c])
  /\ UNCHANGED <<mail, installs, links, told, outcome, ever, since>>

(* iterate_event_messages raises, outside the try: the run ends there. *)
Malformed(c) ==
  /\ InBatch(c)
  /\ mail[Current(c)].kind = "malformed"
  /\ consumer' = [consumer EXCEPT ![c] = Idle]
  /\ UNCHANGED <<mail, installs, links, told, outcome, ever, since>>

(***************************************************************************)
(* webhook_request_handler, to what it finds in github_installs.           *)
(***************************************************************************)
LookupAny(c) ==  \* a mistake: the installation is not compared
  LET m == Current(c)
  IN /\ InBatch(c)
     /\ mail[m].kind \in {"pull", "push"}
     /\ consumer' = [consumer EXCEPT ![c].pc = "tell", ![c].count = @ + 1,
          ![c].tenants = {t \in Tenants : installs[t].installation # NoInstallation}]
     /\ UNCHANGED <<mail, installs, links, told, outcome, ever, since>>

Lookup(c) ==
  LET m == Current(c)
      found == Linked(mail[m].from)
      me == [consumer[c] EXCEPT !.count = @ + 1]
  IN /\ InBatch(c)
     /\ mail[m].kind # "malformed"
     /\ IF found = {} \/ mail[m].kind = "other"
        THEN Processed(c, me) /\ Ended(m, "handled")
        ELSE /\ consumer' = [consumer EXCEPT ![c] =
                  IF mail[m].kind = "deleted"
                  THEN [me EXCEPT !.pc = "unlink",
                          !.rows = {<<t, installs[t].id>> : t \in found}]
                  ELSE [me EXCEPT !.pc = "tell", !.tenants = found]]
             /\ UNCHANGED outcome
     /\ UNCHANGED <<mail, installs, links, told, ever, since>>

(* The handler returns in the loop, after the first row it deletes.  The   *)
(* row is deleted by its id, whatever installation it names by now.        *)
Unlink(c) ==
  /\ consumer[c].pc = "unlink"
  /\ \E x \in consumer[c].rows :
       IF installs[x[1]].id = x[2]
       THEN /\ installs' = [installs EXCEPT ![x[1]] =
                              [installation |-> NoInstallation, id |-> 0]]
            /\ since' = [m \in Messages |-> since[m] \ {x[1]}]
       ELSE UNCHANGED <<installs, since>>
  /\ Processed(c, consumer[c])
  /\ Ended(Current(c), "handled")
  /\ UNCHANGED <<mail, links, told, ever>>

(***************************************************************************)
(* github_event_handler for one tenant after the other.  Of a push, only   *)
(* the tenants whose repository and default branch it names are told,      *)
(* which this model leaves open.                                           *)
(***************************************************************************)
TellOne(c) ==  \* a mistake: the loop ends with the first tenant
  /\ consumer[c].pc = "tell"
  /\ \E t \in consumer[c].tenants :
       told' = [told EXCEPT ![Current(c)] = @ \cup {t}]
  /\ Processed(c, consumer[c])
  /\ Ended(Current(c), "handled")
  /\ UNCHANGED <<mail, installs, links, ever, since>>

Tell(c) ==
  LET m == Current(c)
  IN /\ consumer[c].pc = "tell"
     /\ \E t \in consumer[c].tenants :
          /\ \/ told' = [told EXCEPT ![m] = @ \cup {t}]
             \/ mail[m].kind = "push" /\ UNCHANGED told
          /\ IF consumer[c].tenants = {t}
             THEN Processed(c, consumer[c]) /\ Ended(m, "handled")
             ELSE /\ consumer' = [consumer EXCEPT ![c].tenants = @ \ {t}]
                  /\ UNCHANGED outcome
     /\ UNCHANGED <<mail, installs, links, ever, since>>

(* The database, a tenant's settings or the task broker fail the handler.  *)
FailLookup(c) ==
  /\ InBatch(c)
  /\ mail[Current(c)].kind # "malformed"
  /\ Processed(c, [consumer[c] EXCEPT !.count = @ + 1])
  /\ Ended(Current(c), "failed")
  /\ UNCHANGED <<mail, installs, links, told, ever, since>>

FailHandler(c) ==
  /\ consumer[c].pc \in {"unlink", "tell"}
  /\ Processed(c, consumer[c])
  /\ Ended(Current(c), "failed")
  /\ UNCHANGED <<mail, installs, links, told, ever, since>>

(***************************************************************************)
(* delete_message_batch, whose answer nobody reads.                        *)
(***************************************************************************)
DeleteBatch(c) ==
  /\ consumer[c].pc = "batch"
  /\ consumer[c].batch = <<>>
  /\ \E gone \in SUBSET consumer[c].done :
       mail' = [m \in Messages |->
         IF m \in gone /\ mail[m].place \in {"visible", "invisible"}
         THEN [mail[m] EXCEPT !.place = "deleted"] ELSE mail[m]]
  /\ consumer' = [consumer EXCEPT ![c].pc = "poll", ![c].done = {}]
  /\ UNCHANGED <<installs, links, told, outcome, ever, since>>

(* The task is killed, or delete_message_batch or receive_message raises.  *)
Crash(c) ==
  /\ consumer[c].pc # "idle"
  /\ consumer' = [consumer EXCEPT ![c] = Idle]
  /\ UNCHANGED <<mail, installs, links, told, outcome, ever, since>>

-----------------------------------------------------------------------------
Work(c) ==
  \/ BreakAtLimit(c) \/ Malformed(c)
  \/ Lookup(c) \/ Unlink(c) \/ Tell(c) \/ FailLookup(c) \/ FailHandler(c)
  \/ DeleteBatch(c) \/ PollNothing(c)

Next ==
  \/ \E m \in Messages : Send(m) \/ Expire(m) \/ Redrive(m)
  \/ \E t \in Tenants : UnlinkTenant(t) \/ \E i \in Installations : LinkTenant(t, i)
  \/ \E c \in Consumers : Receive(c) \/ Work(c) \/ Crash(c)

Spec == Init /\ [][Next]_vars

-----------------------------------------------------------------------------
(***************************************************************************)
(* A message is deleted only if the handler was run on it, even when runs  *)
(* overlap, end early, or take the same message from each other (the loop  *)
(* of handle_github_webhook_event_queue around its delete batch).          *)
(***************************************************************************)
DeletedWasAttempted ==
  \A m \in Messages : mail[m].place = "deleted" => outcome[m] # {}

(***************************************************************************)
(* Once a closing or an approval was handled without an error, every       *)
(* tenant that stayed linked to its installation has been sent a task,     *)
(* although the links are read before an await and change meanwhile.       *)
(***************************************************************************)
ToldAllWhoStayed ==
  \A m \in Messages :
    "handled" \in outcome[m] /\ mail[m].kind = "pull" => since[m] \subseteq told[m]

(***************************************************************************)
(* A tenant is told of a webhook only if it was linked to the installation *)
(* the webhook comes from, at some time since it was sent: nobody hears of *)
(* the repositories of another tenant.                                     *)
(***************************************************************************)
ToldOnlyLinked == \A m \in Messages : told[m] \subseteq ever[m]

(***************************************************************************)
(* The inductive invariant behind the three and the bound of the count.    *)
(* What a run holds stays true of messages that other runs handle at the   *)
(* same time and of tenants that link and unlink: whom it still has to     *)
(* tell was linked, and who stayed is told or still to be told.            *)
(***************************************************************************)
ToTell(me) ==
  LET m == Head(me.batch)
  IN  /\ me.tenants \subseteq ever[m]
      /\ mail[m].kind = "pull" => since[m] \subseteq told[m] \cup me.tenants

Sound(me) ==
  /\ me.pc \in {"unlink", "tell"} => me.batch # <<>>
  /\ me.pc \in {"idle", "poll"} => me.done = {}
  /\ \A m \in Range(me.batch) : mail[m].place # "unsent"
  /\ \A m \in me.done : outcome[m] # {}
  /\ me.pc = "unlink" => mail[Head(me.batch)].kind = "deleted"
  /\ me.pc = "tell" => ToTell(me)
  /\ me.pc = "batch" /\ me.done # {} =>
       me.count + Len(me.batch) < MaxMessages + BatchSize
  /\ me.pc \in {"unlink", "tell"} =>
       me.count + Len(me.batch) <= MaxMessages + BatchSize

LinkInv ==
  \A m \in Messages :
    IF mail[m].place = "unsent" THEN outcome[m] = {} /\ told[m] = {}
    ELSE since[m] \subseteq Linked(mail[m].from)
         /\ Linked(mail[m].from) \subseteq ever[m]

QueueInv ==
  /\ TypeOK /\ LinkInv
  /\ \A c \in Consumers : Sound(consumer[c])
  /\ DeletedWasAttempted /\ ToldAllWhoStayed /\ ToldOnlyLinked

(***************************************************************************)
(* The task is started again every 15 seconds and each run goes on; SQS    *)
(* does not withhold a visible message from every poll, lets invisible     *)
(* messages come back, and applies its redrive policy.                     *)
(***************************************************************************)
Fairness ==
  /\ \A c \in Consumers : WF_vars(Work(c))
  /\ \A m \in Messages :
       /\ SF_vars(\E c \in Consumers : Receive(c) /\ mail'[m].place = "invisible")
       /\ WF_vars(Expire(m))
       /\ WF_vars(Redrive(m))

FairSpec == Spec /\ Fairness

(***************************************************************************)
(* No webhook stays in the queue for ever, whatever malformed messages,    *)
(* crashes and failing deletes it meets: it is deleted, or ends up in the  *)
(* dead-letter queue.                                                      *)
(***************************************************************************)
WebhookIsSettled ==
  \A m \in Messages :
    mail[m].place = "visible" ~> mail[m].place \in {"deleted", "dead"}
=============================================================================
