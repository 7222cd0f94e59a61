------------------------- MODULE WebhookQueueProofs -------------------------
(***************************************************************************)
(* Proofs about WebhookQueue, for any messages, installations, tenants and *)
(* overlapping runs, and every size and limit.                             *)
(***************************************************************************)
EXTENDS WebhookQueue, TLAPS

-----------------------------------------------------------------------------
(* Sequences of bounded length, and what is left of one. *)
LEMMA BoundedSeqs ==
  ASSUME NEW S, NEW n \in Nat, NEW s
  PROVE  s \in BoundedSeq(S, n) <=> s \in Seq(S) /\ Len(s) <= n
<1>1. ASSUME s \in BoundedSeq(S, n) PROVE s \in Seq(S) /\ Len(s) <= n
  <2>1. PICK k \in 0 .. n : s \in [1 .. k -> S]
    BY <1>1 DEF BoundedSeq, SeqOf
  <2> QED BY <2>1
<1>2. ASSUME s \in Seq(S), Len(s) <= n PROVE s \in BoundedSeq(S, n)
  <2>1. Len(s) \in 0 .. n /\ s \in [1 .. Len(s) -> S]
    BY <1>2
  <2> QED BY <2>1 DEF BoundedSeq, SeqOf
<1> QED BY <1>1, <1>2

(* The first of a sequence, and the rest. *)
LEMMA HeadAndTail ==
  ASSUME NEW S, NEW s \in Seq(S), s # <<>>
  PROVE  /\ Head(s) \in S /\ Head(s) \in Range(s)
         /\ Tail(s) \in Seq(S) /\ Len(Tail(s)) = Len(s) - 1
         /\ Range(Tail(s)) \subseteq Range(s) /\ Range(s) \subseteq S
<1>1. Len(s) \in Nat \ {0} /\ Head(s) = s[1] /\ 1 \in DOMAIN s
  OBVIOUS
<1>2. /\ Tail(s) \in Seq(S) /\ Len(Tail(s)) = Len(s) - 1
      /\ \A i \in 1 .. Len(s) - 1 : Tail(s)[i] = s[i + 1]
  BY <1>1
<1>3. Range(Tail(s)) \subseteq Range(s)
  <2> SUFFICES ASSUME NEW i \in DOMAIN Tail(s) PROVE Tail(s)[i] \in Range(s)
    BY DEF Range
  <2>1. i \in 1 .. Len(s) - 1 /\ i + 1 \in DOMAIN s
    BY <1>1, <1>2
  <2> QED BY <1>2, <2>1 DEF Range
<1>4. Range(s) \subseteq S /\ s[1] \in Range(s)
  BY <1>1 DEF Range
<1> QED BY <1>1, <1>2, <1>3, <1>4

-----------------------------------------------------------------------------
(***************************************************************************)
(* What is known of messages stays so: they keep their kind and their      *)
(* installation, are not unsent, and the history of one that was sent only *)
(* grows, but for the tenants that leave.                                  *)
(***************************************************************************)
Onward ==
  \A m \in Messages :
    /\ mail'[m].kind = mail[m].kind /\ mail'[m].from = mail[m].from
    /\ mail[m].place # "unsent" =>
         /\ mail'[m].place # "unsent"
         /\ ever[m] \subseteq ever'[m] /\ since'[m] \subseteq since[m]
    /\ outcome[m] \subseteq outcome'[m] /\ told[m] \subseteq told'[m]

(* The batch of a run is a sequence of messages. *)
LEMMA MemoryParts ==
  ASSUME NEW me \in Memory
  PROVE  /\ me.batch \in Seq(Messages) /\ Len(me.batch) <= BatchSize
         /\ me.count \in Nat /\ Range(me.batch) \subseteq Messages
         /\ me.batch # <<>> => /\ Head(me.batch) \in Messages
                               /\ Head(me.batch) \in Range(me.batch)
<1>1. me.batch \in BoundedSeq(Messages, BatchSize) /\ me.count \in Nat
      /\ BatchSize \in Nat
  BY LimitsAssumption DEF Memory
<1>2. me.batch \in Seq(Messages) /\ Len(me.batch) <= BatchSize
  BY <1>1, BoundedSeqs
<1>3. Range(me.batch) \subseteq Messages
  BY <1>2 DEF Range
<1> QED BY <1>1, <1>2, <1>3, HeadAndTail

(* So what a run holds stays sound whatever others do. *)
LEMMA SoundStays ==
  ASSUME Onward, NEW me \in Memory, Sound(me)
  PROVE  Sound(me)'
<1> DEFINE m == Head(me.batch)
<1>1. \A n \in Range(me.batch) : mail'[n].place # "unsent"
  BY MemoryParts DEF Onward, Sound
<1>2. \A n \in me.done : outcome'[n] # {}
  <2>1. me.done \subseteq Messages
    BY DEF Memory
  <2> QED BY <2>1 DEF Onward, Sound
<1>3. me.batch # <<>> => m \in Messages /\ mail[m].place # "unsent"
  BY MemoryParts DEF Sound
<1>4. me.pc = "unlink" => mail'[m].kind = "deleted"
  BY <1>3 DEF Onward, Sound
<1>5. me.pc = "tell" => ToTell(me)'
  BY <1>3 DEF Onward, Sound, ToTell
<1> QED BY <1>1, <1>2, <1>4, <1>5 DEF Sound

-----------------------------------------------------------------------------
(***************************************************************************)
(* Every step changes the memory of one run at most: it preserves the      *)
(* invariant if what that run holds next is sound, and the tables keep     *)
(* their types and what links the history to them.                         *)
(***************************************************************************)
Tables ==
  /\ mail \in [Messages -> Letter]
  /\ installs \in [Tenants -> Link]
  /\ links \in 0 .. MaxLinks
  /\ told \in [Messages -> SUBSET Tenants]
  /\ outcome \in [Messages -> SUBSET {"handled", "failed"}]
  /\ ever \in [Messages -> SUBSET Tenants]
  /\ since \in [Messages -> SUBSET Tenants]

Told == DeletedWasAttempted /\ ToldAllWhoStayed /\ ToldOnlyLinked

(* A step that changes no run. *)
LEMMA OthersStep ==
  ASSUME QueueInv, Onward, consumer' = consumer,
         Tables', LinkInv', Told'
  PROVE  QueueInv'
<1>1. \A c \in Consumers : consumer[c] \in Memory /\ Sound(consumer[c])
  BY DEF QueueInv, TypeOK
<1>2. ASSUME NEW c \in Consumers PROVE Sound(consumer[c])'
  <2>1. PICK me : me = consumer[c]
    OBVIOUS
  <2>2. Sound(me)'
    BY <1>1, <2>1, SoundStays
  <2> QED BY <2>1, <2>2 DEF Sound, ToTell
<1>3. TypeOK'
  BY DEF QueueInv, TypeOK, Tables
<1> QED BY <1>2, <1>3 DEF QueueInv, Told

(* A step that changes one run. *)
LEMMA ConsumerStep ==
  ASSUME QueueInv, Onward, NEW c \in Consumers, NEW n \in Memory,
         consumer' = [consumer EXCEPT ![c] = n], Sound(n)',
         Tables', LinkInv', Told'
  PROVE  QueueInv'
<1>1. \A d \in Consumers : consumer[d] \in Memory /\ Sound(consumer[d])
  BY DEF QueueInv, TypeOK
<1>2. consumer \in [Consumers -> Memory]
  BY DEF QueueInv, TypeOK
<1>3. ASSUME NEW d \in Consumers PROVE Sound(consumer[d])'
  <2>1. PICK me : me = consumer'[d]
    OBVIOUS
  <2>2. CASE d = c
    <3>1. me = n
      BY <1>2, <2>1, <2>2
    <3> QED BY <2>1, <3>1 DEF Sound, ToTell
  <2>3. CASE d # c
    <3>1. me = consumer[d]
      BY <1>2, <2>1, <2>3
    <3>2. Sound(me)'
      BY <1>1, <3>1, SoundStays
    <3> QED BY <2>1, <3>2 DEF Sound, ToTell
  <2> QED BY <2>2, <2>3
<1>4. TypeOK'
  BY <1>2 DEF TypeOK, Tables
<1> QED BY <1>3, <1>4 DEF QueueInv, Told

(* A step of a run by itself, which leaves all the tables alone. *)
LEMMA LocalStep ==
  ASSUME QueueInv, NEW c \in Consumers, NEW n \in Memory,
         consumer' = [consumer EXCEPT ![c] = n], Sound(n),
         UNCHANGED <<mail, installs, links, told, outcome, ever, since>>
  PROVE  QueueInv'
<1>1. Onward
  BY DEF Onward
<1>2. Sound(n)'
  BY DEF Sound, ToTell
<1>3. Tables' /\ LinkInv' /\ Told'
  BY DEF QueueInv, TypeOK, Tables, LinkInv, Linked, Told,
         DeletedWasAttempted, ToldAllWhoStayed, ToldOnlyLinked
<1> QED BY <1>1, <1>2, <1>3, ConsumerStep

(* A run that is over holds nothing. *)
LEMMA IdleIsSound == Idle \in Memory /\ Sound(Idle)
<1>1. <<>> \in BoundedSeq(Messages, BatchSize)
  <2>1. BatchSize \in Nat
    BY LimitsAssumption
  <2>2. <<>> \in Seq(Messages) /\ Len(<<>>) = 0
    OBVIOUS
  <2>3. Len(<<>>) <= BatchSize
    BY <2>1, <2>2
  <2> QED BY <2>1, <2>2, <2>3, BoundedSeqs
<1>2. 0 \in 0 .. MaxMessages + BatchSize - 1
  BY LimitsAssumption
<1>3. Range(<<>>) = {}
  BY DEF Range
<1> QED BY <1>1, <1>2, <1>3 DEF Idle, Memory, Sound

(***************************************************************************)
(* The next message was processed, whatever came of it: the run goes on    *)
(* with the rest of its batch.                                             *)
(***************************************************************************)
AfterHead(me) ==
  [me EXCEPT !.pc = "batch", !.batch = Tail(@), !.done = @ \cup {Head(me.batch)},
             !.tenants = {}, !.rows = {}]

(* What the run holds then is sound. *)
LEMMA ProcessedSound ==
  ASSUME Onward, NEW me, me \in Memory, me.batch # <<>>,
         me.count + Len(me.batch) <= MaxMessages + BatchSize,
         \A m \in Range(me.batch) : mail[m].place # "unsent",
         \A m \in me.done : outcome[m] # {},
         outcome'[Head(me.batch)] # {}
  PROVE  \E n \in Memory : n = AfterHead(me) /\ Sound(n)'
<1>1. PICK n : n = AfterHead(me)
  OBVIOUS
<1>2. /\ n.pc = "batch" /\ n.batch = Tail(me.batch)
      /\ n.done = me.done \cup {Head(me.batch)} /\ n.count = me.count
      /\ n.tenants = {} /\ n.rows = {}
  BY <1>1 DEF AfterHead, Memory
<1>3. /\ me.batch \in Seq(Messages) /\ Len(me.batch) <= BatchSize
      /\ me.count \in Nat /\ Head(me.batch) \in Messages
      /\ Range(me.batch) \subseteq Messages
  BY MemoryParts
<1>4. /\ Tail(me.batch) \in Seq(Messages)
      /\ Len(Tail(me.batch)) = Len(me.batch) - 1 /\ Len(me.batch) \in Nat \ {0}
      /\ Range(Tail(me.batch)) \subseteq Range(me.batch)
  BY <1>3, HeadAndTail
<1>5. n.batch \in BoundedSeq(Messages, BatchSize)
  <2>1. BatchSize \in Nat
    BY LimitsAssumption
  <2>2. Len(me.batch) \in Nat /\ Len(me.batch) - 1 <= BatchSize
    BY <1>3, <1>4, <2>1
  <2>3. n.batch \in Seq(Messages) /\ Len(n.batch) <= BatchSize
    BY <1>2, <1>4, <2>2
  <2> QED BY <2>1, <2>3, BoundedSeqs
<1>6. n.count \in 0 .. MaxMessages + BatchSize - 1
      /\ n.count + Len(n.batch) < MaxMessages + BatchSize
  BY <1>2, <1>3, <1>4, LimitsAssumption
<1>7. n \in Memory
  <2>1. n.done \in SUBSET Messages
    BY <1>2, <1>3 DEF Memory
  <2>2. n = [pc |-> "batch", batch |-> n.batch, done |-> n.done,
             count |-> n.count, tenants |-> {}, rows |-> {}]
    BY <1>1, <1>2 DEF AfterHead, Memory
  <2> QED BY <1>5, <1>6, <2>1, <2>2 DEF Memory
<1>8. \A m \in Range(n.batch) : mail'[m].place # "unsent"
  BY <1>2, <1>3, <1>4 DEF Onward
<1>9. \A m \in n.done : outcome'[m] # {}
  <2>1. me.done \subseteq Messages
    BY DEF Memory
  <2> QED BY <1>2, <2>1 DEF Onward
<1>10. Sound(n)'
  BY <1>2, <1>6, <1>8, <1>9 DEF Sound
<1> QED BY <1>1, <1>7, <1>10

-----------------------------------------------------------------------------
(* What QueueInv says of the tables, without the runs. *)
LEMMA TablesOf ==
  ASSUME QueueInv
  PROVE  Tables /\ LinkInv /\ DeletedWasAttempted /\ ToldAllWhoStayed
         /\ ToldOnlyLinked
BY DEF QueueInv, TypeOK, Tables

(* What SQS does by itself. *)
LEMMA SendStep ==
  ASSUME QueueInv, NEW m \in Messages, Send(m)
  PROVE  QueueInv'
<1> USE TablesOf
<1>1. Onward
  BY DEF Onward, Send, Tables, Letter, LinkInv
<1>2. Tables'
  <2>1. mail' \in [Messages -> Letter]
    BY DEF Send, Tables, Letter, Places
  <2>2. \A i : Linked(i) \subseteq Tenants
    BY DEF Linked
  <2> QED BY <2>1, <2>2 DEF Send, Tables
<1>3. ASSUME NEW x \in Messages
      PROVE  IF mail'[x].place = "unsent" THEN outcome'[x] = {} /\ told'[x] = {}
             ELSE since'[x] \subseteq Linked(mail[x].from)'
                  /\ Linked(mail[x].from)' \subseteq ever'[x]
  <2>1. \A i : Linked(i)' = Linked(i)
    BY DEF Send, Linked
  <2>2. /\ mail'[x].from = mail[x].from /\ outcome' = outcome /\ told' = told
        /\ x # m => /\ mail'[x] = mail[x] /\ since'[x] = since[x]
                    /\ ever'[x] = ever[x]
        /\ x = m => /\ mail'[x].place = "visible" /\ since'[x] = Linked(mail[x].from)
                    /\ ever'[x] = Linked(mail[x].from)
    BY DEF Send, Tables, Letter
  <2>3. IF mail[x].place = "unsent" THEN outcome[x] = {} /\ told[x] = {}
        ELSE since[x] \subseteq Linked(mail[x].from)
             /\ Linked(mail[x].from) \subseteq ever[x]
    BY DEF LinkInv
  <2>4. Linked(mail[x].from)' = Linked(mail[x].from)
    BY <2>2 DEF Send, Linked
  <2> QED BY <2>2, <2>3, <2>4
<1>4. LinkInv'
  BY <1>3 DEF LinkInv, Linked
<1>5. Told'
  <2>1. outcome[m] = {} /\ told[m] = {}
    BY DEF Send, LinkInv
  <2>2. mail' = [mail EXCEPT ![m].place = "visible"] /\ outcome' = outcome
        /\ told' = told
        /\ \A x \in Messages \ {m} : since'[x] = since[x] /\ ever'[x] = ever[x]
    BY DEF Send, Tables
  <2>3. \A x \in Messages : mail'[x].kind = mail[x].kind
          /\ (x # m => mail'[x] = mail[x]) /\ mail'[m].place = "visible"
    BY <2>2 DEF Tables, Letter
  <2> QED BY <2>1, <2>2, <2>3 DEF Told, DeletedWasAttempted, ToldAllWhoStayed,
                                 ToldOnlyLinked
<1> QED BY <1>1, <1>2, <1>4, <1>5, OthersStep DEF Send

(***************************************************************************)
(* A step that moves sent messages from one place to another, and changes  *)
(* nothing else but the memory of a run.                                   *)
(***************************************************************************)
Moved ==
  /\ mail' \in [Messages -> Letter]
  /\ \A m \in Messages :
       /\ mail'[m].kind = mail[m].kind /\ mail'[m].from = mail[m].from
       /\ (mail'[m].place = "unsent") = (mail[m].place = "unsent")
       /\ mail'[m].place = "deleted" => outcome[m] # {}
  /\ UNCHANGED <<installs, links, told, outcome, ever, since>>

(* Such a step keeps what the tables and the history have to do with each other. *)
LEMMA MovedStep ==
  ASSUME QueueInv, Moved
  PROVE  Onward /\ Tables' /\ LinkInv' /\ Told'
<1> USE TablesOf
<1>1. Onward
  BY DEF Onward, Moved
<1>2. Tables'
  BY DEF Tables, Moved
<1>3. \A m \in Messages : Linked(mail[m].from)' = Linked(mail[m].from)
  BY DEF Moved, Linked
<1>4. LinkInv'
  BY <1>3 DEF LinkInv, Moved
<1>5. Told'
  BY DEF Told, Moved, DeletedWasAttempted, ToldAllWhoStayed, ToldOnlyLinked
<1> QED BY <1>1, <1>2, <1>4, <1>5

(* An invisible message comes back, or ends up in the dead-letter queue. *)
LEMMA ExpireStep ==
  ASSUME QueueInv, NEW m \in Messages, Expire(m) \/ Redrive(m)
  PROVE  QueueInv'
<1> USE TablesOf
<1>1. mail' \in [Messages -> Letter]
  BY DEF Expire, Redrive, Tables, Letter, Places
<1>2. /\ \A x \in Messages \ {m} : mail'[x] = mail[x]
      /\ mail'[m].kind = mail[m].kind /\ mail'[m].from = mail[m].from
      /\ mail'[m].place \in {"visible", "dead"} /\ mail[m].place # "unsent"
  BY DEF Expire, Redrive, Tables, Letter
<1>3. Moved
  BY <1>1, <1>2 DEF Moved, Expire, Redrive, DeletedWasAttempted
<1> QED BY <1>3, MovedStep, OthersStep DEF Expire, Redrive

-----------------------------------------------------------------------------
(***************************************************************************)
(* Tenants that link and unlink: who was linked all the time is linked     *)
(* still, and who is linked was linked at some time.                       *)
(***************************************************************************)
LEMMA LinkTenantStep ==
  ASSUME QueueInv, NEW t \in Tenants, NEW i \in Installations, LinkTenant(t, i)
  PROVE  QueueInv'
<1> USE TablesOf
<1>1. /\ mail' = mail /\ told' = told /\ outcome' = outcome /\ consumer' = consumer
      /\ \A m \in Messages :
           /\ ever'[m] = IF mail[m].place # "unsent" /\ mail[m].from = i
                         THEN ever[m] \cup {t} ELSE ever[m]
           /\ since'[m] = IF mail[m].from = i THEN since[m] ELSE since[m] \ {t}
  BY DEF LinkTenant
<1>2. Onward
  BY <1>1 DEF Onward
<1>3. links + 1 \in 0 .. MaxLinks
  BY LimitsAssumption DEF LinkTenant, Tables
<1>4. Tables'
  <2>1. installs' \in [Tenants -> Link]
    BY <1>3 DEF LinkTenant, Tables, Link
  <2>2. links' \in 0 .. MaxLinks
    BY <1>3 DEF LinkTenant
  <2>3. ever' \in [Messages -> SUBSET Tenants] /\ since' \in [Messages -> SUBSET Tenants]
    BY DEF LinkTenant, Tables
  <2> QED BY <1>1, <2>1, <2>2, <2>3 DEF Tables
<1>5. /\ \A u \in Tenants \ {t} : installs'[u].installation = installs[u].installation
      /\ installs'[t].installation = i
  BY DEF LinkTenant, Tables, Link
<1>6. LinkInv'
  <2> SUFFICES ASSUME NEW m \in Messages, mail[m].place # "unsent"
               PROVE  /\ \A u \in since'[m] :
                           u \in Tenants /\ installs'[u].installation = mail[m].from
                      /\ \A u \in Tenants :
                           installs'[u].installation = mail[m].from => u \in ever'[m]
    BY <1>1 DEF LinkInv, Linked
  <2>1. /\ \A u \in since[m] :
             u \in Tenants /\ installs[u].installation = mail[m].from
        /\ \A u \in Tenants :
             installs[u].installation = mail[m].from => u \in ever[m]
    BY DEF LinkInv, Linked
  <2> QED BY <1>1, <1>5, <2>1
<1>7. Told'
  BY <1>1 DEF Told, DeletedWasAttempted, ToldAllWhoStayed, ToldOnlyLinked
<1> QED BY <1>1, <1>2, <1>4, <1>6, <1>7, OthersStep

(* The row of a tenant is deleted, by the tenant or by the handler. *)
Forgets(t) ==
  /\ installs' = [installs EXCEPT ![t] =
                    [installation |-> NoInstallation, id |-> 0]]
  /\ since' = [m \in Messages |-> since[m] \ {t}]
  /\ UNCHANGED <<mail, told, ever>>

(* Links and histories agree on the tenants that are left. *)
LEMMA ForgetsStep ==
  ASSUME QueueInv, NEW t \in Tenants, Forgets(t)
  PROVE  /\ installs' \in [Tenants -> Link]
         /\ since' \in [Messages -> SUBSET Tenants]
         /\ \A m \in Messages : since'[m] \subseteq since[m]
         /\ \A m \in Messages : mail[m].place # "unsent" =>
              /\ since'[m] \subseteq Linked(mail[m].from)'
              /\ Linked(mail[m].from)' \subseteq ever'[m]
<1> USE TablesOf
<1>1. installs' \in [Tenants -> Link] /\ since' \in [Messages -> SUBSET Tenants]
  BY LimitsAssumption DEF Forgets, Tables, Link
<1>2. \A m \in Messages : since'[m] = since[m] \ {t}
  BY DEF Forgets
<1>3. /\ \A u \in Tenants \ {t} : installs'[u].installation = installs[u].installation
      /\ installs'[t].installation = NoInstallation
  BY DEF Forgets, Tables, Link
<1>4. ASSUME NEW m \in Messages, mail[m].place # "unsent"
      PROVE  since'[m] \subseteq Linked(mail[m].from)'
             /\ Linked(mail[m].from)' \subseteq ever'[m]
  <2>1. /\ \A u \in since[m] :
             u \in Tenants /\ installs[u].installation = mail[m].from
        /\ \A u \in Tenants :
             installs[u].installation = mail[m].from => u \in ever[m]
    BY <1>4 DEF LinkInv, Linked
  <2>2. mail[m].from # NoInstallation
    BY InstallationsAssumption DEF Tables, Letter
  <2>3. /\ \A u \in since'[m] :
             u \in Tenants /\ installs'[u].installation = mail[m].from
        /\ \A u \in Tenants :
             installs'[u].installation = mail[m].from => u \in ever'[m]
    BY <1>2, <1>3, <2>1, <2>2 DEF Forgets
  <2>4. mail' = mail
    BY DEF Forgets
  <2> QED BY <2>3, <2>4 DEF Linked
<1> QED BY <1>1, <1>2, <1>4

(* A tenant deletes its link in its settings. *)
LEMMA UnlinkTenantStep ==
  ASSUME QueueInv, NEW t \in Tenants, UnlinkTenant(t)
  PROVE  QueueInv'
<1> USE TablesOf
<1>1. Forgets(t) /\ UNCHANGED <<consumer, outcome>>
  BY DEF UnlinkTenant, Forgets
<1>2. /\ installs' \in [Tenants -> Link]
      /\ since' \in [Messages -> SUBSET Tenants]
      /\ \A m \in Messages : since'[m] \subseteq since[m]
      /\ \A m \in Messages : mail[m].place # "unsent" =>
           /\ since'[m] \subseteq Linked(mail[m].from)'
           /\ Linked(mail[m].from)' \subseteq ever'[m]
  BY <1>1, ForgetsStep
<1>3. UNCHANGED <<mail, told, ever, outcome, consumer>> /\ links' \in 0 .. MaxLinks
  BY LimitsAssumption DEF UnlinkTenant, Tables
<1>4. Onward
  BY <1>2, <1>3 DEF Onward
<1>5. Tables'
  BY <1>2, <1>3 DEF Tables
<1>6. LinkInv'
  BY <1>2, <1>3 DEF LinkInv
<1>7. Told'
  BY <1>2, <1>3 DEF Told, DeletedWasAttempted, ToldAllWhoStayed, ToldOnlyLinked
<1> QED BY <1>3, <1>4, <1>5, <1>6, <1>7, OthersStep

-----------------------------------------------------------------------------
(* A run receives a batch, of messages that were all sent. *)
LEMMA ReceiveStep ==
  ASSUME QueueInv, NEW c \in Consumers, Receive(c)
  PROVE  QueueInv'
<1> USE TablesOf
<1>1. PICK s \in Batches :
        /\ mail' = [m \in Messages |->
             IF m \in Range(s)
             THEN [mail[m] EXCEPT !.place = "invisible", !.receives = @ + 1]
             ELSE mail[m]]
        /\ consumer' = [consumer EXCEPT ![c].pc = "batch", ![c].batch = s]
  BY DEF Receive
<1>2. s \in Seq(Messages) /\ Len(s) <= BatchSize
      /\ \A m \in Range(s) : m \in Messages /\ Receivable(m)
  <2>1. s \in BoundedSeq({m \in Messages : Receivable(m)}, BatchSize)
    BY DEF Batches
  <2>2. s \in Seq({m \in Messages : Receivable(m)}) /\ Len(s) <= BatchSize
    BY <2>1, BoundedSeqs, LimitsAssumption
  <2>3. s \in Seq(Messages)
    BY <2>2
  <2>4. Range(s) \subseteq {m \in Messages : Receivable(m)}
    BY <2>2 DEF Range
  <2> QED BY <2>2, <2>3, <2>4
<1>3. \A m \in Messages :
        /\ mail'[m] \in Letter
        /\ mail'[m].kind = mail[m].kind /\ mail'[m].from = mail[m].from
        /\ m \in Range(s) => mail[m].place = "visible" /\ mail'[m].place = "invisible"
        /\ m \notin Range(s) => mail'[m] = mail[m]
  <2> SUFFICES ASSUME NEW m \in Messages
               PROVE  /\ mail'[m] \in Letter
                      /\ mail'[m].kind = mail[m].kind /\ mail'[m].from = mail[m].from
                      /\ m \in Range(s) => mail[m].place = "visible"
                                           /\ mail'[m].place = "invisible"
                      /\ m \notin Range(s) => mail'[m] = mail[m]
    OBVIOUS
  <2>1. mail[m] \in Letter
    BY DEF Tables
  <2>2. CASE m \in Range(s)
    <3>1. mail'[m] = [mail[m] EXCEPT !.place = "invisible", !.receives = @ + 1]
      BY <1>1, <2>2
    <3>2. mail[m].place = "visible" /\ mail[m].receives < MaxReceiveCount
      BY <1>2, <2>2 DEF Receivable
    <3>3. mail[m].receives + 1 \in 0 .. MaxReceiveCount
      BY <2>1, <3>2, LimitsAssumption DEF Letter
    <3> QED BY <2>1, <2>2, <3>1, <3>2, <3>3 DEF Letter, Places
  <2>3. CASE m \notin Range(s)
    BY <1>1, <2>1, <2>3
  <2> QED BY <2>2, <2>3
<1>4. mail' \in [Messages -> Letter]
  BY <1>1, <1>3
<1>5. Moved
  <2>1. UNCHANGED <<installs, links, told, outcome, ever, since>>
    BY DEF Receive
  <2>2. \A m \in Messages :
          /\ mail'[m].kind = mail[m].kind /\ mail'[m].from = mail[m].from
          /\ (mail'[m].place = "unsent") = (mail[m].place = "unsent")
          /\ mail'[m].place = "deleted" => outcome[m] # {}
    BY <1>3 DEF DeletedWasAttempted
  <2> QED BY <1>4, <2>1, <2>2 DEF Moved
<1>6. consumer \in [Consumers -> Memory] /\ Sound(consumer[c])
      /\ consumer[c].pc \in {"idle", "poll"}
  BY DEF QueueInv, TypeOK, Receive
<1>7. PICK n : n = [consumer[c] EXCEPT !.pc = "batch", !.batch = s]
  OBVIOUS
<1>8. consumer' = [consumer EXCEPT ![c] = n]
  BY <1>1, <1>6, <1>7
<1>9. n.pc = "batch" /\ n.batch = s /\ n.done = {}
  BY <1>6, <1>7 DEF Memory, Sound
<1>10. n \in Memory
  <2>1. s \in BoundedSeq(Messages, BatchSize)
    BY <1>2, BoundedSeqs, LimitsAssumption
  <2> QED BY <1>6, <1>7, <2>1 DEF Memory
<1>11. Sound(n)'
  <2>1. \A m \in Range(s) : mail'[m].place # "unsent"
    BY <1>2, <1>3
  <2> QED BY <1>9, <2>1 DEF Sound
<1> QED BY <1>5, <1>8, <1>10, <1>11, MovedStep, ConsumerStep

(* A run ends: it finds nothing, gives up at its limit, raises or is killed. *)
LEMMA StopStep ==
  ASSUME QueueInv, NEW c \in Consumers,
         PollNothing(c) \/ BreakAtLimit(c) \/ Malformed(c) \/ Crash(c)
  PROVE  QueueInv'
<1>1. consumer' = [consumer EXCEPT ![c] = Idle]
      /\ UNCHANGED <<mail, installs, links, told, outcome, ever, since>>
  BY DEF PollNothing, BreakAtLimit, Malformed, Crash
<1> QED BY <1>1, IdleIsSound, LocalStep

(* Of the batch, some are deleted, and all of them were attempted. *)
LEMMA DeleteBatchStep ==
  ASSUME QueueInv, NEW c \in Consumers, DeleteBatch(c)
  PROVE  QueueInv'
<1> USE TablesOf
<1>1. consumer \in [Consumers -> Memory] /\ Sound(consumer[c])
  BY DEF QueueInv, TypeOK
<1>2. PICK gone \in SUBSET consumer[c].done :
        mail' = [m \in Messages |->
          IF m \in gone /\ mail[m].place \in {"visible", "invisible"}
          THEN [mail[m] EXCEPT !.place = "deleted"] ELSE mail[m]]
  BY DEF DeleteBatch
<1>3. \A m \in gone : outcome[m] # {}
  BY <1>1 DEF Sound
<1>4. \A m \in Messages :
        /\ mail'[m] \in Letter
        /\ mail'[m].kind = mail[m].kind /\ mail'[m].from = mail[m].from
        /\ (mail'[m].place = "unsent") = (mail[m].place = "unsent")
        /\ mail'[m].place = "deleted" => outcome[m] # {}
  <2> SUFFICES ASSUME NEW m \in Messages
               PROVE  /\ mail'[m] \in Letter
                      /\ mail'[m].kind = mail[m].kind /\ mail'[m].from = mail[m].from
                      /\ (mail'[m].place = "unsent") = (mail[m].place = "unsent")
                      /\ mail'[m].place = "deleted" => outcome[m] # {}
    OBVIOUS
  <2>1. mail[m] \in Letter
    BY DEF Tables
  <2>2. CASE m \in gone /\ mail[m].place \in {"visible", "invisible"}
    <3>1. mail'[m] = [mail[m] EXCEPT !.place = "deleted"]
      BY <1>2, <2>2
    <3>2. mail'[m] \in Letter /\ mail'[m].kind = mail[m].kind
          /\ mail'[m].from = mail[m].from /\ mail'[m].place = "deleted"
      BY <2>1, <3>1 DEF Letter, Places
    <3> QED BY <1>3, <2>2, <3>2
  <2>3. CASE ~ (m \in gone /\ mail[m].place \in {"visible", "invisible"})
    BY <1>2, <2>1, <2>3 DEF DeletedWasAttempted
  <2> QED BY <2>2, <2>3
<1>5. mail' \in [Messages -> Letter]
  BY <1>2, <1>4
<1>6. Moved
  BY <1>4, <1>5 DEF Moved, DeleteBatch
<1>7. PICK n : n = [consumer[c] EXCEPT !.pc = "poll", !.done = {}]
  OBVIOUS
<1>8. consumer' = [consumer EXCEPT ![c] = n] /\ n \in Memory
  BY <1>1, <1>7 DEF DeleteBatch, Memory
<1>9. n.pc = "poll" /\ n.batch = <<>> /\ n.done = {}
  BY <1>1, <1>7 DEF DeleteBatch, Memory
<1>10. Range(<<>>) = {}
  BY DEF Range
<1>11. Sound(n)'
  BY <1>9, <1>10 DEF Sound
<1> QED BY <1>6, <1>8, <1>11, MovedStep, ConsumerStep

-----------------------------------------------------------------------------
(***************************************************************************)
(* The handler of a message m ended: the tables change for m alone, but    *)
(* that a tenant may have been forgotten.                                  *)
(***************************************************************************)
HandledOne(m, how) ==
  /\ Ended(m, how)
  /\ installs' \in [Tenants -> Link]
  /\ since' \in [Messages -> SUBSET Tenants]
  /\ told' \in [Messages -> SUBSET Tenants]
  /\ \A x \in Messages :
       /\ since'[x] \subseteq since[x] /\ told[x] \subseteq told'[x]
       /\ told'[x] \subseteq ever[x]
       /\ mail[x].place = "unsent" => told'[x] = told[x]
       /\ mail[x].place # "unsent" =>
            /\ since'[x] \subseteq Linked(mail[x].from)'
            /\ Linked(mail[x].from)' \subseteq ever[x]
  /\ how = "handled" /\ mail[m].kind = "pull" => since'[m] \subseteq told'[m]
  /\ UNCHANGED <<mail, links, ever>>

(* So the handling of a message was an attempt, and told the right tenants. *)
LEMMA HandledStep ==
  ASSUME QueueInv, NEW m \in Messages, mail[m].place # "unsent",
         NEW how \in {"handled", "failed"}, HandledOne(m, how)
  PROVE  Onward /\ Tables' /\ LinkInv' /\ Told' /\ outcome'[m] # {}
<1> USE TablesOf
<1>1. /\ outcome' \in [Messages -> SUBSET {"handled", "failed"}]
      /\ outcome'[m] = outcome[m] \cup {how}
      /\ \A x \in Messages \ {m} : outcome'[x] = outcome[x]
  BY DEF HandledOne, Ended, Tables
<1>2. UNCHANGED <<mail, links, ever>>
      /\ installs' \in [Tenants -> Link] /\ since' \in [Messages -> SUBSET Tenants]
      /\ told' \in [Messages -> SUBSET Tenants]
  BY DEF HandledOne
<1>3. \A x \in Messages :
        /\ since'[x] \subseteq since[x] /\ told[x] \subseteq told'[x]
        /\ told'[x] \subseteq ever[x]
        /\ mail[x].place = "unsent" => told'[x] = told[x]
        /\ mail[x].place # "unsent" =>
             /\ since'[x] \subseteq Linked(mail[x].from)'
             /\ Linked(mail[x].from)' \subseteq ever[x]
  BY DEF HandledOne
<1>4. Onward
  BY <1>1, <1>2, <1>3 DEF Onward
<1>5. Tables'
  BY <1>1, <1>2 DEF Tables
<1>6. LinkInv'
  BY <1>1, <1>2, <1>3 DEF LinkInv
<1>7. Told'
  <2>1. DeletedWasAttempted'
    BY <1>1, <1>2 DEF DeletedWasAttempted
  <2>2. ASSUME NEW x \in Messages, "handled" \in outcome'[x], mail[x].kind = "pull"
        PROVE  since'[x] \subseteq told'[x]
    <3>1. CASE "handled" \in outcome[x]
      BY <1>3, <2>2, <3>1 DEF ToldAllWhoStayed
    <3>2. CASE "handled" \notin outcome[x]
      <4>1. x = m /\ how = "handled"
        BY <1>1, <2>2, <3>2
      <4> QED BY <2>2, <4>1 DEF HandledOne
    <3> QED BY <3>1, <3>2
  <2>3. ToldAllWhoStayed'
    BY <1>2, <2>2 DEF ToldAllWhoStayed
  <2>4. ToldOnlyLinked'
    BY <1>2, <1>3 DEF ToldOnlyLinked
  <2> QED BY <2>1, <2>3, <2>4 DEF Told
<1> QED BY <1>1, <1>4, <1>5, <1>6, <1>7

(* The same, when the run then goes on with its next message. *)
LEMMA ProcessedStep ==
  ASSUME QueueInv, NEW c \in Consumers, NEW me \in Memory,
         me.batch = consumer[c].batch, me.done = consumer[c].done,
         me.batch # <<>>, me.count + Len(me.batch) <= MaxMessages + BatchSize,
         NEW how \in {"handled", "failed"},
         Processed(c, me), HandledOne(Head(me.batch), how)
  PROVE  QueueInv'
<1> DEFINE m == Head(me.batch)
<1>1. consumer[c] \in Memory /\ Sound(consumer[c])
  BY DEF QueueInv, TypeOK
<1>2. /\ m \in Messages /\ mail[m].place # "unsent"
      /\ \A x \in Range(me.batch) : mail[x].place # "unsent"
      /\ \A x \in me.done : outcome[x] # {}
  BY <1>1, MemoryParts DEF Sound
<1>3. Onward /\ Tables' /\ LinkInv' /\ Told' /\ outcome'[m] # {}
  BY <1>2, HandledStep
<1>4. PICK n \in Memory : n = AfterHead(me) /\ Sound(n)'
  BY <1>2, <1>3, ProcessedSound
<1>5. consumer' = [consumer EXCEPT ![c] = n]
  BY <1>4 DEF Processed, AfterHead
<1> QED BY <1>3, <1>4, <1>5, ConsumerStep

(* A handler that told nobody and forgot no tenant. *)
LEMMA NobodyTold ==
  ASSUME QueueInv, NEW m \in Messages, NEW how, Ended(m, how),
         UNCHANGED <<mail, installs, links, told, ever, since>>,
         how = "handled" /\ mail[m].kind = "pull" => since[m] \subseteq told[m]
  PROVE  HandledOne(m, how)
<1> USE TablesOf
<1>1. \A x \in Messages : Linked(mail[x].from)' = Linked(mail[x].from)
  BY DEF Linked
<1>2. \A x \in Messages :
        /\ told[x] \subseteq ever[x]
        /\ mail[x].place # "unsent" => since[x] \subseteq Linked(mail[x].from)
                                       /\ Linked(mail[x].from) \subseteq ever[x]
  BY DEF LinkInv, ToldOnlyLinked
<1> QED BY <1>1, <1>2 DEF HandledOne, Tables

(* Where a run takes up a message, there is one, and the limit is not reached. *)
LEMMA InBatchParts ==
  ASSUME QueueInv, NEW c \in Consumers, InBatch(c)
  PROVE  /\ consumer[c] \in Memory /\ Sound(consumer[c])
         /\ consumer[c].batch # <<>>
         /\ Current(c) \in Messages /\ mail[Current(c)].place # "unsent"
         /\ consumer[c].count \in Nat /\ Len(consumer[c].batch) \in Nat \ {0}
         /\ consumer[c].count + 1 + Len(consumer[c].batch) <= MaxMessages + BatchSize
<1>1. consumer[c] \in Memory /\ Sound(consumer[c]) /\ consumer[c].batch # <<>>
  BY DEF QueueInv, TypeOK, InBatch
<1>2. PICK me \in Memory : me = consumer[c]
  BY <1>1
<1>3. /\ me.batch \in Seq(Messages) /\ Len(me.batch) <= BatchSize
      /\ me.count \in Nat /\ Head(me.batch) \in Messages
      /\ Head(me.batch) \in Range(me.batch) /\ Len(me.batch) \in Nat \ {0}
  BY <1>1, <1>2, MemoryParts
<1>4. mail[Head(me.batch)].place # "unsent"
  BY <1>1, <1>2, <1>3 DEF Sound
<1>5. MaxMessages \in Nat /\ BatchSize \in Nat
  BY LimitsAssumption
<1>6. me.count + 1 + Len(me.batch) <= MaxMessages + BatchSize
  <2>1. CASE me.done # {}
    <3>1. me.count + Len(me.batch) < MaxMessages + BatchSize
      BY <1>1, <1>2, <2>1 DEF Sound, InBatch
    <3> QED BY <1>3, <1>5, <3>1
  <2>2. CASE me.done = {}
    <3>1. me.count < MaxMessages
      BY <1>2, <2>2 DEF InBatch
    <3> QED BY <1>3, <1>5, <3>1
  <2> QED BY <2>1, <2>2
<1> QED BY <1>1, <1>2, <1>3, <1>4, <1>6 DEF Current

(* The same where a run has looked its message up. *)
LEMMA HandlingParts ==
  ASSUME QueueInv, NEW c \in Consumers, consumer[c].pc \in {"unlink", "tell"}
  PROVE  /\ consumer[c] \in Memory /\ Sound(consumer[c])
         /\ consumer[c].batch # <<>>
         /\ Current(c) \in Messages /\ mail[Current(c)].place # "unsent"
         /\ consumer[c].count + Len(consumer[c].batch) <= MaxMessages + BatchSize
<1>1. consumer[c] \in Memory /\ Sound(consumer[c])
  BY DEF QueueInv, TypeOK
<1>2. PICK me \in Memory : me = consumer[c]
  BY <1>1
<1>3. me.batch # <<>> /\ me.count + Len(me.batch) <= MaxMessages + BatchSize
  BY <1>1, <1>2 DEF Sound
<1>4. Head(me.batch) \in Messages /\ mail[Head(me.batch)].place # "unsent"
  BY <1>1, <1>2, <1>3, MemoryParts DEF Sound
<1> QED BY <1>1, <1>2, <1>3, <1>4 DEF Current

-----------------------------------------------------------------------------
(* The links are read: whom the run found is who was linked by then. *)
LEMMA LookupStep ==
  ASSUME QueueInv, NEW c \in Consumers, Lookup(c)
  PROVE  QueueInv'
<1> DEFINE m == Current(c)
           found == Linked(mail[m].from)
<1> USE TablesOf
<1>1. /\ consumer[c] \in Memory /\ Sound(consumer[c])
      /\ consumer[c].batch # <<>> /\ m \in Messages /\ mail[m].place # "unsent"
      /\ consumer[c].count \in Nat /\ Len(consumer[c].batch) \in Nat \ {0}
      /\ consumer[c].count + 1 + Len(consumer[c].batch) <= MaxMessages + BatchSize
  BY InBatchParts DEF Lookup
<1>2. MaxMessages \in Nat /\ BatchSize \in Nat
  BY LimitsAssumption
<1>3. PICK me : me = [consumer[c] EXCEPT !.count = @ + 1]
  OBVIOUS
<1>4. consumer[c].count + 1 \in 0 .. MaxMessages + BatchSize - 1
  BY <1>1, <1>2
<1>5. me \in Memory
  BY <1>1, <1>3, <1>4 DEF Memory
<1>6. /\ me.batch = consumer[c].batch /\ me.done = consumer[c].done
      /\ me.count = consumer[c].count + 1
  BY <1>1, <1>3 DEF Memory
<1>7. me.batch # <<>> /\ me.count + Len(me.batch) <= MaxMessages + BatchSize
      /\ Head(me.batch) = m
  BY <1>1, <1>6 DEF Current
<1>8. since[m] \subseteq found /\ found \subseteq ever[m]
  BY <1>1 DEF LinkInv
<1>9. UNCHANGED <<mail, installs, links, told, ever, since>>
  BY DEF Lookup
<1>10. CASE found = {} \/ mail[m].kind = "other"
  <2>1. Processed(c, me) /\ Ended(m, "handled")
    BY <1>3, <1>10 DEF Lookup
  <2>2. mail[m].kind = "pull" => since[m] \subseteq told[m]
    BY <1>8, <1>10
  <2>3. HandledOne(m, "handled")
    BY <1>1, <1>9, <2>1, <2>2, NobodyTold
  <2>4. HandledOne(Head(me.batch), "handled")
    BY <1>7, <2>3
  <2> QED BY <1>5, <1>6, <1>7, <2>1, <2>4, ProcessedStep
<1>11. CASE found # {} /\ mail[m].kind = "deleted"
  <2>1. PICK n : n = [me EXCEPT !.pc = "unlink",
                        !.rows = {<<t, installs[t].id>> : t \in found}]
    OBVIOUS
  <2>2. consumer' = [consumer EXCEPT ![c] = n] /\ outcome' = outcome
    BY <1>3, <1>11, <2>1 DEF Lookup
  <2>3. {<<t, installs[t].id>> : t \in found} \in SUBSET (Tenants \X (0 .. MaxLinks))
    BY DEF Linked, Tables, Link
  <2>4. n \in Memory
    BY <1>5, <2>1, <2>3 DEF Memory
  <2>5. n.pc = "unlink" /\ n.batch = me.batch /\ n.done = me.done /\ n.count = me.count
    BY <1>5, <2>1 DEF Memory
  <2>6. Sound(n)
    BY <1>1, <1>6, <1>7, <1>11, <2>5 DEF Sound
  <2> QED BY <1>9, <2>2, <2>4, <2>6, LocalStep
<1>12. CASE found # {} /\ mail[m].kind \notin {"deleted", "other"}
  <2>1. PICK n : n = [me EXCEPT !.pc = "tell", !.tenants = found]
    OBVIOUS
  <2>2. consumer' = [consumer EXCEPT ![c] = n] /\ outcome' = outcome
    BY <1>3, <1>12, <2>1 DEF Lookup
  <2>3. found \in SUBSET Tenants
    BY DEF Linked
  <2>4. n \in Memory
    BY <1>5, <2>1, <2>3 DEF Memory
  <2>5. n.pc = "tell" /\ n.batch = me.batch /\ n.done = me.done /\ n.count = me.count
        /\ n.tenants = found
    BY <1>5, <2>1 DEF Memory
  <2>6. ToTell(n)
    BY <1>7, <1>8, <2>5 DEF ToTell
  <2>7. Sound(n)
    BY <1>1, <1>6, <1>7, <2>5, <2>6 DEF Sound
  <2> QED BY <1>9, <2>2, <2>4, <2>7, LocalStep
<1> QED BY <1>10, <1>11, <1>12

(* The handler fails, before it has found the tenants or after. *)
LEMMA FailStep ==
  ASSUME QueueInv, NEW c \in Consumers, FailLookup(c) \/ FailHandler(c)
  PROVE  QueueInv'
<1>1. ASSUME FailLookup(c) PROVE QueueInv'
  <2>1. /\ consumer[c] \in Memory /\ consumer[c].batch # <<>>
        /\ Current(c) \in Messages
        /\ consumer[c].count \in Nat /\ Len(consumer[c].batch) \in Nat \ {0}
        /\ consumer[c].count + 1 + Len(consumer[c].batch) <= MaxMessages + BatchSize
    BY <1>1, InBatchParts DEF FailLookup
  <2>2. PICK me : me = [consumer[c] EXCEPT !.count = @ + 1]
    OBVIOUS
  <2>3. consumer[c].count + 1 \in 0 .. MaxMessages + BatchSize - 1
    BY SMTT(30), <2>1, LimitsAssumption
  <2>4. me \in Memory
    BY <2>1, <2>2, <2>3 DEF Memory
  <2>5. /\ me.batch = consumer[c].batch /\ me.done = consumer[c].done
        /\ me.count = consumer[c].count + 1
    BY <2>1, <2>2 DEF Memory
  <2>6. HandledOne(Current(c), "failed")
    BY <1>1, <2>1, NobodyTold DEF FailLookup
  <2>7. HandledOne(Head(me.batch), "failed")
    BY <2>5, <2>6 DEF Current
  <2>8. Processed(c, me)
    BY <1>1, <2>2 DEF FailLookup
  <2>9. me.batch # <<>> /\ me.count + Len(me.batch) <= MaxMessages + BatchSize
    BY <2>1, <2>5
  <2> QED BY <2>4, <2>5, <2>7, <2>8, <2>9, ProcessedStep
<1>2. ASSUME FailHandler(c) PROVE QueueInv'
  <2>1. /\ consumer[c] \in Memory /\ consumer[c].batch # <<>>
        /\ Current(c) \in Messages
        /\ consumer[c].count + Len(consumer[c].batch) <= MaxMessages + BatchSize
    BY <1>2, HandlingParts DEF FailHandler
  <2>2. HandledOne(Current(c), "failed")
    BY <1>2, <2>1, NobodyTold DEF FailHandler
  <2>3. HandledOne(Head(consumer[c].batch), "failed")
    BY <2>2 DEF Current
  <2>4. Processed(c, consumer[c])
    BY <1>2 DEF FailHandler
  <2> QED BY <2>1, <2>3, <2>4, ProcessedStep
<1> QED BY <1>1, <1>2

(* The row of one tenant is deleted, if it is still the row that was found. *)
LEMMA UnlinkStep ==
  ASSUME QueueInv, NEW c \in Consumers, Unlink(c)
  PROVE  QueueInv'
<1> DEFINE m == Current(c)
<1> USE TablesOf
<1>1. /\ consumer[c] \in Memory /\ Sound(consumer[c]) /\ consumer[c].batch # <<>>
      /\ m \in Messages /\ mail[m].kind = "deleted"
      /\ consumer[c].count + Len(consumer[c].batch) <= MaxMessages + BatchSize
  BY HandlingParts DEF Unlink, Sound, Current
<1>2. /\ Processed(c, consumer[c]) /\ Ended(m, "handled")
      /\ UNCHANGED <<mail, links, told, ever>>
  BY DEF Unlink
<1>3. PICK x \in consumer[c].rows :
        IF installs[x[1]].id = x[2]
        THEN /\ installs' = [installs EXCEPT ![x[1]] =
                               [installation |-> NoInstallation, id |-> 0]]
             /\ since' = [n \in Messages |-> since[n] \ {x[1]}]
        ELSE UNCHANGED <<installs, since>>
  BY DEF Unlink
<1>4. x[1] \in Tenants
  BY <1>1 DEF Memory
<1>5. HandledOne(m, "handled")
  <2>1. CASE installs[x[1]].id = x[2]
    <3>1. Forgets(x[1])
      BY <1>2, <1>3, <2>1 DEF Forgets
    <3>2. /\ installs' \in [Tenants -> Link]
          /\ since' \in [Messages -> SUBSET Tenants]
          /\ \A n \in Messages : since'[n] \subseteq since[n]
          /\ \A n \in Messages : mail[n].place # "unsent" =>
               /\ since'[n] \subseteq Linked(mail[n].from)'
               /\ Linked(mail[n].from)' \subseteq ever'[n]
      BY <1>4, <3>1, ForgetsStep
    <3>3. told' = told /\ told \in [Messages -> SUBSET Tenants]
          /\ \A n \in Messages : told[n] \subseteq ever[n]
      BY <1>2 DEF Tables, ToldOnlyLinked
    <3> QED BY <1>1, <1>2, <3>2, <3>3 DEF HandledOne
  <2>2. CASE installs[x[1]].id # x[2]
    <3>1. UNCHANGED <<installs, since>>
      BY <1>3, <2>2
    <3> QED BY <1>1, <1>2, <3>1, NobodyTold
  <2> QED BY <2>1, <2>2
<1>6. HandledOne(Head(consumer[c].batch), "handled")
  BY <1>5 DEF Current
<1> QED BY <1>1, <1>2, <1>6, ProcessedStep

(***************************************************************************)
(* One tenant is told, or passed over for a push: with the last of them    *)
(* the message is handled, and whoever stayed linked was among them.       *)
(***************************************************************************)
LEMMA TellStep ==
  ASSUME QueueInv, NEW c \in Consumers, Tell(c)
  PROVE  QueueInv'
<1> DEFINE m == Current(c)
<1> USE TablesOf
<1>1. /\ consumer[c] \in Memory /\ Sound(consumer[c]) /\ consumer[c].batch # <<>>
      /\ m \in Messages /\ mail[m].place # "unsent"
      /\ consumer[c].count + Len(consumer[c].batch) <= MaxMessages + BatchSize
  BY HandlingParts DEF Tell
<1>2. UNCHANGED <<mail, installs, links, ever, since>>
  BY DEF Tell
<1>3. PICK t \in consumer[c].tenants :
        /\ \/ told' = [told EXCEPT ![m] = @ \cup {t}]
           \/ mail[m].kind = "push" /\ UNCHANGED told
        /\ IF consumer[c].tenants = {t}
           THEN Processed(c, consumer[c]) /\ Ended(m, "handled")
           ELSE /\ consumer' = [consumer EXCEPT ![c].tenants = @ \ {t}]
                /\ UNCHANGED outcome
  BY DEF Tell
<1>4. /\ consumer[c].tenants \subseteq ever[m]
      /\ mail[m].kind = "pull" =>
           since[m] \subseteq told[m] \cup consumer[c].tenants
  BY <1>1 DEF Sound, ToTell, Tell, Current
<1>5. t \in Tenants /\ t \in ever[m]
  BY <1>1, <1>4 DEF Memory
<1>6. /\ told' \in [Messages -> SUBSET Tenants]
      /\ \A x \in Messages \ {m} : told'[x] = told[x]
      /\ told[m] \subseteq told'[m] /\ told'[m] \subseteq told[m] \cup {t}
      /\ mail[m].kind = "pull" => told'[m] = told[m] \cup {t}
  BY <1>1, <1>3, <1>5 DEF Tables
<1>7. \A x \in Messages :
        /\ told[x] \subseteq told'[x] /\ told'[x] \subseteq ever[x]
        /\ mail[x].place = "unsent" => told'[x] = told[x]
  BY <1>1, <1>5, <1>6 DEF ToldOnlyLinked
<1>8. \A x \in Messages : Linked(mail[x].from)' = Linked(mail[x].from)
  BY <1>2 DEF Linked
<1>9. CASE consumer[c].tenants = {t}
  <2>1. mail[m].kind = "pull" => since[m] \subseteq told'[m]
    BY <1>4, <1>6, <1>9
  <2>2. Processed(c, consumer[c]) /\ Ended(m, "handled")
    BY <1>3, <1>9
  <2>3. \A x \in Messages : mail[x].place # "unsent" =>
          since[x] \subseteq Linked(mail[x].from)
          /\ Linked(mail[x].from) \subseteq ever[x]
    BY DEF LinkInv
  <2>4. HandledOne(m, "handled")
    BY <1>2, <1>6, <1>7, <1>8, <2>1, <2>2, <2>3 DEF HandledOne, Tables
  <2>5. HandledOne(Head(consumer[c].batch), "handled")
    BY <2>4 DEF Current
  <2> QED BY <1>1, <2>2, <2>5, ProcessedStep
<1>10. CASE consumer[c].tenants # {t}
  <2>1. PICK n : n = [consumer[c] EXCEPT !.tenants = @ \ {t}]
    OBVIOUS
  <2>2. consumer' = [consumer EXCEPT ![c] = n] /\ outcome' = outcome
    BY <1>3, <1>10, <2>1
  <2>3. n \in Memory
    BY <1>1, <2>1 DEF Memory
  <2>4. /\ n.pc = consumer[c].pc /\ n.batch = consumer[c].batch
        /\ n.done = consumer[c].done /\ n.count = consumer[c].count
        /\ n.tenants = consumer[c].tenants \ {t}
    BY <1>1, <2>1 DEF Memory
  <2>5. n.pc = "tell" /\ Head(n.batch) = m
    BY <2>4 DEF Tell, Current
  <2>6. Onward
    BY <1>2, <1>7, <2>2 DEF Onward
  <2>7. Tables'
    BY <1>2, <1>6, <2>2 DEF Tables
  <2>8. LinkInv'
    BY <1>2, <1>7, <1>8, <2>2 DEF LinkInv
  <2>9. Told'
    BY <1>2, <1>7, <2>2 DEF Told, DeletedWasAttempted, ToldAllWhoStayed, ToldOnlyLinked
  <2>10. ToTell(n)'
    <3>1. n.tenants \subseteq ever[m]
      BY <1>4, <2>4
    <3>2. mail[m].kind = "pull" => since[m] \subseteq told'[m] \cup n.tenants
      BY <1>4, <1>6, <2>4
    <3> QED BY <1>2, <2>5, <3>1, <3>2 DEF ToTell
  <2>11. Sound(n)'
    BY <1>1, <1>2, <2>2, <2>4, <2>5, <2>10 DEF Sound
  <2> QED BY <2>2, <2>3, <2>6, <2>7, <2>8, <2>9, <2>11, ConsumerStep
<1> QED BY <1>9, <1>10

-----------------------------------------------------------------------------
(* At first nothing was sent and no run holds anything. *)
LEMMA QueueInit == Init => QueueInv
<1> SUFFICES ASSUME Init PROVE QueueInv
  OBVIOUS
<1>1. \A m \in Messages : mail[m].place = "unsent" /\ outcome[m] = {} /\ told[m] = {}
  BY DEF Init
<1>2. mail \in [Messages -> Letter]
  <2>1. 0 \in 0 .. MaxReceiveCount
    BY LimitsAssumption
  <2> QED BY <2>1, KindsAssumption DEF Init, Letter, Places
<1>3. installs \in [Tenants -> Link] /\ links \in 0 .. MaxLinks
  BY LimitsAssumption DEF Init, Link
<1>4. consumer \in [Consumers -> Memory]
      /\ \A c \in Consumers : Sound(consumer[c])
  BY IdleIsSound DEF Init
<1>5. TypeOK
  BY <1>2, <1>3, <1>4 DEF Init, TypeOK
<1>6. LinkInv /\ DeletedWasAttempted /\ ToldAllWhoStayed /\ ToldOnlyLinked
  BY <1>1 DEF LinkInv, DeletedWasAttempted, ToldAllWhoStayed, ToldOnlyLinked
<1> QED BY <1>4, <1>5, <1>6 DEF QueueInv

(* A step that changes nothing. *)
LEMMA QueueStutter == QueueInv /\ UNCHANGED vars => QueueInv'
<1> SUFFICES ASSUME QueueInv, UNCHANGED vars PROVE QueueInv'
  OBVIOUS
<1>1. Onward
  BY DEF vars, Onward
<1>2. Tables' /\ LinkInv' /\ Told'
  BY TablesOf DEF vars, Tables, LinkInv, Linked, Told, DeletedWasAttempted,
                  ToldAllWhoStayed, ToldOnlyLinked
<1> QED BY <1>1, <1>2, OthersStep DEF vars

(***************************************************************************)
(* Overlapping runs, the redelivery of SQS and tenants that come and go    *)
(* preserve the invariant.                                                 *)
(***************************************************************************)
LEMMA QueueStep == QueueInv /\ [Next]_vars => QueueInv'
<1> SUFFICES ASSUME QueueInv, [Next]_vars PROVE QueueInv'
  OBVIOUS
<1>1. ASSUME NEW m \in Messages, Send(m) PROVE QueueInv'
  BY <1>1, SendStep
<1>2. ASSUME NEW m \in Messages, Expire(m) \/ Redrive(m) PROVE QueueInv'
  BY <1>2, ExpireStep
<1>3. ASSUME NEW t \in Tenants, UnlinkTenant(t) PROVE QueueInv'
  BY <1>3, UnlinkTenantStep
<1>4. ASSUME NEW t \in Tenants, NEW i \in Installations, LinkTenant(t, i)
      PROVE  QueueInv'
  BY <1>4, LinkTenantStep
<1>5. ASSUME NEW c \in Consumers, Receive(c) PROVE QueueInv'
  BY <1>5, ReceiveStep
<1>6. ASSUME NEW c \in Consumers,
             PollNothing(c) \/ BreakAtLimit(c) \/ Malformed(c) \/ Crash(c)
      PROVE  QueueInv'
  BY <1>6, StopStep
<1>7. ASSUME NEW c \in Consumers, Lookup(c) PROVE QueueInv'
  BY <1>7, LookupStep
<1>8. ASSUME NEW c \in Consumers, Unlink(c) PROVE QueueInv'
  BY <1>8, UnlinkStep
<1>9. ASSUME NEW c \in Consumers, Tell(c) PROVE QueueInv'
  BY <1>9, TellStep
<1>10. ASSUME NEW c \in Consumers, FailLookup(c) \/ FailHandler(c) PROVE QueueInv'
  BY <1>10, FailStep
<1>11. ASSUME NEW c \in Consumers, DeleteBatch(c) PROVE QueueInv'
  BY <1>11, DeleteBatchStep
<1>12. CASE UNCHANGED vars
  BY <1>12, QueueStutter
<1> QED BY <1>1, <1>2, <1>3, <1>4, <1>5, <1>6, <1>7, <1>8, <1>9, <1>10, <1>11,
           <1>12 DEF Next, Work

(***************************************************************************)
(* The inductive invariant of the queue.                                   *)
(***************************************************************************)
THEOREM QueueInvariant == Spec => []QueueInv
BY QueueInit, QueueStep, PTL DEF Spec

(***************************************************************************)
(* Whatever the runs hold is bounded: never more than one batch, and never *)
(* BatchSize messages or more above the limit of a run.                    *)
(***************************************************************************)
THEOREM QueueTypes == Spec => []TypeOK
<1>1. QueueInv => TypeOK
  BY DEF QueueInv
<1> QED BY <1>1, QueueInvariant, PTL

(***************************************************************************)
(* A message is deleted only after the handler was run on it.              *)
(***************************************************************************)
THEOREM DeletedCorrect == Spec => []DeletedWasAttempted
<1>1. QueueInv => DeletedWasAttempted
  BY DEF QueueInv
<1> QED BY <1>1, QueueInvariant, PTL

(***************************************************************************)
(* Who stayed linked to an installation is told of every closing and       *)
(* approval in its repositories that was handled.                          *)
(***************************************************************************)
THEOREM ToldAllCorrect == Spec => []ToldAllWhoStayed
<1>1. QueueInv => ToldAllWhoStayed
  BY DEF QueueInv
<1> QED BY <1>1, QueueInvariant, PTL

(***************************************************************************)
(* Nobody is told of an installation he was never linked to meanwhile.     *)
(***************************************************************************)
THEOREM ToldOnlyCorrect == Spec => []ToldOnlyLinked
<1>1. QueueInv => ToldOnlyLinked
  BY DEF QueueInv
<1> QED BY <1>1, QueueInvariant, PTL
=============================================================================
