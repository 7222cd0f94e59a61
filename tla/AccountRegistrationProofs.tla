---------------------- MODULE AccountRegistrationProofs ----------------------
(***************************************************************************)
(* Proofs about AccountRegistration, for any messages, accounts, runs of   *)
(* the tasks and admins, and every size and limit.                         *)
(***************************************************************************)
EXTENDS AccountRegistration, FiniteSetTheorems, TLAPS

-----------------------------------------------------------------------------
(* Of the places an account has in a list there is a first one. *)
LEMMA FirstPlace ==
  ASSUME NEW s \in Seq(Entry), NEW a, Places(s, a) # {}
  PROVE  /\ FirstOf(s, a) \in Places(s, a)
         /\ \A j \in Places(s, a) : FirstOf(s, a) <= j
<1> DEFINE S == Places(s, a)
           Below(x) == {y \in S : y < x}
           T == {Below(x) : x \in S}
           R == StrictSubsetOrdering(S)
<1>1. S \subseteq 1 .. Len(s) /\ S \subseteq Nat
  BY DEF Places
<1>2. IsFiniteSet(S)
  <2> HIDE DEF S
  <2>1. IsFiniteSet(1 .. Len(s))
    BY FS_Interval
  <2> QED BY <1>1, <2>1, FS_Subset
<1>3. IsWellFoundedOn(R, SUBSET S)
  BY <1>2, FS_StrictSubsetOrderingWellFounded, FS_FiniteSubsetsOfFinite
<1>4. T \subseteq SUBSET S /\ T # {}
  OBVIOUS
<1>5. PICK t \in T : \A u \in T : ~(<<u, t>> \in R)
  <2> HIDE DEF T, R
  <2> QED BY <1>3, <1>4, WFMin
<1>6. PICK x \in S : t = Below(x)
  OBVIOUS
<1>7. ASSUME NEW y \in S, y < x PROVE FALSE
  <2> HIDE DEF S
  <2>1. ASSUME NEW z \in Below(y) PROVE z \in Below(x)
    <3>1. z \in Nat /\ y \in Nat /\ x \in Nat /\ z < y
      BY <1>1, <2>1
    <3>2. z < x
      BY <1>7, <3>1
    <3> QED BY <2>1, <3>2
  <2>2. y \in Below(x) /\ y \notin Below(y)
    BY <1>1, <1>7
  <2>3. <<Below(y), Below(x)>> \in R
    BY <2>1, <2>2 DEF StrictSubsetOrdering
  <2> QED BY <1>5, <1>6, <2>3
<1>8. x \in S /\ \A y \in S : x <= y
  <2> HIDE DEF S
  <2> QED BY <1>1, <1>7
<1> HIDE DEF S
<1>9. \E i \in Places(s, a) : \A j \in Places(s, a) : i <= j
  BY <1>8 DEF S
<1> QED BY <1>9 DEF FirstOf

(***************************************************************************)
(* Storing an entry, whichever way items are compared, puts its account in *)
(* the list and takes none out of it.                                      *)
(***************************************************************************)
Adds(t, s, e) ==
  /\ t \in Seq(Entry)
  /\ Places(t, e.account) # {}
  /\ \A a : Places(s, a) # {} => Places(t, a) # {}

(* An entry that is added at the end. *)
LEMMA AppendAdds ==
  ASSUME NEW s \in Seq(Entry), NEW e \in Entry
  PROVE  Adds(Append(s, e), s, e)
<1> DEFINE t == Append(s, e)
<1>1. /\ t \in Seq(Entry) /\ Len(t) = Len(s) + 1 /\ t[Len(s) + 1] = e
      /\ \A i \in 1 .. Len(s) : t[i] = s[i]
  OBVIOUS
<1>2. DOMAIN s = 1 .. Len(s) /\ DOMAIN t = 1 .. Len(s) + 1 /\ Len(s) \in Nat
  BY <1>1
<1> HIDE DEF t
<1>3. Len(s) + 1 \in Places(t, e.account)
  BY <1>1, <1>2 DEF Places
<1>4. \A a : Places(s, a) \subseteq Places(t, a)
  BY <1>1, <1>2 DEF Places
<1>5. \A a : Places(s, a) # {} => Places(t, a) # {}
  BY <1>4
<1> QED BY <1>1, <1>3, <1>5 DEF Adds, t

(* An entry that is added unless an equal one is there (by default). *)
LEMMA EqualAdds ==
  ASSUME NEW s \in Seq(Entry), NEW e \in Entry
  PROVE  Adds(StoreEqual(s, e), s, e)
<1>1. CASE Contains(s, e)
  <2>1. PICK i \in 1 .. Len(s) : s[i] = e
    BY <1>1 DEF Contains
  <2>2. i \in Places(s, e.account)
    BY <2>1 DEF Places
  <2>3. StoreEqual(s, e) = s
    BY <1>1 DEF StoreEqual
  <2> QED BY <2>2, <2>3 DEF Adds
<1>2. CASE ~Contains(s, e)
  BY <1>2, AppendAdds DEF StoreEqual
<1> QED BY <1>1, <1>2

(* An entry that replaces the first one of its account, if there is one. *)
LEMMA AccountAdds ==
  ASSUME NEW s \in Seq(Entry), NEW e \in Entry
  PROVE  Adds(StoreByAccount(s, e), s, e)
<1>1. CASE Places(s, e.account) = {}
  BY <1>1, AppendAdds DEF StoreByAccount
<1>2. CASE Places(s, e.account) # {}
  <2>1. PICK k : k = FirstOf(s, e.account)
    OBVIOUS
  <2>2. k \in DOMAIN s /\ s[k].account = e.account
    BY <1>2, <2>1, FirstPlace DEF Places
  <2>3. PICK t : t = [s EXCEPT ![k] = e]
    OBVIOUS
  <2>4. t = StoreByAccount(s, e)
    BY <1>2, <2>1, <2>3 DEF StoreByAccount
  <2>5. t \in Seq(Entry)
    BY <2>2, <2>3
  <2>6. DOMAIN t = DOMAIN s /\ \A i \in DOMAIN s : t[i].account = s[i].account
    BY <2>2, <2>3
  <2>7. \A a : Places(t, a) = Places(s, a)
    BY <2>6 DEF Places
  <2> QED BY <1>2, <2>4, <2>5, <2>7 DEF Adds
<1> QED BY <1>1, <1>2

(* What is left after a removal is a list of entries. *)
LEMMA LeftTyped ==
  ASSUME NEW s \in Seq(Entry), NEW keep, NEW t \in Left(s, keep)
  PROVE  t \in Seq(Entry)
<1>1. t \in BoundedSeq(Entry, Len(s))
  BY DEF Left
<1>2. PICK k \in 0 .. Len(s) : t \in [1 .. k -> Entry]
  BY <1>1 DEF BoundedSeq, SeqOf
<1> QED BY <1>2

(* The first message of a batch, and the rest. *)
LEMMA HeadAndTail ==
  ASSUME NEW S, NEW s \in Seq(S), s # <<>>
  PROVE  Head(s) \in S /\ Tail(s) \in Seq(S)
<1>1. Len(s) \in Nat \ {0} /\ Head(s) = s[1] /\ 1 \in DOMAIN s
  OBVIOUS
<1> QED BY <1>1

-----------------------------------------------------------------------------
(***************************************************************************)
(* The invariant.  A step changes the memory of one run at most; it keeps  *)
(* the invariant if what that run holds next is right, messages stay what  *)
(* they are, answers are not forgotten, and what stands goes on to stand.  *)
(***************************************************************************)
Inv == Typed /\ DoneInv /\ RegistryInv

Tables ==
  /\ mail \in [Messages -> Letter]
  /\ {doc} \cup versions \subseteq Document
  /\ told \in [Messages -> SUBSET {"SUCCESS", "FAILED"}]
  /\ mute \subseteq Messages
  /\ spoilt \subseteq Parts

Onward ==
  /\ \A m \in Messages :
       /\ mail'[m].kind = mail[m].kind /\ mail'[m].account = mail[m].account
       /\ told[m] \subseteq told'[m]
  /\ mute \subseteq mute'
  /\ \A p \in Parts : Stands(p) => Stands(p)'

Settled(m) == mail[m].kind # "unsupported" => told[m] # {} \/ m \in mute

(* A success is for a message whose account, and hub, stand. *)
Reported(m) ==
  /\ mail[m].kind \in {"spoke", "central"} => Stands(mail[m].account)
  /\ mail[m].kind = "central" => Stands(Hub)

(* Whatever is read is a document. *)
LEMMA ReadableTyped ==
  ASSUME Typed, NEW d \in Readable
  PROVE  d \in Document /\ d.spokes \in Seq(Entry)
<1>1. NoDoc \in Document
  BY DEF NoDoc, Document
<1>2. d \in Document
  BY <1>1 DEF Readable, Typed
<1> QED BY <1>2 DEF Document

(* The account of a message and the hub are parts of the document. *)
LEMMA PartsOf ==
  ASSUME Typed, NEW m \in Messages
  PROVE  mail[m].account \in Parts /\ mail[m].account # Hub /\ Hub \in Parts
BY HubAssumption DEF Typed, Letter, Parts

(* What AnsweredIsRegistered says, with Stands for both of its parts. *)
LEMMA AnswersSound ==
  ASSUME Typed
  PROVE  AnsweredIsRegistered <=>
           \A m \in Messages : "SUCCESS" \in told[m] => Reported(m)
BY PartsOf DEF AnsweredIsRegistered, Reported, Stands, Has

(* A registration under way is where it was, whatever others do. *)
LEMMA RegisteringStays ==
  ASSUME Typed, Onward, NEW c \in Consumers, Registering(c), task'[c] = task[c]
  PROVE  Registering(c)'
<1>1. PICK m : m = Head(task[c].batch)
  OBVIOUS
<1>2. m \in Messages
  <2>1. task[c].batch \in Seq(Messages) /\ task[c].batch # <<>>
    BY DEF Typed, Memory, Actors, Registering
  <2> QED BY <1>1, <2>1, HeadAndTail
<1>3. PICK a : a = mail[m].account
  OBVIOUS
<1>4. mail'[m].kind = mail[m].kind /\ mail'[m].account = a
  BY <1>2, <1>3 DEF Onward
<1>5. (Stands(Hub) => Stands(Hub)') /\ (Stands(a) => Stands(a)')
  BY <1>2, <1>3, PartsOf DEF Onward
<1> QED BY <1>1, <1>3, <1>4, <1>5 DEF Registering, Letters, Current, Stands

(* So is a message that could be reported a success, *)
LEMMA ReportedStays ==
  ASSUME Typed, Onward, NEW m \in Messages, Reported(m)
  PROVE  Reported(m)'
<1>1. PICK a : a = mail[m].account
  OBVIOUS
<1>2. mail'[m].kind = mail[m].kind /\ mail'[m].account = a
  BY <1>1 DEF Onward
<1>3. (Stands(Hub) => Stands(Hub)') /\ (Stands(a) => Stands(a)')
  BY <1>1, PartsOf DEF Onward
<1> QED BY <1>1, <1>2, <1>3 DEF Reported, Stands

(* and one that was answered. *)
LEMMA SettledStays ==
  ASSUME Onward, NEW m \in Messages, Settled(m)
  PROVE  Settled(m)'
BY DEF Onward, Settled

(* What is held by those that have made a step, X, is right. *)
Right(x) ==
  /\ \A m \in task[x].done : Settled(m)
  /\ x \in Consumers \cup Syncs /\ task[x].pc = "put" =>
       \A p \in Parts : Has(task[x].base, p) => Has(task[x].draft, p)
  /\ x \in Consumers /\ task[x].pc \in {"read", "put", "answer"} => Registering(x)

(* The invariant, by messages and by actors. *)
LEMMA InvOf ==
  ASSUME Typed
  PROVE  Inv <=> /\ \A m \in Messages : "SUCCESS" \in told[m] => Reported(m)
                 /\ \A m \in Messages : mail[m].place = "deleted" => Settled(m)
                 /\ \A x \in Actors : Right(x)
<1>1. DeletedWasAnswered <=>
        \A m \in Messages : mail[m].place = "deleted" => Settled(m)
  BY DEF DeletedWasAnswered, Settled
<1>2. (DoneInv /\ DraftInv
        /\ \A c \in Consumers :
             task[c].pc \in {"read", "put", "answer"} => Registering(c))
      <=> DeletedWasAnswered /\ \A x \in Actors : Right(x)
  BY DEF DoneInv, DraftInv, Right, Actors, Settled
<1> QED BY <1>1, <1>2, AnswersSound DEF Inv, RegistryInv, DoneInv

(* What an actor holds stays right while others make their steps. *)
LEMMA RightStays ==
  ASSUME Typed, Onward, NEW x \in Actors, Right(x), task'[x] = task[x]
  PROVE  Right(x)'
<1>1. task[x].done \subseteq Messages
  BY DEF Typed, Memory
<1>2. \A m \in task'[x].done : Settled(m)'
  BY <1>1, SettledStays DEF Right
<1>3. x \in Consumers /\ task'[x].pc \in {"read", "put", "answer"} => Registering(x)'
  BY RegisteringStays DEF Right
<1>4. x \in Consumers \cup Syncs /\ task'[x].pc = "put" =>
        \A p \in Parts : Has(task'[x].base, p) => Has(task'[x].draft, p)
  BY DEF Right
<1> QED BY <1>2, <1>3, <1>4 DEF Right, Has, Places

(* So a step has to answer for what it changes. *)
LEMMA InvStep ==
  ASSUME Inv, Onward, Typed', NEW X,
         \A y \in Actors \ X : task'[y] = task[y],
         \A x \in X : Right(x)',
         \A m \in Messages :
           "SUCCESS" \in told'[m] => "SUCCESS" \in told[m] \/ Reported(m)',
         \A m \in Messages :
           mail'[m].place = "deleted" => mail[m].place = "deleted" \/ Settled(m)'
  PROVE  Inv'
<1>1. /\ Typed
      /\ \A m \in Messages : "SUCCESS" \in told[m] => Reported(m)
      /\ \A m \in Messages : mail[m].place = "deleted" => Settled(m)
      /\ \A x \in Actors : Right(x)
  BY InvOf DEF Inv
<1>2. \A m \in Messages : "SUCCESS" \in told'[m] => Reported(m)'
  BY <1>1, ReportedStays
<1>3. \A m \in Messages : mail'[m].place = "deleted" => Settled(m)'
  BY <1>1, SettledStays
<1>4. ASSUME NEW x \in Actors PROVE Right(x)'
  BY <1>1, RightStays
<1>5. (/\ \A m \in Messages : "SUCCESS" \in told[m] => Reported(m)
       /\ \A m \in Messages : mail[m].place = "deleted" => Settled(m)
       /\ \A x \in Actors : Right(x))'
  BY <1>2, <1>3, <1>4
<1> QED BY <1>5, InvOf, PTL

-----------------------------------------------------------------------------
(* One run, sync or admin makes a step, and holds n after it. *)
LEMMA RunStep ==
  ASSUME Inv, Onward, Tables', NEW x \in Actors, NEW n \in Memory,
         task' = [task EXCEPT ![x] = n],
         \A m \in n.done : Settled(m)',
         x \in Consumers \cup Syncs /\ n.pc = "put" =>
           \A p \in Parts : Has(n.base, p) => Has(n.draft, p),
         x \in Consumers /\ n.pc \in {"read", "put", "answer"} => Registering(x)',
         \A m \in Messages :
           "SUCCESS" \in told'[m] => "SUCCESS" \in told[m] \/ Reported(m)',
         \A m \in Messages :
           mail'[m].place = "deleted" => mail[m].place = "deleted" \/ Settled(m)'
  PROVE  Inv'
<1>1. task \in [Actors -> Memory]
  BY DEF Inv, Typed
<1>2. task'[x] = n /\ task' \in [Actors -> Memory]
      /\ \A y \in Actors \ {x} : task'[y] = task[y]
  BY <1>1
<1>3. Typed'
  BY <1>2 DEF Typed, Tables
<1>4. Right(x)'
  <2>1. \A m \in task'[x].done : Settled(m)'
    BY <1>2
  <2>2. x \in Consumers \cup Syncs /\ task'[x].pc = "put" =>
          \A p \in Parts : Has(task'[x].base, p) => Has(task'[x].draft, p)
    BY <1>2
  <2>3. x \in Consumers /\ task'[x].pc \in {"read", "put", "answer"}
          => Registering(x)'
    BY <1>2
  <2>4. (x \in Consumers \cup Syncs /\ task[x].pc = "put" =>
           \A p \in Parts : Has(task[x].base, p) => Has(task[x].draft, p))'
    BY <2>2 DEF Has, Places
  <2>5. (\A m \in task[x].done : Settled(m))'
    BY <2>1
  <2>6. (x \in Consumers /\ task[x].pc \in {"read", "put", "answer"}
          => Registering(x))'
    BY <2>3
  <2> QED BY <2>4, <2>5, <2>6 DEF Right
<1>5. PICK X : X = {x}
  OBVIOUS
<1>6. \A y \in X : Right(y)'
  BY <1>4, <1>5
<1>7. \A y \in Actors \ X : task'[y] = task[y]
  BY <1>2, <1>5
<1> QED BY <1>3, <1>6, <1>7, InvStep

(* The tables, and what does not change with them. *)
LEMMA Still ==
  ASSUME Inv, UNCHANGED <<doc, versions, spoilt, told, mute, mail>>
  PROVE  Onward /\ Tables' /\ \A m \in Messages : Settled(m) => Settled(m)'
BY DEF Onward, Inv, Typed, Tables, Stands, Has, Settled

(* A step of a run by itself. *)
LEMMA LocalStep ==
  ASSUME Inv, UNCHANGED <<doc, versions, spoilt, told, mute, mail>>,
         NEW x \in Actors, NEW n \in Memory, task' = [task EXCEPT ![x] = n],
         n.done \subseteq task[x].done,
         x \in Consumers \cup Syncs /\ n.pc = "put" =>
           \A p \in Parts : Has(n.base, p) => Has(n.draft, p),
         x \in Consumers /\ n.pc \in {"read", "put", "answer"} => Registering(x)'
  PROVE  Inv'
<1>1. \A m \in n.done : Settled(m)'
  <2>1. Right(x) /\ n.done \subseteq Messages
    BY InvOf DEF Inv, Memory
  <2> QED BY <2>1, Still DEF Right
<1>2. mail' = mail /\ told' = told
  OBVIOUS
<1> QED BY <1>1, <1>2, Still, RunStep

(* Whoever is idle holds nothing. *)
LEMMA IdleHolds ==
  Idle \in Memory /\ Idle.pc = "idle" /\ Idle.done = {}
BY DEF Idle, Memory, NoDoc, Document

(* A run ends, or is given up, and leaves everything as it is. *)
LEMMA EndStep ==
  ASSUME Inv, UNCHANGED <<doc, versions, spoilt, told, mute, mail>>,
         NEW x \in Actors, task' = [task EXCEPT ![x] = Idle]
  PROVE  Inv'
BY IdleHolds, LocalStep

(* What a run holds has its type. *)
LEMMA Held ==
  ASSUME Typed, NEW x \in Actors
  PROVE  /\ task[x] \in Memory
         /\ task[x].batch \in Seq(Messages) /\ task[x].done \subseteq Messages
         /\ task[x].batch # <<>> => /\ Head(task[x].batch) \in Messages
                                    /\ Tail(task[x].batch) \in Seq(Messages)
<1>1. task[x] \in Memory
  BY DEF Typed
<1>2. task[x].batch \in Seq(Messages) /\ task[x].done \subseteq Messages
  BY <1>1 DEF Memory
<1> QED BY <1>1, <1>2, HeadAndTail

(* Another message is done with: it was answered, or expects no answer. *)
LEMMA ProcessedStep ==
  ASSUME Inv, Onward, Tables', NEW c \in Consumers,
         task[c].batch # <<>>, Processed(c), mail' = mail,
         NEW m, m = Current(c), Settled(m)',
         \A k \in Messages :
           "SUCCESS" \in told'[k] => "SUCCESS" \in told[k] \/ Reported(k)'
  PROVE  Inv'
<1>1. c \in Actors /\ Typed
  BY DEF Actors, Inv
<1>2. PICK n : n = [Idle EXCEPT !.pc = "batch", !.batch = Tail(task[c].batch),
                 !.count = task[c].count + 1,
                 !.done = task[c].done \cup {Current(c)}]
  OBVIOUS
<1>4. m \in Messages
  BY <1>1, Held DEF Current
<1>5. n = [pc |-> "batch", batch |-> Tail(task[c].batch), done |-> task[c].done \cup {m},
           count |-> task[c].count + 1, stage |-> "spoke", entry |-> {},
           base |-> NoDoc, draft |-> NoDoc]
  BY <1>2, <1>4 DEF Idle
<1>6. n \in Memory
  <2>1. NoDoc \in Document
    BY DEF NoDoc, Document
  <2>2. task[c].count + 1 \in Nat
    BY <1>1, Held DEF Memory
  <2>3. Tail(task[c].batch) \in Seq(Messages) /\ task[c].done \cup {m} \subseteq Messages
    BY <1>1, <1>4, Held
  <2> QED BY <1>5, <2>1, <2>2, <2>3 DEF Memory
<1>7. n.pc = "batch" /\ n.done = task[c].done \cup {m}
  BY <1>5
<1>8. task' = [task EXCEPT ![c] = n]
  BY <1>2 DEF Processed
<1>9. \A k \in n.done : Settled(k)'
  <2>1. Right(c) /\ task[c].done \subseteq Messages
    BY <1>1, InvOf, Held
  <2> QED BY <1>7, <2>1, SettledStays DEF Right
<1> QED BY <1>1, <1>6, <1>7, <1>8, <1>9, RunStep

(* The message was answered, as far as the run knows. *)
LEMMA Responds ==
  ASSUME Inv, NEW c \in Consumers, task[c].batch # <<>>,
         UNCHANGED <<doc, versions, spoilt, mail>>,
         NEW status \in {"SUCCESS", "FAILED"}, Respond(c, status),
         NEW m, m = Current(c)
  PROVE  /\ Onward /\ Tables' /\ Settled(m)' /\ m \in Messages
         /\ \A k \in Messages : "SUCCESS" \in told'[k] =>
              "SUCCESS" \in told[k] \/ (k = m /\ status = "SUCCESS")
<1>1. m \in Messages
  BY Held DEF Inv, Actors, Current
<1>2. told \in [Messages -> SUBSET {"SUCCESS", "FAILED"}] /\ mute \subseteq Messages
  BY DEF Inv, Typed
<1>3. \/ told' = [told EXCEPT ![m] = @ \cup {status}] /\ mute' = mute
      \/ told' = told /\ mute' = mute \cup {m}
  BY DEF Respond
<1>4. /\ told' \in [Messages -> SUBSET {"SUCCESS", "FAILED"}]
      /\ mute' \subseteq Messages /\ mute \subseteq mute'
      /\ \A k \in Messages : told[k] \subseteq told'[k]
      /\ \A k \in Messages : "SUCCESS" \in told'[k] =>
           "SUCCESS" \in told[k] \/ (k = m /\ status = "SUCCESS")
      /\ told'[m] # {} \/ m \in mute'
  BY <1>1, <1>2, <1>3
<1>5. Tables'
  BY <1>4 DEF Inv, Typed, Tables
<1>6. Onward
  BY <1>4 DEF Onward, Stands, Has
<1>7. Settled(m)'
  BY <1>4 DEF Settled
<1> QED BY <1>1, <1>4, <1>5, <1>6, <1>7

(* The message is answered and done with; a success must be one. *)
LEMMA RespondedStep ==
  ASSUME Inv, NEW c \in Consumers, task[c].batch # <<>>,
         UNCHANGED <<doc, versions, spoilt, mail>>,
         NEW status \in {"SUCCESS", "FAILED"}, Respond(c, status), Processed(c),
         \A m \in Messages : m = Current(c) /\ status = "SUCCESS" => Reported(m)
  PROVE  Inv'
<1>1. PICK m : m = Current(c)
  OBVIOUS
<1>2. /\ Onward /\ Tables' /\ Settled(m)' /\ m \in Messages
      /\ \A k \in Messages : "SUCCESS" \in told'[k] =>
              "SUCCESS" \in told[k] \/ (k = m /\ status = "SUCCESS")
  BY <1>1, Responds
<1>3. status = "SUCCESS" => Reported(m)'
  BY <1>1, <1>2, ReportedStays DEF Inv
<1>4. \A k \in Messages :
        "SUCCESS" \in told'[k] => "SUCCESS" \in told[k] \/ Reported(k)'
  BY <1>2, <1>3
<1>5. mail' = mail
  OBVIOUS
<1> QED BY <1>1, <1>2, <1>4, <1>5, ProcessedStep

(* What the loop does with a message that it does not register. *)
LEMMA LoopSteps ==
  ASSUME Inv, NEW c \in Consumers,
         \/ PollNothing(c) \/ BreakAtLimit(c) \/ Malformed(c) \/ Raise(c)
         \/ Ignore(c) \/ RespondAtOnce(c) \/ NoHub(c) \/ NotAssumable(c)
  PROVE  Inv'
<1>1. c \in Actors
  BY DEF Actors
<1>2. CASE PollNothing(c) \/ BreakAtLimit(c) \/ Malformed(c) \/ Raise(c)
  BY <1>1, <1>2, EndStep DEF PollNothing, BreakAtLimit, Malformed, Raise
<1>3. CASE Ignore(c)
  <2>1. PICK m : m = Current(c)
    OBVIOUS
  <2>2. m \in Messages /\ mail[m].kind = "unsupported" /\ task[c].batch # <<>>
        /\ Processed(c)
    BY <1>1, <1>3, <2>1, Held DEF Ignore, Inv, InBatch, Letters, Current
  <2>3. Settled(m)'
    BY <1>3, <2>2 DEF Settled, Ignore
  <2>4. UNCHANGED <<doc, versions, spoilt, told, mute, mail>>
    BY <1>3 DEF Ignore
  <2>5. Onward /\ Tables'
    BY <2>4, Still
  <2>6. mail' = mail /\ told' = told
    BY <2>4
  <2> QED BY <2>1, <2>2, <2>3, <2>5, <2>6, ProcessedStep
<1>4. CASE RespondAtOnce(c)
  <2>1. \/ Letters(c).kind = "update" /\ Respond(c, "SUCCESS")
        \/ Respond(c, "FAILED")
    BY <1>4 DEF RespondAtOnce
  <2>2. Letters(c).kind = "update" => \A m \in Messages : m = Current(c) => Reported(m)
    BY DEF Letters, Reported
  <2> QED BY <1>4, <2>1, <2>2, RespondedStep DEF RespondAtOnce, InBatch
<1>5. CASE NoHub(c)
  BY <1>5, RespondedStep DEF NoHub, InBatch
<1>6. CASE NotAssumable(c)
  BY <1>6, RespondedStep DEF NotAssumable, Registrable, InBatch
<1> QED BY <1>2, <1>3, <1>4, <1>5, <1>6

(* What the loop receives, and what it deletes once a batch is done with. *)
LEMMA BatchSteps ==
  ASSUME Inv, NEW c \in Consumers, Receive(c) \/ DeleteBatch(c)
  PROVE  Inv'
<1>1. c \in Actors /\ task[c] \in Memory /\ task \in [Actors -> Memory]
      /\ mail \in [Messages -> Letter]
  BY DEF Actors, Inv, Typed
<1>2. CASE Receive(c)
  <2>1. PICK s \in Batches :
          /\ mail' = [m \in Messages |->
               IF Contains(s, m) THEN [mail[m] EXCEPT !.place = "invisible"]
               ELSE mail[m]]
          /\ task' = [task EXCEPT ![c].pc = "batch", ![c].batch = s]
    BY <1>2 DEF Receive
  <2>2. PICK n : n = [task[c] EXCEPT !.pc = "batch", !.batch = s]
    OBVIOUS
  <2>3. s \in Seq(Messages)
    <3>1. s \in BoundedSeq({m \in Messages : mail[m].place = "visible"}, BatchSize)
      BY DEF Batches
    <3>2. PICK k \in 0 .. BatchSize :
            s \in [1 .. k -> {m \in Messages : mail[m].place = "visible"}]
      BY <3>1 DEF BoundedSeq, SeqOf
    <3>3. s \in [1 .. k -> Messages] /\ k \in Nat
      BY <3>2, SizesAssumption
    <3> QED BY <3>3
  <2>4. n \in Memory /\ n.pc = "batch" /\ n.done = task[c].done
    BY <1>1, <2>2, <2>3 DEF Memory
  <2>5. task' = [task EXCEPT ![c] = n]
    BY <1>1, <2>1, <2>2
  <2>6. \A m \in Messages : /\ mail'[m].kind = mail[m].kind
                            /\ mail'[m].account = mail[m].account
                            /\ mail'[m].place \in {mail[m].place, "invisible"}
    BY <1>1, <2>1 DEF Letter
  <2>7. mail' \in [Messages -> Letter]
    BY <1>1, <2>1 DEF Letter
  <2>8. UNCHANGED <<doc, versions, told, mute, spoilt>>
    BY <1>2 DEF Receive
  <2>9. Onward /\ Tables'
    BY <2>6, <2>7, <2>8 DEF Onward, Tables, Inv, Typed, Stands, Has
  <2>10. \A m \in n.done : Settled(m)'
    <3>1. Right(c) /\ task[c].done \subseteq Messages
      BY <1>1, InvOf, Held DEF Inv
    <3> QED BY <2>4, <2>9, <3>1, SettledStays DEF Right
  <2>11. told' = told
    BY <2>8
  <2> QED BY <1>1, <2>4, <2>5, <2>6, <2>9, <2>10, <2>11, RunStep
<1>3. CASE DeleteBatch(c)
  <2>1. /\ mail' = [m \in Messages |->
             IF m \in task[c].done THEN [mail[m] EXCEPT !.place = "deleted"]
             ELSE mail[m]]
        /\ task' = [task EXCEPT ![c].pc = "poll", ![c].done = {}]
        /\ UNCHANGED <<doc, versions, told, mute, spoilt>>
    BY <1>3 DEF DeleteBatch
  <2>2. PICK n : n = [task[c] EXCEPT !.pc = "poll", !.done = {}]
    OBVIOUS
  <2>3. n \in Memory /\ n.pc = "poll" /\ n.done = {}
    BY <1>1, <2>2 DEF Memory
  <2>4. task' = [task EXCEPT ![c] = n]
    BY <1>1, <2>1, <2>2
  <2>5. \A m \in Messages :
          /\ mail'[m].kind = mail[m].kind /\ mail'[m].account = mail[m].account
          /\ mail'[m].place = "deleted" =>
               mail[m].place = "deleted" \/ m \in task[c].done
    BY <1>1, <2>1 DEF Letter
  <2>6. mail' \in [Messages -> Letter]
    BY <1>1, <2>1 DEF Letter
  <2>7. Onward /\ Tables'
    BY <2>1, <2>5, <2>6 DEF Onward, Tables, Inv, Typed, Stands, Has
  <2>8. \A m \in Messages : mail'[m].place = "deleted" =>
               mail[m].place = "deleted" \/ Settled(m)'
    <3>1. Right(c)
      BY <1>1, InvOf DEF Inv
    <3> QED BY <2>5, <2>7, <3>1, SettledStays DEF Right
  <2>9. told' = told
    BY <2>1
  <2> QED BY <1>1, <2>3, <2>4, <2>7, <2>8, <2>9, RunStep
<1> QED BY <1>2, <1>3

(***************************************************************************)
(* The registration of an account, of which every step finds what the one  *)
(* before has left.                                                        *)
(***************************************************************************)
LEMMA AcceptStep ==
  ASSUME Inv, NEW c \in Consumers, Accept(c)
  PROVE  Inv'
<1>1. c \in Actors /\ task[c] \in Memory /\ task \in [Actors -> Memory]
  BY DEF Actors, Inv, Typed
<1>2. PICK n : n = [task[c] EXCEPT !.pc = "read",
       !.stage = IF Letters(c).kind = "central" THEN "hub" ELSE "spoke"]
  OBVIOUS
<1>3. /\ n \in Memory /\ n.pc = "read" /\ n.done = task[c].done
      /\ n.batch = task[c].batch
      /\ n.stage = "hub" <=> Letters(c).kind = "central"
  BY <1>1, <1>2 DEF Memory
<1>4. task' = [task EXCEPT ![c] = n] /\ task'[c] = n
  BY <1>1, <1>2 DEF Accept
<1>5. UNCHANGED <<doc, versions, spoilt, told, mute, mail>>
  BY DEF Accept
<1>6. n.batch # <<>> /\ Letters(c).kind \in {"spoke", "central"}
  BY <1>3 DEF Accept, Registrable, InBatch
<1>7. Registering(c)'
  <2>1. PICK kind : kind = Letters(c).kind
    OBVIOUS
  <2>2. kind = mail'[Head(task'[c].batch)].kind
    BY <1>3, <1>4, <1>5, <2>1 DEF Letters, Current
  <2> QED BY <1>3, <1>4, <1>6, <2>1, <2>2 DEF Registering, Letters, Current
<1> QED BY <1>1, <1>3, <1>4, <1>5, <1>7, LocalStep

(* The answer of success comes when everything was written. *)
LEMMA AnswerStep ==
  ASSUME Inv, NEW c \in Consumers, Answer(c)
  PROVE  Inv'
<1>1. c \in Actors /\ Registering(c) /\ task[c].pc = "answer"
  BY DEF Actors, Inv, RegistryInv, Answer
<1>2. \A m \in Messages : m = Current(c) => Reported(m)
  BY <1>1 DEF Registering, Reported, Letters
<1> QED BY <1>1, <1>2, RespondedStep DEF Answer, Registering

(* A draft with the hub, and one with an entry more, have all the rest. *)
Keeps(d, draft) == \A p \in Parts : Has(d, p) => Has(draft, p)

(* The hub is set. *)
LEMMA HubDraft ==
  ASSUME NEW d \in Document, NEW draft, draft = [d EXCEPT !.hub = TRUE]
  PROVE  draft \in Document /\ Keeps(d, draft) /\ Has(draft, Hub)
<1>1. draft \in Document /\ draft.hub /\ draft.spokes = d.spokes
  BY DEF Document
<1> QED BY <1>1 DEF Keeps, Has

(* An entry is stored. *)
LEMMA SpokesDraft ==
  ASSUME NEW d \in Document, NEW e \in Entry, NEW t, Adds(t, d.spokes, e),
         NEW draft, draft = [d EXCEPT !.spokes = t]
  PROVE  draft \in Document /\ Keeps(d, draft) /\ Has(draft, e.account)
<1>1. draft \in Document /\ draft.hub = d.hub /\ draft.spokes = t
  BY DEF Document, Adds
<1>2. e.account # Hub
  BY HubAssumption DEF Entry
<1> QED BY <1>1, <1>2 DEF Keeps, Has, Adds

(* What is held once the document was read and the change made to the copy. *)
LEMMA ReadHolds ==
  ASSUME Typed, NEW x \in Actors, NEW base \in Document, NEW draft \in Document,
         Read(x, base, draft)
  PROVE  \E n \in Memory :
           /\ task' = [task EXCEPT ![x] = n] /\ task'[x] = n
           /\ n.pc = "put" /\ n.base = base /\ n.draft = draft
           /\ n.done = task[x].done /\ n.batch = task[x].batch
           /\ n.stage = task[x].stage /\ n.count = task[x].count
           /\ n.entry = task[x].entry
<1>1. task[x] \in Memory /\ task \in [Actors -> Memory]
  BY DEF Typed
<1>2. PICK n : n = [task[x] EXCEPT !.pc = "put", !.base = base, !.draft = draft]
  OBVIOUS
<1>3. /\ n \in Memory /\ n.pc = "put" /\ n.base = base /\ n.draft = draft
      /\ n.done = task[x].done /\ n.batch = task[x].batch
      /\ n.stage = task[x].stage /\ n.count = task[x].count
      /\ n.entry = task[x].entry
  BY <1>1, <1>2 DEF Memory
<1>4. task' = [task EXCEPT ![x] = n]
  BY <1>1, <1>2 DEF Read
<1> QED BY <1>1, <1>3, <1>4

(* The draft of a registration has what it is to register. *)
LEMMA ReadConfigStep ==
  ASSUME Inv, NEW c \in Consumers, ReadConfig(c)
  PROVE  Inv'
<1> PICK d \in Readable :
      Read(c, d, IF task[c].stage = "hub" THEN [d EXCEPT !.hub = TRUE]
                 ELSE [d EXCEPT !.spokes =
                         StoreEqual(@, Registered(Letters(c).account))])
  BY DEF ReadConfig
<1>1. /\ c \in Actors /\ Typed /\ d \in Document /\ d.spokes \in Seq(Entry)
      /\ Registering(c)
  BY ReadableTyped DEF Actors, Inv, RegistryInv, ReadConfig
<1>2. UNCHANGED <<doc, versions, spoilt, told, mute, mail>>
  BY DEF ReadConfig
<1>3. PICK m : m = Current(c)
  OBVIOUS
<1>4. m \in Messages /\ mail[m].account \in Accounts
  BY <1>1, <1>3, Held DEF Current, Registering, Typed, Letter
<1>5. PICK w : w = IF task[c].stage = "hub" THEN Hub ELSE mail[m].account
  OBVIOUS
<1>6. PICK draft \in Document : Read(c, d, draft) /\ Keeps(d, draft) /\ Has(draft, w)
  <2>1. CASE task[c].stage = "hub"
    <3>1. PICK draft : draft = [d EXCEPT !.hub = TRUE]
      OBVIOUS
    <3>2. Read(c, d, draft)
      BY <2>1, <3>1
    <3> QED BY <1>1, <1>5, <2>1, <3>1, <3>2, HubDraft
  <2>2. CASE task[c].stage # "hub"
    <3>1. PICK e : e = Registered(mail[m].account)
      OBVIOUS
    <3>2. e \in Entry /\ e.account = mail[m].account
      BY <1>4, <3>1 DEF Registered, Entry
    <3>3. PICK t : t = StoreEqual(d.spokes, e)
      OBVIOUS
    <3>4. PICK draft : draft = [d EXCEPT !.spokes = t]
      OBVIOUS
    <3>5. Adds(t, d.spokes, e)
      BY <1>1, <3>2, <3>3, EqualAdds
    <3>6. Read(c, d, draft)
      BY <1>3, <2>2, <3>1, <3>3, <3>4 DEF Letters
    <3> QED BY <1>1, <1>5, <2>2, <3>2, <3>4, <3>5, <3>6, SpokesDraft
  <2> QED BY <2>1, <2>2
<1>7. PICK n \in Memory :
        /\ task' = [task EXCEPT ![c] = n] /\ task'[c] = n
        /\ n.pc = "put" /\ n.base = d /\ n.draft = draft
        /\ n.done = task[c].done /\ n.batch = task[c].batch
        /\ n.stage = task[c].stage
  BY <1>1, <1>6, ReadHolds
<1>8. Registering(c)'
  <2>1. /\ n.batch # <<>>
        /\ mail[m].kind \in {"spoke", "central"}
        /\ n.stage = "hub" => mail[m].kind = "central"
        /\ n.stage # "hub" /\ mail[m].kind = "central" => Stands(Hub)
    BY <1>1, <1>3, <1>7 DEF Registering, Letters
  <2>2. Has(n.draft, IF n.stage = "hub" THEN Hub ELSE mail[m].account)
    BY <1>5, <1>6, <1>7
  <2>3. m = Head(n.batch) /\ mail' = mail /\ n.pc = "put" /\ task'[c] = n
    BY <1>2, <1>3, <1>7 DEF Current
  <2>4. Stands(Hub)' <=> Stands(Hub)
    BY <1>2 DEF Stands, Has
  <2> QED BY <2>1, <2>2, <2>3, <2>4 DEF Registering, Letters, Current, Has, Places
<1>9. \A p \in Parts : Has(n.base, p) => Has(n.draft, p)
  BY <1>6, <1>7 DEF Keeps
<1> QED BY <1>1, <1>2, <1>7, <1>8, <1>9, LocalStep

(***************************************************************************)
(* A draft is written over whatever the document has become since it was   *)
(* read.  What was in the document is in it still, or counts as spoilt.    *)
(***************************************************************************)
LEMMA PutOnward ==
  ASSUME Inv, NEW x \in Actors, Put(x), UNCHANGED <<mail, told, mute>>,
         spoilt' \subseteq Parts,
         \A p \in Parts : Has(doc, p) => Has(task[x].draft, p) \/ p \in spoilt',
         \A p \in spoilt : Has(task[x].draft, p) \/ p \in spoilt'
  PROVE  Onward /\ Tables'
<1>1. {doc'} \cup versions' \subseteq Document
  BY DEF Put, Inv, Typed, Memory
<1>2. \A p \in Parts : Stands(p) => Stands(p)'
  <2>1. doc' = task[x].draft
    BY DEF Put
  <2> QED BY <2>1 DEF Stands, Has, Places
<1> QED BY <1>1, <1>2 DEF Onward, Tables, Inv, Typed

(* Whatever the draft takes out of the document is dropped. *)
LEMMA DroppedParts ==
  ASSUME NEW x \in Actors
  PROVE  Dropped(x) \subseteq Parts
         /\ \A p \in Parts : Has(doc, p) => Has(task[x].draft, p) \/ p \in Dropped(x)
BY DEF Dropped

(* Once the draft of a registration is written, what it registers stands. *)
LEMMA StoreConfigStep ==
  ASSUME Inv, NEW c \in Consumers, StoreConfig(c)
  PROVE  Inv'
<1>1. /\ c \in Actors /\ Typed /\ Registering(c) /\ task[c].pc = "put" /\ Right(c)
      /\ task[c] \in Memory /\ task \in [Actors -> Memory]
  BY InvOf DEF Actors, Inv, Typed, RegistryInv, StoreConfig, Put
<1>2. PICK m : m = Current(c)
  OBVIOUS
<1>3. m \in Messages
  BY <1>1, <1>2, Held DEF Current, Registering
<1>4. PICK w : w = IF task[c].stage = "hub" THEN Hub ELSE mail[m].account
  OBVIOUS
<1>5. w \in Parts /\ Has(task[c].draft, w)
  BY <1>1, <1>2, <1>3, <1>4, PartsOf DEF Registering, Letters
<1>6. spoilt' = (spoilt \cup (IF doc = task[c].base THEN {} ELSE Dropped(c))) \ {w}
  BY <1>2, <1>4 DEF StoreConfig, Letters
<1>7. \A p \in Parts : Has(doc, p) => Has(task[c].draft, p) \/ p \in spoilt'
  <2>1. CASE doc = task[c].base
    BY <1>1, <2>1 DEF Right
  <2>2. CASE doc # task[c].base
    BY <1>1, <1>5, <1>6, <2>2, DroppedParts
  <2> QED BY <2>1, <2>2
<1>8. spoilt' \subseteq Parts /\ \A p \in spoilt : Has(task[c].draft, p) \/ p \in spoilt'
  BY <1>1, <1>5, <1>6, DroppedParts DEF Typed
<1>9. Put(c) /\ UNCHANGED <<mail, told, mute>>
  BY DEF StoreConfig
<1>10. Onward /\ Tables'
  BY <1>1, <1>7, <1>8, <1>9, PutOnward
<1>11. PICK n : n = [task[c] EXCEPT
         !.pc = IF task[c].stage = "hub" THEN "read" ELSE "answer",
         !.stage = "spoke", !.base = NoDoc, !.draft = NoDoc]
  OBVIOUS
<1>12. /\ n \in Memory /\ n.batch = task[c].batch /\ n.done = task[c].done
       /\ n.stage = "spoke"
       /\ n.pc = IF task[c].stage = "hub" THEN "read" ELSE "answer"
  <2>1. NoDoc \in Document
    BY DEF NoDoc, Document
  <2>2. PICK pc : pc = IF task[c].stage = "hub" THEN "read" ELSE "answer"
    OBVIOUS
  <2>3. pc \in {"read", "answer"}
    BY <2>2
  <2>4. n = [task[c] EXCEPT !.pc = pc, !.stage = "spoke", !.base = NoDoc,
                            !.draft = NoDoc]
    BY <1>11, <2>2
  <2>5. n \in Memory /\ n.pc = pc /\ n.batch = task[c].batch
        /\ n.done = task[c].done /\ n.stage = "spoke"
    BY <1>1, <2>1, <2>3, <2>4 DEF Memory
  <2> QED BY <2>2, <2>5
<1>13. task' = [task EXCEPT ![c] = n] /\ task'[c] = n
  BY <1>1, <1>11 DEF StoreConfig
<1>14. Stands(w)'
  <2>1. doc' = task[c].draft
    BY DEF StoreConfig, Put
  <2> QED BY <1>5, <2>1 DEF Stands, Has, Places
<1>15. Stands(Hub) => Stands(Hub)'
  BY <1>10 DEF Onward, Parts
<1>16. Registering(c)'
  <2>1. /\ n.batch # <<>> /\ mail[m].kind \in {"spoke", "central"}
        /\ task[c].stage # "hub" /\ mail[m].kind = "central" => Stands(Hub)
    BY <1>1, <1>2, <1>12 DEF Registering, Letters
  <2>2. m = Head(n.batch) /\ mail' = mail
    BY <1>2, <1>9, <1>12 DEF Current
  <2>3. mail[m].kind = "central" => Stands(Hub)'
    <3>1. CASE task[c].stage = "hub"
      <4>1. w = Hub
        BY <1>4, <3>1
      <4> QED BY <1>14, <4>1 DEF Stands
    <3>2. CASE task[c].stage # "hub"
      BY <1>15, <2>1, <3>2
    <3> QED BY <3>1, <3>2
  <2>4. task[c].stage # "hub" => w = mail[m].account
    BY <1>4
  <2>5. n.pc = "answer" => task[c].stage # "hub"
    BY <1>12
  <2> QED BY <1>12, <1>13, <1>14, <2>1, <2>2, <2>3, <2>4, <2>5
          DEF Registering, Letters, Current, Stands
<1>17. \A k \in n.done : Settled(k)'
  BY <1>1, <1>10, <1>12, SettledStays, Held DEF Right
<1>18. n.pc # "put" /\ mail' = mail /\ told' = told
  BY <1>9, <1>12
<1> QED BY <1>1, <1>10, <1>12, <1>13, <1>16, <1>17, <1>18, RunStep

(* The draft of a sync or of an admin is written. *)
LEMMA StoreStep ==
  ASSUME Inv, NEW x \in Syncs \cup Admins,
         (x \in Syncs /\ StoreOfSync(x)) \/ StoreOfAdmin(x)
  PROVE  Inv'
<1>1. x \in Actors /\ Right(x) /\ spoilt \subseteq Parts
  BY InvOf DEF Actors, Inv, Typed
<1>2. /\ Put(x) /\ task[x].pc = "put" /\ UNCHANGED <<mail, told, mute>>
      /\ task' = [task EXCEPT ![x] = Idle]
  BY DEF StoreOfSync, StoreOfAdmin, Put
<1>3. /\ \A p \in Parts : Has(doc, p) => Has(task[x].draft, p) \/ p \in spoilt'
      /\ spoilt' \subseteq Parts /\ spoilt \subseteq spoilt'
  <2>1. CASE x \in Syncs /\ StoreOfSync(x)
    <3>1. spoilt' = spoilt \cup (IF doc = task[x].base THEN {} ELSE Dropped(x))
      BY <2>1 DEF StoreOfSync
    <3>2. CASE doc = task[x].base
      BY <1>1, <1>2, <2>1, <3>1, <3>2 DEF Right
    <3>3. CASE doc # task[x].base
      BY <1>1, <3>1, <3>3, DroppedParts
    <3> QED BY <3>2, <3>3
  <2>2. CASE StoreOfAdmin(x)
    BY <1>1, <2>2, DroppedParts DEF StoreOfAdmin
  <2> QED BY <2>1, <2>2
<1>4. Onward /\ Tables'
  BY <1>1, <1>2, <1>3, PutOnward
<1>5. PICK n : n = Idle
  OBVIOUS
<1>6. /\ n \in Memory /\ n.pc = "idle" /\ n.done = {}
      /\ task' = [task EXCEPT ![x] = n] /\ mail' = mail /\ told' = told
  BY <1>2, <1>5, IdleHolds
<1> QED BY <1>1, <1>4, <1>6, RunStep

-----------------------------------------------------------------------------
(* A sync takes up an account, and makes its draft of the document. *)
LEMMA StartStep ==
  ASSUME Inv, NEW y \in Syncs, NEW e \in Entry, Start(y, e)
  PROVE  Inv'
<1>1. /\ y \in Actors /\ y \notin Consumers
      /\ task[y] \in Memory /\ task \in [Actors -> Memory]
  BY ActorsAssumption DEF Actors, Inv, Typed
<1>2. PICK n : n = [task[y] EXCEPT !.pc = "read", !.entry = {e}]
  OBVIOUS
<1>3. n \in Memory /\ n.pc = "read" /\ n.done = task[y].done
  BY <1>1, <1>2 DEF Memory
<1>4. task' = [task EXCEPT ![y] = n]
  BY <1>1, <1>2 DEF Start
<1>5. UNCHANGED <<doc, versions, spoilt, told, mute, mail>>
  BY DEF Start
<1> QED BY <1>1, <1>3, <1>4, <1>5, LocalStep

(* An account of the organization, or one that was read from a copy. *)
LEMMA SyncSteps ==
  ASSUME Inv, NEW y \in Syncs, NEW a \in Accounts, Onboard(y, a) \/ FindOut(y, a)
  PROVE  Inv'
<1>1. CASE Onboard(y, a)
  <2>1. PICK e : e = Onboarded(a)
    OBVIOUS
  <2>2. e \in Entry
    BY <2>1 DEF Entry, Onboarded
  <2>3. Start(y, e)
    BY <1>1, <2>1 DEF Onboard
  <2> QED BY <2>2, <2>3, StartStep
<1>2. CASE FindOut(y, a)
  <2>1. PICK d \in Readable :
          LET entry == d.spokes[FirstOf(d.spokes, a)]
          IN  /\ Places(d.spokes, a) # {}
              /\ Start(y, [entry EXCEPT !.checked = TRUE])
    BY <1>2 DEF FindOut
  <2> PICK s : s = d.spokes
    OBVIOUS
  <2>2. s \in Seq(Entry) /\ Places(s, a) # {}
    BY <2>1, ReadableTyped DEF Inv
  <2>3. PICK k : k = FirstOf(s, a)
    OBVIOUS
  <2>4. k \in DOMAIN s
    BY <2>2, <2>3, FirstPlace DEF Places
  <2>5. s[k] \in Entry
    BY <2>2, <2>4
  <2>6. PICK e : e = [s[k] EXCEPT !.checked = TRUE]
    OBVIOUS
  <2>7. e \in Entry
    BY <2>5, <2>6 DEF Entry
  <2>8. Start(y, e)
    BY <2>1, <2>3, <2>6
  <2> QED BY <2>7, <2>8, StartStep
<1> QED BY <1>1, <1>2

(* A sync stores an entry, and takes none away. *)
LEMMA ReadForSyncStep ==
  ASSUME Inv, NEW y \in Syncs, ReadForSync(y)
  PROVE  Inv'
<1> PICK d \in Readable :
      \E e \in task[y].entry :
        Read(y, d, [d EXCEPT !.spokes =
                      IF e.by = "sync" /\ ~e.checked THEN StoreEqual(@, e)
                      ELSE StoreByAccount(@, e)])
  BY DEF ReadForSync
<1>1. /\ y \in Actors /\ y \notin Consumers /\ Typed
      /\ d \in Document /\ d.spokes \in Seq(Entry) /\ task[y].entry \subseteq Entry
  BY ActorsAssumption, ReadableTyped, Held DEF Actors, Inv, Memory
<1>2. UNCHANGED <<doc, versions, spoilt, told, mute, mail>>
  BY DEF ReadForSync
<1>3. PICK e \in task[y].entry :
        Read(y, d, [d EXCEPT !.spokes =
                      IF e.by = "sync" /\ ~e.checked THEN StoreEqual(@, e)
                      ELSE StoreByAccount(@, e)])
  OBVIOUS
<1>4. PICK t : t = IF e.by = "sync" /\ ~e.checked THEN StoreEqual(d.spokes, e)
                   ELSE StoreByAccount(d.spokes, e)
  OBVIOUS
<1>5. e \in Entry /\ Adds(t, d.spokes, e)
  BY <1>1, <1>4, EqualAdds, AccountAdds
<1>6. PICK draft : draft = [d EXCEPT !.spokes = t]
  OBVIOUS
<1>7. Read(y, d, draft) /\ draft \in Document /\ Keeps(d, draft)
  BY <1>1, <1>3, <1>4, <1>5, <1>6, SpokesDraft
<1>8. PICK n \in Memory :
        /\ task' = [task EXCEPT ![y] = n] /\ n.pc = "put" /\ n.base = d
        /\ n.draft = draft /\ n.done = task[y].done
  BY <1>1, <1>7, ReadHolds
<1>9. \A p \in Parts : Has(n.base, p) => Has(n.draft, p)
  BY <1>7, <1>8 DEF Keeps
<1> QED BY <1>1, <1>2, <1>8, <1>9, LocalStep

(* An admin changes the accounts as they like. *)
LEMMA EditStep ==
  ASSUME Inv, NEW x \in Admins, NEW base, NEW draft \in Document, Edit(x, base, draft)
  PROVE  Inv'
<1>1. x \in Actors /\ x \notin Consumers \cup Syncs /\ Typed
  BY ActorsAssumption DEF Actors, Inv
<1>2. /\ UNCHANGED <<doc, versions, spoilt, told, mute, mail>>
      /\ Read(x, base, draft) /\ base \in Document
  BY <1>1, ReadableTyped DEF Edit, Read
<1>3. PICK n \in Memory :
        task' = [task EXCEPT ![x] = n] /\ n.pc = "put" /\ n.done = task[x].done
  BY <1>1, <1>2, ReadHolds
<1> QED BY <1>1, <1>2, <1>3, LocalStep

(* The handlers of the settings page. *)
LEMMA AdminSteps ==
  ASSUME Inv, NEW x \in Admins,
         \/ PostHub(x) \/ DeleteHub(x)
         \/ \E a \in Accounts :
              DeleteSpoke(x, a) \/ \E checked \in BOOLEAN : PostSpoke(x, a, checked)
  PROVE  Inv'
<1>1. \A d \in Readable : d \in Document /\ d.spokes \in Seq(Entry)
  BY ReadableTyped DEF Inv
<1>2. \A d \in Readable, h \in BOOLEAN : [d EXCEPT !.hub = h] \in Document
  BY <1>1 DEF Document
<1>3. \A d \in Readable, s \in Seq(Entry) : [d EXCEPT !.spokes = s] \in Document
  BY <1>1 DEF Document
<1>4. CASE PostHub(x) \/ DeleteHub(x)
  <2>1. PICK d \in Readable, h \in BOOLEAN : Edit(x, d, [d EXCEPT !.hub = h])
    BY <1>4 DEF PostHub, DeleteHub
  <2> QED BY <1>2, <2>1, EditStep
<1>5. ASSUME NEW a \in Accounts, DeleteSpoke(x, a) PROVE Inv'
  <2> PICK d \in Readable :
        \E s \in Removals(d.spokes, a) : Edit(x, d, [d EXCEPT !.spokes = s])
    BY <1>5 DEF DeleteSpoke
  <2>1. PICK s \in Removals(d.spokes, a) : Edit(x, d, [d EXCEPT !.spokes = s])
    OBVIOUS
  <2>2. PICK keep : s \in Left(d.spokes, keep)
    BY <2>1 DEF Removals
  <2>3. s \in Seq(Entry)
    BY <1>1, <2>2, LeftTyped
  <2> QED BY <1>3, <2>1, <2>3, EditStep
<1>6. ASSUME NEW a \in Accounts, NEW checked \in BOOLEAN, PostSpoke(x, a, checked)
      PROVE  Inv'
  <2>1. PICK e : e = [account |-> a, by |-> "admin", checked |-> checked]
    OBVIOUS
  <2>2. e \in Entry
    BY <2>1 DEF Entry
  <2>3. PICK d \in Readable : Edit(x, d, [d EXCEPT !.spokes = StoreByAccount(@, e)])
    BY <1>6, <2>1 DEF PostSpoke
  <2>4. StoreByAccount(d.spokes, e) \in Seq(Entry)
    BY <1>1, <2>2, AccountAdds DEF Adds
  <2>5. Edit(x, d, [d EXCEPT !.spokes = StoreByAccount(d.spokes, e)])
    BY <2>3
  <2> QED BY <1>3, <2>4, <2>5, EditStep
<1> QED BY <1>4, <1>5, <1>6

(* What CloudFormation and SQS do. *)
LEMMA OutsideSteps ==
  ASSUME Inv, NEW m \in Messages, Send(m) \/ Expire(m)
  PROVE  Inv'
<1>1. mail \in [Messages -> Letter] /\ Typed
  BY DEF Inv, Typed
<1>2. /\ mail' \in [Messages -> Letter]
      /\ \A k \in Messages :
           /\ mail'[k].kind = mail[k].kind /\ mail'[k].account = mail[k].account
           /\ mail'[k].place = "deleted" => mail[k].place = "deleted"
  <2>1. mail' = [mail EXCEPT ![m].place = "visible"]
    BY DEF Send, Expire
  <2> QED BY <1>1, <2>1 DEF Letter
<1>3. UNCHANGED <<doc, versions, task, told, mute, spoilt>>
  BY DEF Send, Expire
<1>4. Typed'
  BY <1>1, <1>2, <1>3 DEF Typed
<1>5. Onward
  BY <1>2, <1>3 DEF Onward, Stands, Has
<1>6. PICK X : X = {}
  OBVIOUS
<1>7. (\A y \in Actors \ X : task'[y] = task[y]) /\ told' = told
  BY <1>3
<1> QED BY <1>2, <1>4, <1>5, <1>6, <1>7, InvStep

-----------------------------------------------------------------------------
(* Nothing is answered and nothing is registered in the beginning. *)
LEMMA InvInit == Init => Inv
<1> SUFFICES ASSUME Init PROVE Inv
  OBVIOUS
<1>1. mail \in [Messages -> Letter] /\ \A m \in Messages : mail[m].place = "unsent"
  BY MailingsAssumption DEF Init, Letter
<1>2. Typed
  BY <1>1, IdleHolds DEF Init, Typed, NoDoc, Document
<1>3. \A x \in Actors : Right(x)
  BY IdleHolds DEF Init, Right
<1>4. \A m \in Messages : told[m] = {}
  BY DEF Init
<1> QED BY <1>1, <1>2, <1>3, <1>4, InvOf

(* Every step keeps the invariant. *)
LEMMA InvNext == Inv /\ [Next]_vars => Inv'
<1> SUFFICES ASSUME Inv, [Next]_vars PROVE Inv'
  OBVIOUS
<1>1. CASE \E m \in Messages : Send(m) \/ Expire(m)
  BY <1>1, OutsideSteps
<1>2. ASSUME NEW c \in Consumers, Receive(c) \/ Work(c) \/ Raise(c) PROVE Inv'
  BY <1>2, LoopSteps, BatchSteps, AcceptStep, ReadConfigStep, StoreConfigStep,
     AnswerStep DEF Work
<1>3. ASSUME NEW y \in Syncs,
             \/ \E a \in Accounts : Onboard(y, a) \/ FindOut(y, a)
             \/ ReadForSync(y) \/ StoreOfSync(y)
      PROVE  Inv'
  BY <1>3, SyncSteps, ReadForSyncStep, StoreStep
<1>4. ASSUME NEW x \in Admins,
             \/ PostHub(x) \/ DeleteHub(x) \/ StoreOfAdmin(x)
             \/ \E a \in Accounts :
                  DeleteSpoke(x, a) \/ \E checked \in BOOLEAN : PostSpoke(x, a, checked)
      PROVE  Inv'
  BY <1>4, AdminSteps, StoreStep
<1>5. CASE UNCHANGED vars
  <2>1. UNCHANGED <<doc, versions, spoilt, told, mute, mail, task>>
    BY <1>5 DEF vars
  <2>2. Onward /\ Typed'
    BY <2>1 DEF Onward, Inv, Typed, Stands, Has
  <2>3. PICK X : X = {}
    OBVIOUS
  <2>4. (\A y \in Actors \ X : task'[y] = task[y]) /\ told' = told /\ mail' = mail
    BY <2>1
  <2> QED BY <2>2, <2>3, <2>4, InvStep
<1> QED BY <1>1, <1>2, <1>3, <1>4, <1>5 DEF Next

-----------------------------------------------------------------------------
(***************************************************************************)
(* The entries of the document.  One that is added at the end is listed    *)
(* for the first time, or for the second in other words.                   *)
(***************************************************************************)
Added(e) == e \in {Registered(e.account), Onboarded(e.account)}

(* An entry at the end leaves the others apart. *)
LEMMA AppendApart ==
  ASSUME NEW s \in Seq(Entry), NEW e \in Entry, Apart(s),
         \A i \in DOMAIN s : s[i].account = e.account => s[i] # e /\ Added(e)
  PROVE  Apart(Append(s, e))
<1>1. PICK t : t = Append(s, e)
  OBVIOUS
<1>2. /\ DOMAIN s = 1 .. Len(s) /\ DOMAIN t = 1 .. Len(s) + 1 /\ Len(s) \in Nat
      /\ t[Len(s) + 1] = e /\ \A i \in 1 .. Len(s) : t[i] = s[i]
  BY <1>1
<1>3. ASSUME NEW i \in DOMAIN t, NEW j \in DOMAIN t, i < j,
             t[i].account = t[j].account
      PROVE  t[i] # t[j] /\ t[j] \in {Registered(t[j].account), Onboarded(t[j].account)}
  <2>1. i \in DOMAIN s /\ t[i] = s[i]
    BY <1>2, <1>3
  <2>2. CASE j \in DOMAIN s
    <3>1. t[j] = s[j]
      BY <1>2, <2>2
    <3> QED BY <1>3, <2>1, <2>2, <3>1 DEF Apart
  <2>3. CASE j \notin DOMAIN s
    <3>1. t[j] = e
      BY <1>2, <2>3
    <3> QED BY <1>3, <2>1, <3>1 DEF Added
  <2> QED BY <2>2, <2>3
<1> QED BY <1>1, <1>3 DEF Apart

(* Who compares entries adds none a second time. *)
LEMMA EqualApart ==
  ASSUME NEW s \in Seq(Entry), NEW e \in Entry, Apart(s), Added(e)
  PROVE  Apart(StoreEqual(s, e))
<1>1. CASE Contains(s, e)
  BY <1>1 DEF StoreEqual
<1>2. CASE ~Contains(s, e)
  <2>1. \A i \in DOMAIN s : s[i] # e
    BY <1>2 DEF Contains
  <2> QED BY <1>2, <2>1, AppendApart DEF StoreEqual
<1> QED BY <1>1, <1>2

(* Who compares accounts rewrites the first entry, in words of their own. *)
LEMMA AccountApart ==
  ASSUME NEW s \in Seq(Entry), NEW e \in Entry, Apart(s), ~Added(e)
  PROVE  Apart(StoreByAccount(s, e))
<1>1. CASE Places(s, e.account) = {}
  <2>1. \A i \in DOMAIN s : s[i].account # e.account
    BY <1>1 DEF Places
  <2> QED BY <1>1, <2>1, AppendApart DEF StoreByAccount
<1>2. CASE Places(s, e.account) # {}
  <2>1. PICK k : k = FirstOf(s, e.account)
    OBVIOUS
  <2>2. /\ k \in DOMAIN s /\ s[k].account = e.account
        /\ \A j \in Places(s, e.account) : k <= j
    BY <1>2, <2>1, FirstPlace DEF Places
  <2>3. PICK t : t = [s EXCEPT ![k] = e]
    OBVIOUS
  <2>4. t = StoreByAccount(s, e)
    BY <1>2, <2>1, <2>3 DEF StoreByAccount
  <2>5. /\ DOMAIN t = DOMAIN s /\ t[k] = e
        /\ \A i \in DOMAIN s \ {k} : t[i] = s[i]
    BY <2>2, <2>3
  <2>6. DOMAIN s \subseteq Nat
    OBVIOUS
  <2>7. ASSUME NEW i \in DOMAIN s, NEW j \in DOMAIN s, i < j,
               t[i].account = t[j].account
        PROVE  t[i] # t[j] /\ t[j] \in {Registered(t[j].account), Onboarded(t[j].account)}
    <3>1. s[i].account = s[j].account
      BY <2>2, <2>5, <2>7
    <3>2. s[j] \in {Registered(s[j].account), Onboarded(s[j].account)} /\ s[i] # s[j]
      BY <2>7, <3>1 DEF Apart
    <3>3. j # k
      <4>1. CASE j = k
        <5>1. i \in Places(s, e.account)
          BY <2>2, <3>1, <4>1 DEF Places
        <5>2. k <= i
          BY <2>2, <5>1
        <5> QED BY <2>2, <2>6, <2>7, <4>1, <5>2
      <4> QED BY <4>1
    <3>4. t[j] = s[j]
      BY <2>5, <3>3
    <3>5. CASE i = k
      BY <2>5, <3>2, <3>4, <3>5 DEF Added
    <3>6. CASE i # k
      BY <2>5, <3>2, <3>4, <3>6
    <3> QED BY <3>5, <3>6
  <2> QED BY <2>4, <2>5, <2>7 DEF Apart
<1> QED BY <1>1, <1>2

(* What is left after a removal is in the order it was. *)
LEMMA LeftApart ==
  ASSUME NEW s \in Seq(Entry), NEW keep \in SUBSET DOMAIN s, NEW t \in Left(s, keep),
         Apart(s)
  PROVE  Apart(t)
<1>1. PICK f \in [DOMAIN t -> keep] :
        /\ \A i, j \in DOMAIN t : i < j => f[i] < f[j]
        /\ \A i \in DOMAIN t : t[i] = s[f[i]]
  BY DEF Left
<1>2. ASSUME NEW i \in DOMAIN t, NEW j \in DOMAIN t, i < j,
             t[i].account = t[j].account
      PROVE  t[i] # t[j] /\ t[j] \in {Registered(t[j].account), Onboarded(t[j].account)}
  <2>1. /\ f[i] \in DOMAIN s /\ f[j] \in DOMAIN s /\ f[i] < f[j]
        /\ t[i] = s[f[i]] /\ t[j] = s[f[j]]
    BY <1>1, <1>2
  <2> QED BY <1>2, <2>1 DEF Apart
<1> QED BY <1>2 DEF Apart

(***************************************************************************)
(* A step keeps FitInv if what one run holds after it is fit, and the      *)
(* document, as it is and was, has its entries apart.                      *)
(***************************************************************************)
LEMMA FitStep ==
  ASSUME Inv, FitInv, NEW x \in Actors, NEW n, task' = [task EXCEPT ![x] = n],
         Fit(x, n), \A d \in {doc'} \cup versions' : Apart(d.spokes),
         runs' \in 0 .. MaxRuns, faults' \in 0 .. MaxFaults
  PROVE  FitInv'
<1>1. task \in [Actors -> Memory]
  BY DEF Inv, Typed
<1>2. ASSUME NEW y \in Actors PROVE Fit(y, task'[y])
  <2>1. CASE y = x
    BY <1>1, <2>1
  <2>2. CASE y # x
    BY <1>1, <2>2 DEF FitInv
  <2> QED BY <2>1, <2>2
<1> QED BY <1>2 DEF FitInv, Fit, Apart

(* Nothing is read that has not its entries apart. *)
LEMMA ReadableApart ==
  ASSUME FitInv, NEW d \in Readable
  PROVE  Apart(d.spokes)
<1>1. NoDoc.spokes = <<>> /\ Apart(<<>>)
  BY DEF NoDoc, Apart
<1> QED BY <1>1 DEF FitInv, Readable

(* The bounds on what is counted are kept by all that counts. *)
LEMMA Counted ==
  ASSUME FitInv
  PROVE  /\ UNCHANGED faults \/ Fault => faults' \in 0 .. MaxFaults
         /\ runs < MaxRuns /\ runs' = runs + 1 => runs' \in 0 .. MaxRuns
BY SizesAssumption DEF FitInv, Fault

(* Whoever is idle is fit. *)
LEMMA IdleFit ==
  ASSUME NEW x
  PROVE  Fit(x, Idle)
<1>1. /\ Idle.batch = <<>> /\ Idle.count = 0 /\ Idle.done = {} /\ Idle.entry = {}
      /\ Idle.pc = "idle" /\ Idle.draft.spokes = <<>>
  BY DEF Idle, NoDoc
<1>2. Len(<<>>) = 0 /\ Apart(<<>>)
  BY DEF Apart
<1> QED BY <1>1, <1>2, SizesAssumption DEF Fit

(* A run that does not touch its batch and its draft is fit as it was. *)
LEMMA FitStays ==
  ASSUME FitInv, NEW x \in Actors, NEW n, n.batch = task[x].batch,
         n.count = task[x].count, n.done = task[x].done, n.entry = task[x].entry,
         Apart(n.draft.spokes), n.pc \notin {"idle", "poll"},
         x \in Consumers => n.done # {} \/ n.count < MaxMessages
  PROVE  Fit(x, n)
BY DEF FitInv, Fit

(* A message is taken off its batch, and counted. *)
LEMMA ProcessedFit ==
  ASSUME Inv, FitInv, NEW c \in Consumers, Processed(c), task[c].batch # <<>>,
         task[c].done # {} \/ task[c].count < MaxMessages,
         UNCHANGED <<doc, versions, runs>>, UNCHANGED faults \/ Fault
  PROVE  FitInv'
<1>1. c \in Actors
  BY DEF Actors
<1>2. PICK n : n = [Idle EXCEPT !.pc = "batch", !.batch = Tail(task[c].batch),
                                !.count = task[c].count + 1,
                                !.done = task[c].done \cup {Current(c)}]
  OBVIOUS
<1>3. /\ n.pc = "batch" /\ n.batch = Tail(task[c].batch) /\ n.entry = {}
      /\ n.count = task[c].count + 1 /\ n.draft.spokes = <<>>
  BY <1>2 DEF Idle, NoDoc
<1>4. task[c].batch \in Seq(Messages) /\ task[c].count \in Nat
  BY <1>1, Held DEF Inv, Memory
<1>5. Len(task[c].batch) \in Nat /\ Len(n.batch) = Len(task[c].batch) - 1
  BY <1>3, <1>4
<1>6. /\ Len(task[c].batch) <= BatchSize
      /\ task[c].done # {} =>
           task[c].count + Len(task[c].batch) < MaxMessages + BatchSize
  BY <1>1 DEF FitInv, Fit
<1>7. BatchSize \in Nat /\ MaxMessages \in Nat
  BY SizesAssumption
<1>8. /\ Len(n.batch) <= BatchSize /\ n.count + Len(n.batch) < MaxMessages + BatchSize
      /\ n.count < MaxMessages + BatchSize
  <2>1. CASE task[c].done # {}
    BY <1>3, <1>4, <1>5, <1>6, <1>7, <2>1
  <2>2. CASE task[c].count < MaxMessages
    BY <1>3, <1>4, <1>5, <1>6, <1>7, <2>2
  <2> QED BY <2>1, <2>2
<1>9. Fit(c, n)
  <2>1. Apart(<<>>)
    BY DEF Apart
  <2> QED BY <1>3, <1>8, <2>1 DEF Fit
<1>10. task' = [task EXCEPT ![c] = n]
  BY <1>2 DEF Processed
<1> QED BY <1>1, <1>9, <1>10, FitStep, Counted DEF FitInv

(* A batch is received, given up or deleted. *)
LEMMA BatchesFit ==
  ASSUME Inv, FitInv, NEW c \in Consumers,
         \/ Receive(c) \/ PollNothing(c) \/ BreakAtLimit(c) \/ Malformed(c)
         \/ Raise(c) \/ DeleteBatch(c)
  PROVE  FitInv'
<1>1. /\ c \in Actors /\ task[c] \in Memory /\ UNCHANGED <<doc, versions, runs>>
      /\ UNCHANGED faults \/ Fault
  BY Held DEF Actors, Inv, Receive, PollNothing, BreakAtLimit, Malformed, Raise,
              DeleteBatch
<1>2. CASE PollNothing(c) \/ BreakAtLimit(c) \/ Malformed(c) \/ Raise(c)
  <2>1. task' = [task EXCEPT ![c] = Idle]
    BY <1>2 DEF PollNothing, BreakAtLimit, Malformed, Raise
  <2> QED BY <1>1, <2>1, IdleFit, FitStep, Counted DEF FitInv
<1>3. CASE Receive(c)
  <2>1. PICK s \in Batches : task' = [task EXCEPT ![c].pc = "batch", ![c].batch = s]
    BY <1>3 DEF Receive
  <2>2. PICK n : n = [task[c] EXCEPT !.pc = "batch", !.batch = s]
    OBVIOUS
  <2>3. /\ n.pc = "batch" /\ n.batch = s /\ n.count = task[c].count
        /\ n.done = task[c].done /\ n.entry = task[c].entry
        /\ n.draft = task[c].draft
    BY <1>1, <2>2 DEF Memory
  <2>4. Len(s) <= BatchSize
    <3>1. PICK k \in 0 .. BatchSize : s \in [1 .. k -> Messages]
      <4>1. PICK k \in 0 .. BatchSize :
              s \in [1 .. k -> {m \in Messages : mail[m].place = "visible"}]
        BY DEF Batches, BoundedSeq, SeqOf
      <4> QED BY <4>1
    <3>2. Len(s) = k
      BY <3>1
    <3> QED BY <3>1, <3>2, SizesAssumption
  <2>5. task[c].done = {} /\ Fit(c, task[c])
    BY <1>1, <1>3 DEF Receive, FitInv, Fit
  <2>6. Fit(c, n)
    BY <2>3, <2>4, <2>5 DEF Fit
  <2>7. task' = [task EXCEPT ![c] = n]
    BY <1>1, <2>1, <2>2 DEF Inv, Typed
  <2> QED BY <1>1, <2>6, <2>7, FitStep, Counted DEF FitInv
<1>4. CASE DeleteBatch(c)
  <2>1. PICK n : n = [task[c] EXCEPT !.pc = "poll", !.done = {}]
    OBVIOUS
  <2>2. /\ n.pc = "poll" /\ n.done = {} /\ n.count = task[c].count
        /\ n.batch = task[c].batch /\ n.entry = task[c].entry
        /\ n.draft = task[c].draft
    BY <1>1, <2>1 DEF Memory
  <2>3. Fit(c, n)
    BY <1>1, <2>2 DEF FitInv, Fit
  <2>4. task' = [task EXCEPT ![c] = n] /\ UNCHANGED faults
    BY <1>4, <2>1 DEF DeleteBatch
  <2> QED BY <1>1, <2>3, <2>4, FitStep DEF FitInv
<1> QED BY <1>2, <1>3, <1>4

(* A message is handled to its end, or its registration begins. *)
LEMMA MessagesFit ==
  ASSUME Inv, FitInv, NEW c \in Consumers,
         \/ Ignore(c) \/ RespondAtOnce(c) \/ NoHub(c) \/ NotAssumable(c)
         \/ Accept(c) \/ Answer(c)
  PROVE  FitInv'
<1>1. c \in Actors /\ task[c] \in Memory /\ UNCHANGED <<doc, versions, runs>>
  BY Held DEF Actors, Inv, Ignore, RespondAtOnce, NoHub, NotAssumable, Accept,
              Answer
<1>2. UNCHANGED faults \/ Fault
  BY DEF Ignore, RespondAtOnce, NoHub, NotAssumable, Accept, Answer, Respond
<1>3. task[c].batch # <<>> /\ (task[c].done # {} \/ task[c].count < MaxMessages)
  <2>1. CASE Answer(c)
    <3>1. task[c].pc = "answer"
      BY <2>1 DEF Answer
    <3>2. Registering(c) /\ Fit(c, task[c])
      BY <1>1, <3>1 DEF Inv, RegistryInv, FitInv
    <3> QED BY <3>1, <3>2 DEF Registering, Fit
  <2>2. CASE ~Answer(c)
    BY <2>2 DEF Ignore, RespondAtOnce, NoHub, NotAssumable, Accept, Registrable,
                InBatch
  <2> QED BY <2>1, <2>2
<1>4. CASE Accept(c)
  <2>1. PICK stage : stage = IF Letters(c).kind = "central" THEN "hub" ELSE "spoke"
    OBVIOUS
  <2>2. PICK n : n = [task[c] EXCEPT !.pc = "read", !.stage = stage]
    OBVIOUS
  <2>3. /\ n.pc = "read" /\ n.batch = task[c].batch /\ n.count = task[c].count
        /\ n.done = task[c].done /\ n.entry = task[c].entry
        /\ n.draft = task[c].draft
    BY <1>1, <2>2 DEF Memory
  <2>4. Apart(n.draft.spokes)
    BY <1>1, <2>3 DEF FitInv, Fit
  <2>5. Fit(c, n)
    BY <1>1, <1>3, <2>3, <2>4, FitStays
  <2>6. task' = [task EXCEPT ![c] = n] /\ UNCHANGED faults
    BY <1>1, <1>4, <2>1, <2>2 DEF Accept, Inv, Typed
  <2> QED BY <1>1, <2>5, <2>6, FitStep DEF FitInv
<1>5. CASE ~Accept(c)
  <2>1. Processed(c)
    BY <1>5 DEF Ignore, RespondAtOnce, NoHub, NotAssumable, Answer
  <2> QED BY <1>1, <1>2, <1>3, <2>1, ProcessedFit
<1> QED BY <1>4, <1>5

(* Whoever makes a draft that is apart is fit, *)
LEMMA DraftFit ==
  ASSUME Inv, FitInv, NEW x \in Actors, NEW base \in Readable,
         NEW draft \in Document, Read(x, base, draft), Apart(draft.spokes), UNCHANGED <<doc, versions, faults>>,
         x \in Consumers => task[x].pc \in {"read", "put", "answer"},
         runs' \in 0 .. MaxRuns
  PROVE  FitInv'
<1>1. PICK n \in Memory :
        /\ task' = [task EXCEPT ![x] = n] /\ n.pc = "put" /\ n.draft = draft
        /\ n.done = task[x].done /\ n.batch = task[x].batch
        /\ n.count = task[x].count /\ n.entry = task[x].entry
  BY ReadHolds, ReadableTyped DEF Inv
<1>2. x \in Consumers => n.done # {} \/ n.count < MaxMessages
  BY <1>1 DEF FitInv, Fit
<1>3. Fit(x, n)
  BY <1>1, <1>2, FitStays
<1> QED BY <1>1, <1>3, FitStep DEF FitInv

(* and so is the document once a draft is written. *)
LEMMA StoresFit ==
  ASSUME Inv, FitInv, NEW x \in Actors,
         \/ x \in Consumers /\ StoreConfig(x)
         \/ StoreOfSync(x) \/ StoreOfAdmin(x)
  PROVE  FitInv'
<1>1. task[x] \in Memory /\ doc' = task[x].draft /\ UNCHANGED <<runs, faults>>
      /\ versions' = versions \cup {task[x].draft}
  BY Held DEF Inv, StoreConfig, StoreOfSync, StoreOfAdmin, Put
<1>2. Fit(x, task[x]) /\ \A d \in {doc'} \cup versions' : Apart(d.spokes)
  BY <1>1 DEF FitInv, Fit
<1>3. CASE StoreOfSync(x) \/ StoreOfAdmin(x)
  <2>1. task' = [task EXCEPT ![x] = Idle]
    BY <1>3 DEF StoreOfSync, StoreOfAdmin
  <2> QED BY <1>1, <1>2, <2>1, IdleFit, FitStep DEF FitInv
<1>4. CASE x \in Consumers /\ StoreConfig(x)
  <2>1. PICK pc \in {"read", "answer"} :
          pc = IF task[x].stage = "hub" THEN "read" ELSE "answer"
    OBVIOUS
  <2>2. PICK n : n = [task[x] EXCEPT !.pc = pc, !.stage = "spoke", !.base = NoDoc,
                                     !.draft = NoDoc]
    OBVIOUS
  <2>3. /\ n.pc = pc /\ n.batch = task[x].batch /\ n.count = task[x].count
        /\ n.done = task[x].done /\ n.entry = task[x].entry /\ n.draft = NoDoc
    BY <1>1, <2>2 DEF Memory
  <2>4. Apart(n.draft.spokes)
    <3>1. NoDoc.spokes = <<>>
      BY DEF NoDoc
    <3> QED BY <2>3, <3>1 DEF Apart
  <2>5. n.done # {} \/ n.count < MaxMessages
    <3>1. task[x].pc = "put"
      BY <1>4 DEF StoreConfig, Put
    <3> QED BY <1>2, <1>4, <2>3, <3>1 DEF Fit
  <2>6. Fit(x, n)
    BY <2>3, <2>4, <2>5, FitStays
  <2>7. task' = [task EXCEPT ![x] = n]
    BY <1>1, <1>4, <2>1, <2>2 DEF StoreConfig, Inv, Typed
  <2> QED BY <1>1, <1>2, <2>6, <2>7, FitStep DEF FitInv
<1> QED BY <1>3, <1>4

(* A registration makes its draft, *)
LEMMA ReadConfigFit ==
  ASSUME Inv, FitInv, NEW c \in Consumers, ReadConfig(c)
  PROVE  FitInv'
<1> PICK d \in Readable :
      Read(c, d, IF task[c].stage = "hub" THEN [d EXCEPT !.hub = TRUE]
                 ELSE [d EXCEPT !.spokes =
                         StoreEqual(@, Registered(Letters(c).account))])
  BY DEF ReadConfig
<1>1. /\ c \in Actors /\ task[c].pc = "read" /\ d \in Document
      /\ d.spokes \in Seq(Entry) /\ Apart(d.spokes) /\ runs \in 0 .. MaxRuns
      /\ UNCHANGED <<doc, versions, runs, faults>>
  BY ReadableTyped, ReadableApart DEF Actors, ReadConfig, Inv, FitInv
<1>2. CASE task[c].stage = "hub"
  <2>1. PICK draft : draft = [d EXCEPT !.hub = TRUE]
    OBVIOUS
  <2>2. draft \in Document /\ draft.spokes = d.spokes
    BY <1>1, <2>1 DEF Document
  <2>3. Read(c, d, draft)
    BY <1>2, <2>1
  <2> QED BY <1>1, <2>2, <2>3, DraftFit
<1>3. CASE task[c].stage # "hub"
  <2>1. PICK m : m = Current(c)
    OBVIOUS
  <2>2. m \in Messages
    BY <1>1, <2>1, Held DEF Current, Inv, RegistryInv, Registering
  <2>3. PICK e : e = Registered(mail[m].account)
    OBVIOUS
  <2>4. e \in Entry /\ Added(e)
    BY <2>2, <2>3 DEF Registered, Entry, Added, Inv, Typed, Letter
  <2>5. PICK t : t = StoreEqual(d.spokes, e)
    OBVIOUS
  <2>6. t \in Seq(Entry) /\ Apart(t)
    BY <1>1, <2>4, <2>5, EqualAdds, EqualApart DEF Adds
  <2>7. PICK draft : draft = [d EXCEPT !.spokes = t]
    OBVIOUS
  <2>8. draft \in Document /\ draft.spokes = t
    BY <1>1, <2>6, <2>7 DEF Document
  <2>9. Read(c, d, draft)
    BY <1>3, <2>1, <2>3, <2>5, <2>7 DEF Letters
  <2> QED BY <1>1, <2>6, <2>8, <2>9, DraftFit
<1> QED BY <1>2, <1>3

(* A sync takes an entry up that it has looked into, or takes over. *)
LEMMA StartFit ==
  ASSUME Inv, FitInv, NEW y \in Syncs, NEW e, Start(y, e), e.checked \/ e.by = "sync"
  PROVE  FitInv'
<1>1. /\ y \in Actors /\ y \notin Consumers /\ task[y] \in Memory
      /\ UNCHANGED <<doc, versions, faults>>
  BY ActorsAssumption, Held DEF Actors, Inv, Start
<1>2. PICK n : n = [task[y] EXCEPT !.pc = "read", !.entry = {e}]
  OBVIOUS
<1>3. /\ n.pc = "read" /\ n.entry = {e} /\ n.done = task[y].done
      /\ n.batch = task[y].batch /\ n.count = task[y].count
      /\ n.draft = task[y].draft
  BY <1>1, <1>2 DEF Memory
<1>4. Fit(y, n)
  BY <1>1, <1>3 DEF FitInv, Fit
<1>5. task' = [task EXCEPT ![y] = n]
  BY <1>1, <1>2 DEF Start, Inv, Typed
<1>6. runs' \in 0 .. MaxRuns
  BY Counted DEF Start
<1> QED BY <1>1, <1>4, <1>5, <1>6, FitStep DEF FitInv

(* An account of the organization, or one that was read from a copy. *)
LEMMA SyncsFit ==
  ASSUME Inv, FitInv, NEW y \in Syncs, NEW a \in Accounts,
         Onboard(y, a) \/ FindOut(y, a)
  PROVE  FitInv'
<1>1. CASE Onboard(y, a)
  <2>1. Onboarded(a).by = "sync" /\ Start(y, Onboarded(a))
    BY <1>1 DEF Onboard, Onboarded
  <2> QED BY <2>1, StartFit
<1>2. CASE FindOut(y, a)
  <2>1. PICK d \in Readable :
          LET entry == d.spokes[FirstOf(d.spokes, a)]
          IN  /\ Places(d.spokes, a) # {}
              /\ Start(y, [entry EXCEPT !.checked = TRUE])
    BY <1>2 DEF FindOut
  <2> PICK s : s = d.spokes
    OBVIOUS
  <2>2. s \in Seq(Entry) /\ Places(s, a) # {}
    BY <2>1, ReadableTyped DEF Inv
  <2>3. PICK k : k = FirstOf(s, a)
    OBVIOUS
  <2>4. k \in DOMAIN s
    BY <2>2, <2>3, FirstPlace DEF Places
  <2>5. s[k] \in Entry
    BY <2>2, <2>4
  <2>6. PICK e : e = [s[k] EXCEPT !.checked = TRUE]
    OBVIOUS
  <2>7. e.checked
    BY <2>5, <2>6 DEF Entry
  <2>8. Start(y, e)
    BY <2>1, <2>3, <2>6
  <2> QED BY <2>7, <2>8, StartFit
<1> QED BY <1>1, <1>2

(* It adds an account once in its words, or rewrites the first entry. *)
LEMMA ReadForSyncFit ==
  ASSUME Inv, FitInv, NEW y \in Syncs, ReadForSync(y)
  PROVE  FitInv'
<1> PICK d \in Readable :
      \E e \in task[y].entry :
        Read(y, d, [d EXCEPT !.spokes =
                      IF e.by = "sync" /\ ~e.checked THEN StoreEqual(@, e)
                      ELSE StoreByAccount(@, e)])
  BY DEF ReadForSync
<1>1. /\ y \in Actors /\ y \notin Consumers /\ d \in Document
      /\ d.spokes \in Seq(Entry) /\ Apart(d.spokes) /\ runs \in 0 .. MaxRuns
      /\ task[y].entry \subseteq Entry /\ UNCHANGED <<doc, versions, runs, faults>>
  BY ActorsAssumption, ReadableTyped, ReadableApart, Held
     DEF Actors, ReadForSync, Inv, Memory, FitInv
<1>2. PICK e \in task[y].entry :
        Read(y, d, [d EXCEPT !.spokes =
                      IF e.by = "sync" /\ ~e.checked THEN StoreEqual(@, e)
                      ELSE StoreByAccount(@, e)])
  OBVIOUS
<1>3. PICK t : t = IF e.by = "sync" /\ ~e.checked THEN StoreEqual(d.spokes, e)
                   ELSE StoreByAccount(d.spokes, e)
  OBVIOUS
<1>4. e \in Entry /\ (e.checked \/ e.by = "sync")
  BY <1>1, <1>2 DEF FitInv, Fit
<1>5. t \in Seq(Entry) /\ Apart(t)
  <2>1. CASE e.by = "sync" /\ ~e.checked
    <3>1. Added(e)
      BY <1>4, <2>1 DEF Added, Onboarded, Entry
    <3> QED BY <1>1, <1>3, <1>4, <2>1, <3>1, EqualAdds, EqualApart DEF Adds
  <2>2. CASE ~(e.by = "sync" /\ ~e.checked)
    <3>1. e.checked
      BY <1>4, <2>2
    <3>2. ~Added(e)
      BY <1>4, <3>1 DEF Added, Registered, Onboarded
    <3> QED BY <1>1, <1>3, <1>4, <2>2, <3>2, AccountAdds, AccountApart DEF Adds
  <2> QED BY <2>1, <2>2
<1>6. PICK draft : draft = [d EXCEPT !.spokes = t]
  OBVIOUS
<1>7. draft \in Document /\ draft.spokes = t
  BY <1>1, <1>5, <1>6 DEF Document
<1>8. Read(y, d, draft)
  BY <1>1, <1>2, <1>3, <1>6 DEF Document
<1> QED BY <1>1, <1>5, <1>7, <1>8, DraftFit

(* An admin writes in an admin's words, or takes entries away. *)
LEMMA AdminsFit ==
  ASSUME Inv, FitInv, NEW x \in Admins,
         \/ PostHub(x) \/ DeleteHub(x)
         \/ \E a \in Accounts :
              DeleteSpoke(x, a) \/ \E checked \in BOOLEAN : PostSpoke(x, a, checked)
  PROVE  FitInv'
<1>1. /\ x \in Actors /\ x \notin Consumers
      /\ \A d \in Readable : /\ d \in Document /\ d.spokes \in Seq(Entry)
                             /\ Apart(d.spokes)
  BY ActorsAssumption, ReadableTyped, ReadableApart DEF Actors, Inv
<1>2. ASSUME NEW d \in Readable, NEW draft \in Document, Edit(x, d, draft),
             Apart(draft.spokes)
      PROVE  FitInv'
  <2>1. Read(x, d, draft) /\ UNCHANGED <<doc, versions, faults>>
    BY <1>2 DEF Edit, Read
  <2>2. runs' \in 0 .. MaxRuns
    BY <1>2, Counted DEF Edit
  <2> QED BY <1>1, <1>2, <2>1, <2>2, DraftFit
<1>3. CASE PostHub(x) \/ DeleteHub(x)
  <2>1. PICK d \in Readable, h \in BOOLEAN : Edit(x, d, [d EXCEPT !.hub = h])
    BY <1>3 DEF PostHub, DeleteHub
  <2>2. PICK draft : draft = [d EXCEPT !.hub = h]
    OBVIOUS
  <2>3. draft \in Document /\ draft.spokes = d.spokes
    BY <1>1, <2>2 DEF Document
  <2> QED BY <1>1, <1>2, <2>1, <2>2, <2>3
<1>4. ASSUME NEW d \in Readable, NEW s \in Seq(Entry), Apart(s),
             Edit(x, d, [d EXCEPT !.spokes = s])
      PROVE  FitInv'
  <2>1. PICK draft : draft = [d EXCEPT !.spokes = s]
    OBVIOUS
  <2>2. draft \in Document /\ draft.spokes = s
    BY <1>1, <1>4, <2>1 DEF Document
  <2> QED BY <1>2, <1>4, <2>1, <2>2
<1>5. ASSUME NEW a \in Accounts, DeleteSpoke(x, a) PROVE FitInv'
  <2> PICK d \in Readable :
        \E s \in Removals(d.spokes, a) : Edit(x, d, [d EXCEPT !.spokes = s])
    BY <1>5 DEF DeleteSpoke
  <2>1. PICK s \in Removals(d.spokes, a) : Edit(x, d, [d EXCEPT !.spokes = s])
    OBVIOUS
  <2>2. PICK keep \in SUBSET DOMAIN d.spokes : s \in Left(d.spokes, keep)
    BY <2>1 DEF Removals
  <2>3. s \in Seq(Entry) /\ Apart(s)
    BY <1>1, <2>2, LeftTyped, LeftApart
  <2> QED BY <1>4, <2>1, <2>3
<1>6. ASSUME NEW a \in Accounts, NEW checked \in BOOLEAN, PostSpoke(x, a, checked)
      PROVE  FitInv'
  <2>1. PICK e : e = [account |-> a, by |-> "admin", checked |-> checked]
    OBVIOUS
  <2>2. e \in Entry /\ ~Added(e)
    BY <2>1 DEF Entry, Added, Registered, Onboarded
  <2>3. PICK d \in Readable : Edit(x, d, [d EXCEPT !.spokes = StoreByAccount(@, e)])
    BY <1>6, <2>1 DEF PostSpoke
  <2>4. PICK s : s = StoreByAccount(d.spokes, e)
    OBVIOUS
  <2>5. s \in Seq(Entry) /\ Apart(s)
    BY <1>1, <2>2, <2>4, AccountAdds, AccountApart DEF Adds
  <2>6. Edit(x, d, [d EXCEPT !.spokes = s])
    BY <2>3, <2>4
  <2> QED BY <1>4, <2>5, <2>6
<1> QED BY <1>3, <1>5, <1>6

-----------------------------------------------------------------------------
(* Nothing is listed and nothing is held in the beginning. *)
LEMMA FitInit == Init => FitInv
<1>1. Apart(<<>>) /\ NoDoc.spokes = <<>>
  BY DEF Apart, NoDoc
<1> QED BY <1>1, IdleFit, SizesAssumption DEF Init, FitInv

(* Every step keeps it. *)
LEMMA FitNext == Inv /\ FitInv /\ [Next]_vars => FitInv'
<1> SUFFICES ASSUME Inv, FitInv, [Next]_vars PROVE FitInv'
  OBVIOUS
<1>1. CASE UNCHANGED vars \/ \E m \in Messages : Send(m) \/ Expire(m)
  <2>1. UNCHANGED <<doc, versions, task, runs, faults>>
    BY <1>1 DEF Send, Expire, vars
  <2> QED BY <2>1 DEF FitInv, Fit, Apart
<1>2. ASSUME NEW c \in Consumers, Receive(c) \/ Work(c) \/ Raise(c) PROVE FitInv'
  BY <1>2, BatchesFit, MessagesFit, ReadConfigFit, StoresFit DEF Work, Actors
<1>3. ASSUME NEW y \in Syncs,
             \/ \E a \in Accounts : Onboard(y, a) \/ FindOut(y, a)
             \/ ReadForSync(y) \/ StoreOfSync(y)
      PROVE  FitInv'
  BY <1>3, SyncsFit, ReadForSyncFit, StoresFit DEF Actors
<1>4. ASSUME NEW x \in Admins,
             \/ PostHub(x) \/ DeleteHub(x) \/ StoreOfAdmin(x)
             \/ \E a \in Accounts :
                  DeleteSpoke(x, a) \/ \E checked \in BOOLEAN : PostSpoke(x, a, checked)
      PROVE  FitInv'
  BY <1>4, AdminsFit, StoresFit DEF Actors
<1> QED BY <1>1, <1>2, <1>3, <1>4 DEF Next

(***************************************************************************)
(* In every state of every behaviour: what the queue, the document, its    *)
(* earlier versions, the answers and the memory of the runs hold has its   *)
(* type; what a run is done with is settled; a draft has all that the      *)
(* document had that was read for it, whichever that was; and of the       *)
(* account of its message a run has written what its place in the code     *)
(* says, or that was lost to an admin or to a write of another base        *)
(* (ModelAdapter, handle_spoke_account_registration,                       *)
(* handle_central_account_registration).                                   *)
(***************************************************************************)
THEOREM RegistrationInvariant == Spec => []Inv
BY InvInit, InvNext, PTL DEF Spec

(***************************************************************************)
(* CloudFormation is told of a success only if the configuration has the   *)
(* account and, if it is one, the hub, except for what an admin has        *)
(* removed since, or a write has lost that was not made of the document it *)
(* replaces: of an earlier one, or of none after a read that has failed    *)
(* (handle_spoke_account_registration, return_cf_response,                 *)
(* handle_central_account_registration,                                    *)
(* get_tenant_static_config_from_dynamo).                                  *)
(***************************************************************************)
THEOREM AnswersCorrect == Spec => []AnsweredIsRegistered
<1>1. Inv => AnsweredIsRegistered
  BY DEF Inv, RegistryInv
<1> QED BY <1>1, RegistrationInvariant, PTL

(***************************************************************************)
(* No message CloudFormation expects an answer to is deleted from the      *)
(* queue before it was sent one (handle_tenant_integration_queue).         *)
(***************************************************************************)
THEOREM DeletedCorrect == Spec => []DeletedWasAnswered
<1>1. Inv => DeletedWasAnswered
  BY DEF Inv, DoneInv
<1> QED BY <1>1, RegistrationInvariant, PTL

(***************************************************************************)
(* A batch begins below the limit and is finished, and whatever version of *)
(* the document is read or written has its entries apart                   *)
(* (handle_tenant_integration_queue, ModelAdapter.store_item_in_list).     *)
(***************************************************************************)
THEOREM FitInvariant == Spec => []FitInv
BY RegistrationInvariant, FitInit, FitNext, PTL DEF Spec

(***************************************************************************)
(* Types and bounds: a run holds no more than a batch, and exceeds its     *)
(* limit by less than one (handle_tenant_integration_queue).               *)
(***************************************************************************)
THEOREM TypeCorrect == Spec => []TypeOK
<1>1. Inv /\ FitInv => TypeOK
  BY DEF Inv, FitInv, Fit, TypeOK
<1> QED BY <1>1, RegistrationInvariant, FitInvariant, PTL

(***************************************************************************)
(* No description of an account is listed twice, and it is listed again    *)
(* only by its registration and by a sync that takes it over, whatever is  *)
(* handled again, rewritten or written late                                *)
(* (ModelAdapter.__objects_similar).                                       *)
(***************************************************************************)
THEOREM EntriesCorrect == Spec => []EntriesAreApart
<1>1. FitInv => EntriesAreApart
  BY DEF FitInv, EntriesAreApart
<1> QED BY <1>1, FitInvariant, PTL
=============================================================================
