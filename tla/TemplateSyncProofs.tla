------------------------- MODULE TemplateSyncProofs -------------------------
(***************************************************************************)
(* Proofs about TemplateSync: types, for any number of overlapping tasks,  *)
(* and what rows and references are between runs that did not overlap and  *)
(* in which nothing else failed.                                           *)
(***************************************************************************)
EXTENDS TemplateSync, SequenceTheorems, FiniteSetTheorems, TLAPS

-----------------------------------------------------------------------------
(* What a task has loaded is in the clone, and each file it is going to    *)
(* write a row for has a version.                                          *)
Coherent(me) ==
  /\ me \in Memory
  /\ me.taken \subseteq 1 .. clone
  /\ me.since # Never => me.since <= Len(history)
  /\ \A f \in Files : me.loaded[f] \in 0 .. clone
  /\ me.pc \in {"add", "clear", "again"} =>
       \A f \in me.creating : me.loaded[f] # 0
  /\ me.pc = "look" =>
       \A f \in Files : me.progress[f] # "none" => me.loaded[f] # 0

(* No commit deletes what is not there. *)
GitInv ==
  \A i \in 1 .. Len(history) :
    history[i].kind = "delete" => Version(i - 1, history[i].file) # 0

TypeInv ==
  /\ TypeOK
  /\ \A w \in Workers : Coherent(worker[w])
  /\ lastParsed # Never => lastParsed <= Len(history)
  /\ \A f \in Files : table[f].content \in 0 .. clone
  /\ seen \subseteq 1 .. clone
  /\ GitInv

-----------------------------------------------------------------------------
(* Nothing has gone wrong so far, so one task runs at a time. *)
Calm == faults = 0 /\ ~overlapped

OneRuns ==
  \A v, w \in Workers : Running(v) /\ Running(w) => v = w

(* The references of a row are those of its content. *)
Agrees(f) ==
  HasRow(f) =>
    LET scope == history[table[f].content].scope
    IN /\ scope = "managed" => table[f].refs # 0
       /\ scope = "none" => table[f].refs = 0

(* A row an update is about to give other references. *)
InHand(me, f) ==
  \/ me.pc = "look" /\ me.progress[f] = "unref"
  \/ f \in me.linking

(* What the run knows of the rows it is changing. *)
Grasp(me) ==
  /\ me.pc = "look" => \A f \in Files :
       /\ me.progress[f] \in {"write", "unref"} =>
            HasRow(f) /\ table[f].refs = me.old[f]
       /\ me.progress[f] = "unref" => table[f].content = me.loaded[f]
       /\ f \in me.creating => ~HasRow(f) /\ me.progress[f] = "none"
       /\ f \in me.linking => me.progress[f] = "none"
  /\ \A f \in me.linking :
       /\ HasRow(f)
       /\ table[f] = [content |-> me.loaded[f], refs |-> 0]
       /\ HasRefs(me.loaded[f])
  /\ me.linking # {} =>
       \/ me.pc \in {"look", "gather"}
       \/ me.calling = "upsert" /\ me.pc \in CreateSteps
  /\ me.calling = "upsert" /\ me.pc \in CreateSteps =>
       /\ me.pc \in {"create", "add"}
       /\ \A f \in me.creating : ~HasRow(f)

RefsInv ==
  /\ OneRuns
  /\ \A w \in Workers : Grasp(worker[w])
  /\ \A f \in Files : Agrees(f) \/ \E w \in Workers : InHand(worker[w], f)

-----------------------------------------------------------------------------
(* Why the row of f is what it is, when the first n commits have been made *)
(* and runs have carried through those in done.                            *)
Explained(n, done, f) ==
  \/ table[f].content = Version(n, f)
  \/ \E i \in LastTouch(n, f) : i \notin done
  \/ /\ Version(n, f) = 0
     /\ \/ table[f].refs = 0
        \/ \E i \in 1 .. n : history[i].file = f /\ i \notin done

(* What a run has found, and goes back to when a create raises. *)
Found(stamp) ==
  /\ stamp = Never => ~\E f \in Files : HasRow(f)
  /\ stamp # Never => /\ seen \subseteq 1 .. stamp
                      /\ \A f \in Files : Explained(stamp, seen, f)

Working == CreateSteps \cup {"upsert", "look", "gather", "delete", "done"}

(* The files whose rows a run has still to look at. *)
Pending(me) ==
  CASE me.pc \in CreateSteps ->
         me.creating \cup me.deleted \cup
           (IF me.calling = "upsert" THEN {} ELSE me.modified)
    [] me.pc = "upsert" -> me.modified \cup me.deleted
    [] me.pc = "look" ->
         me.creating \cup me.deleted
           \cup {f \in Files : me.progress[f] \in {"look", "write"}}
    [] me.pc \in {"gather", "delete"} -> me.deleted
    [] OTHER -> {}

(* A run that is about to plan. *)
Prepared(me) ==
  /\ me.calling = "create" /\ me.deleted = {} /\ me.modified = {}
  /\ me.pc # "pull" /\ me.since # Never => me.since <= clone
  /\ me.pc = "plan" => lastParsed # Never /\ clone <= lastParsed

(* A plan is about the tree of the clone, and so is what a run loads. *)
Charted(me) ==
  /\ lastParsed # Never /\ clone <= lastParsed
  /\ me.deleted \cap Tree(clone) = {} /\ me.modified \subseteq Tree(clone)
  /\ me.pc \in CreateSteps \cup {"look"} => me.creating \subseteq Tree(clone)
  /\ me.pc \in CreateSteps /\ me.calling = "full" =>
       me.since = Never /\ me.modified = {}
  /\ me.pc \in CreateSteps /\ me.calling = "create" => me.since # Never
  /\ me.pc \in {"add", "clear", "again"} =>
       \A f \in me.creating : me.loaded[f] = Version(clone, f)
  /\ me.pc = "look" => \A f \in Files :
       me.progress[f] # "none" => /\ me.loaded[f] = Version(clone, f)
                                  /\ f \in me.modified
  /\ \A f \in me.linking : me.loaded[f] = Version(clone, f)

(* A run is done with the files it has not to look at any more. *)
Settled(me) ==
  \A f \in Files \ Pending(me) : Explained(clone, seen \cup me.taken, f)

(* Where a run may still end as if it had not been. *)
MayGoBack(me) ==
  \/ me.pc \in {"pull", "stamp", "plan", "restore"}
  \/ me.pc \in CreateSteps /\ me.calling # "upsert"

(* How far a run is. *)
Stage(me) ==
  /\ me.pc \notin {"forget", "wipe"}
  /\ me.pc \in {"pull", "stamp", "plan"} => Prepared(me)
  /\ me.pc \in Working => Charted(me) /\ Settled(me)
  /\ MayGoBack(me) => Found(me.since)

StaleInv ==
  /\ (\A w \in Workers : ~Running(w)) => Found(lastParsed)
  /\ \A w \in Workers : Running(w) => Stage(worker[w])

CalmInv == Calm => RefsInv /\ StaleInv

-----------------------------------------------------------------------------
(* The last commit to a file is one of the first n, and there is only one. *)
LEMMA OneLastTouch ==
  ASSUME NEW n \in Nat, NEW f, NEW i \in LastTouch(n, f), NEW j \in LastTouch(n, f)
  PROVE  i = j /\ i \in 1 .. n
BY DEF LastTouch

(* What a version is. *)
LEMMA VersionIs ==
  ASSUME NEW n \in Nat, NEW f
  PROVE  /\ Version(n, f) \in 0 .. n
         /\ Version(n, f) # 0 => /\ Version(n, f) \in LastTouch(n, f)
                                 /\ history[Version(n, f)].kind = "write"
         /\ \A i \in LastTouch(n, f) :
              Version(n, f) = IF history[i].kind = "write" THEN i ELSE 0
<1> DEFINE v == CHOOSE i \in LastTouch(n, f) : TRUE
<1>1. ASSUME NEW i \in LastTouch(n, f) PROVE v = i /\ v \in 1 .. n
  <2>1. v \in LastTouch(n, f)
    OBVIOUS
  <2> HIDE DEF v
  <2> QED BY <1>1, <2>1, OneLastTouch
<1>2. CASE \E i \in LastTouch(n, f) : history[i].kind = "write"
  <2>1. Version(n, f) = v
    BY <1>2 DEF Version
  <2> HIDE DEF v
  <2> QED BY <1>1, <1>2, <2>1
<1>3. CASE ~\E i \in LastTouch(n, f) : history[i].kind = "write"
  <2>1. Version(n, f) = 0
    BY <1>3 DEF Version
  <2> QED BY <1>3, <2>1
<1> QED BY <1>2, <1>3

(* Commits that leave a file alone leave its version and its last commit. *)
LEMMA Untouched ==
  ASSUME NEW m \in Nat, NEW n \in Nat, m <= n, NEW f,
         \A i \in m + 1 .. n : history[i].file # f
  PROVE  LastTouch(n, f) = LastTouch(m, f) /\ Version(n, f) = Version(m, f)
<1>1. ASSUME NEW i \in LastTouch(n, f) PROVE i \in LastTouch(m, f)
  <2>1. i \in 1 .. n /\ history[i].file = f
        /\ \A j \in i + 1 .. n : history[j].file # f
    BY <1>1 DEF LastTouch
  <2>2. i \in 1 .. m
    BY <2>1
  <2> QED BY <2>1, <2>2 DEF LastTouch
<1>2. ASSUME NEW i \in LastTouch(m, f) PROVE i \in LastTouch(n, f)
  <2>1. i \in 1 .. m /\ history[i].file = f
        /\ \A j \in i + 1 .. m : history[j].file # f
    BY <1>2 DEF LastTouch
  <2>2. ASSUME NEW j \in i + 1 .. n PROVE history[j].file # f
    <3>1. j \in i + 1 .. m \/ j \in m + 1 .. n
      BY <2>1
    <3> QED BY <2>1, <3>1
  <2> QED BY <2>1, <2>2 DEF LastTouch
<1>3. LastTouch(n, f) = LastTouch(m, f)
  BY <1>1, <1>2
<1> QED BY <1>3 DEF Version

(* A file that was touched was touched last by some commit. *)
LEMMA TouchedLast ==
  ASSUME NEW n \in Nat, NEW f, NEW k \in 1 .. n, history[k].file = f
  PROVE  \E i \in LastTouch(n, f) : k <= i
<1> DEFINE touched == {i \in 1 .. n : history[i].file = f}
           Later(x) == {y \in touched : y > x}
           T == {Later(x) : x \in touched}
           R == StrictSubsetOrdering(touched)
<1>1. IsFiniteSet(touched)
  <2>1. IsFiniteSet(1 .. n)
    BY FS_Interval
  <2>2. touched \in SUBSET (1 .. n)
    OBVIOUS
  <2> HIDE DEF touched
  <2> QED BY <2>1, <2>2, FS_Subset
<1>2. IsWellFoundedOn(R, SUBSET touched)
  BY <1>1, FS_StrictSubsetOrderingWellFounded, FS_FiniteSubsetsOfFinite
<1>3. T \subseteq SUBSET touched /\ T # {}
  OBVIOUS
<1>4. PICK t \in T : \A s \in T : ~(<<s, t>> \in R)
  <2> HIDE DEF T, R
  <2> QED BY <1>2, <1>3, WFMin
<1>5. PICK x \in touched : t = Later(x)
  OBVIOUS
<1>6. ASSUME NEW y \in touched, y > x PROVE FALSE
  <2>1. ASSUME NEW z \in Later(y) PROVE z \in Later(x)
    <3>1. z \in 1 .. n /\ y \in 1 .. n /\ x \in 1 .. n /\ z > y
      BY <2>1
    <3>2. z > x
      BY <1>6, <3>1
    <3> QED BY <2>1, <3>2
  <2>2. y \in Later(x) /\ y \notin Later(y)
    BY <1>6
  <2>3. <<Later(y), Later(x)>> \in R
    BY <2>1, <2>2 DEF StrictSubsetOrdering
  <2> QED BY <1>4, <1>5, <2>3
<1>7. x \in LastTouch(n, f)
  BY <1>6 DEF LastTouch
<1>8. k \in touched
  OBVIOUS
<1>9. k <= x
  BY <1>6, <1>8
<1> QED BY <1>7, <1>9

-----------------------------------------------------------------------------
(* Pushes add to the history, and nothing else changes it. *)
Longer ==
  /\ Len(history') >= Len(history)
  /\ \A i \in 1 .. Len(history) : history'[i] = history[i]

(* The trees of commits that were made stay what they are. *)
LEMMA TreesStay ==
  ASSUME TypeOK, Longer, NEW n \in 0 .. Len(history)
  PROVE  /\ \A f : LastTouch(n, f)' = LastTouch(n, f)
         /\ \A f : Version(n, f)' = Version(n, f)
         /\ Tree(n)' = Tree(n)
<1>1. \A i \in 1 .. n : history'[i] = history[i]
  BY DEF TypeOK, Longer
<1>2. ASSUME NEW f PROVE LastTouch(n, f)' = LastTouch(n, f)
  <2>1. ASSUME NEW i \in 1 .. n, NEW j \in i + 1 .. n
        PROVE  history'[j] = history[j]
    BY <1>1
  <2>2. ASSUME NEW i \in 1 .. n
        PROVE  (history'[i].file = f /\ \A j \in i + 1 .. n : history'[j].file # f)
                 <=> (history[i].file = f /\ \A j \in i + 1 .. n : history[j].file # f)
    BY <1>1, <2>1
  <2>3. LastTouch(n, f)' = {i \in 1 .. n : /\ history'[i].file = f
                             /\ \A j \in i + 1 .. n : history'[j].file # f}
    BY DEF LastTouch
  <2> QED BY <2>2, <2>3 DEF LastTouch
<1>3. ASSUME NEW f PROVE Version(n, f)' = Version(n, f)
  <2>1. \A i \in LastTouch(n, f) : history'[i] = history[i]
    BY <1>1 DEF LastTouch
  <2>2. (\E i \in LastTouch(n, f) : history'[i].kind = "write")
          <=> \E i \in LastTouch(n, f) : history[i].kind = "write"
    BY <2>1
  <2>3. LastTouch(n, f)' = LastTouch(n, f)
    BY <1>2
  <2>4. Version(n, f)' = IF \E i \in LastTouch(n, f)' : history'[i].kind = "write"
                        THEN CHOOSE i \in LastTouch(n, f)' : TRUE ELSE 0
    BY DEF Version
  <2>5. Version(n, f)' = IF \E i \in LastTouch(n, f) : history'[i].kind = "write"
                        THEN CHOOSE i \in LastTouch(n, f) : TRUE ELSE 0
    BY <2>3, <2>4, Zenon
  <2> QED BY <2>2, <2>5 DEF Version
<1>4. Tree(n)' = Tree(n)
  BY <1>3 DEF Tree
<1> QED BY <1>2, <1>3, <1>4

(* Every step is a push or leaves the history alone. *)
LEMMA HistoryGrows ==
  ASSUME TypeOK, [Next]_vars
  PROVE  Longer /\ history' \in Seq(Commit) /\ Len(history') \in Count
<1>1. ASSUME NEW f \in Files, NEW kind \in {"write", "delete"},
             NEW scope \in Scopes \cup {"none"}, Push(f, kind, scope)
      PROVE  Longer /\ history' \in Seq(Commit) /\ Len(history') \in Count
  <2> DEFINE c == [file |-> f, kind |-> kind, scope |-> scope]
  <2>1. c \in Commit
    BY ScopesAssumption DEF Commit, AllScopes
  <2>2. history \in Seq(Commit) /\ Len(history) \in Nat
        /\ Len(history) < MaxCommits /\ history' = Append(history, c)
    BY <1>1 DEF TypeOK, Push, Count
  <2> HIDE DEF c
  <2> QED BY <2>1, <2>2, AppendProperties, BoundsAssumption DEF Longer, Count
<1>2. UNCHANGED history => Longer /\ history' \in Seq(Commit) /\ Len(history') \in Count
  BY DEF Longer, TypeOK, Count
<1>3. ASSUME NEW w \in Workers, Continue(w) PROVE UNCHANGED history
  BY <1>3 DEF Continue, Pull, Stamp, PlanFull, PlanChanges, Create, Add, AddRefused,
     ClearAll, ClearSome, Upsert, Look, WriteContent, Unref, Gather, Link, EndUpsert,
     Delete, Finish, Forget, Wipe, Restore
<1>4. ASSUME NEW w \in Workers,
             Begin(w) \/ Disconnected(w) \/ NoDefinitions(w) \/ Fail(w) \/ Crash(w)
      PROVE  UNCHANGED history
  BY <1>4 DEF Begin, Disconnected, NoDefinitions, Fail, Crash
<1> QED BY <1>1, <1>2, <1>3, <1>4 DEF Next, vars

-----------------------------------------------------------------------------
(* What a step of a task does to everything but what the task holds. *)
Orderly ==
  /\ UNCHANGED history
  /\ clone' \in clone .. Len(history)
  /\ lastParsed' \in Stamps /\ (lastParsed' # Never => lastParsed' <= Len(history))
  /\ table' \in [Files -> Row]
  /\ \A f \in Files : /\ table'[f].content = 0 => table'[f].refs = 0
                      /\ table'[f].content \in 0 .. clone'
  /\ seen' \subseteq 1 .. clone'
  /\ faults' \in 0 .. MaxFaults
  /\ overlapped' \in BOOLEAN

(* What types are after a step of one task. *)
LEMMA RunKeepsTypes ==
  ASSUME TypeInv, NEW w \in Workers, NEW me,
         worker' = [worker EXCEPT ![w] = me], Coherent(me), Orderly
  PROVE  TypeInv'
<1>1. Longer /\ Len(history) \in Nat /\ TypeOK
  BY DEF Longer, TypeInv, TypeOK, Count, Orderly
<1>2. clone \in Nat /\ clone <= clone' /\ clone' <= Len(history) /\ clone' \in Nat
  BY <1>1 DEF TypeOK, Orderly
<1>3. me \in Memory
  BY DEF Coherent
<1>4. TypeOK'
  BY <1>1, <1>2, <1>3 DEF TypeOK, Orderly
<1>5. ASSUME NEW v \in Workers PROVE Coherent(worker[v])'
  <2>1. PICK you : you = worker'[v]
    OBVIOUS
  <2>2. Coherent(you) /\ UNCHANGED history
    <3>1. Coherent(worker[v]) /\ worker \in [Workers -> Memory]
      BY <1>1 DEF TypeInv, TypeOK
    <3>2. you = IF v = w THEN me ELSE worker[v]
      BY <2>1, <3>1
    <3> QED BY <3>1, <3>2 DEF Orderly
  <2>3. you.taken \subseteq 1 .. clone' /\ \A f \in Files : you.loaded[f] \in 0 .. clone'
    <3>1. \A f \in Files : you.loaded[f] \in 0 .. clone
      BY <2>2 DEF Coherent, Memory, Count
    <3>2. you.taken \subseteq 1 .. clone
      BY <2>2 DEF Coherent
    <3> QED BY <1>2, <3>1, <3>2
  <2> QED BY <2>1, <2>2, <2>3 DEF Coherent
<1>6. GitInv'
  <2>1. ASSUME NEW i \in 1 .. Len(history), history[i].kind = "delete"
        PROVE  Version(i - 1, history[i].file)' # 0
    <3>1. Version(i - 1, history[i].file) # 0
      BY <2>1 DEF TypeInv, GitInv
    <3>2. PICK f : f = history[i].file /\ f = history'[i].file
      BY DEF Orderly
    <3>3. i - 1 \in 0 .. Len(history)
      BY <1>1
    <3>4. Version(i - 1, f)' = Version(i - 1, f)
      BY <1>1, <3>3, TreesStay
    <3> QED BY <3>1, <3>2, <3>4
  <2> QED BY <2>1 DEF GitInv, Orderly
<1>7. (lastParsed # Never => lastParsed <= Len(history))'
  BY DEF Orderly
<1>8. (\A f \in Files : table[f].content \in 0 .. clone)'
  BY DEF Orderly
<1>9. (seen \subseteq 1 .. clone)'
  BY DEF Orderly
<1> QED BY <1>4, <1>5, <1>6, <1>7, <1>8, <1>9 DEF TypeInv

(* Such a step that touches no row and no clone. *)
LEMMA Thinking ==
  ASSUME TypeInv, UNCHANGED <<history, clone, table>>,
         lastParsed' \in Stamps, lastParsed' # Never => lastParsed' <= Len(history),
         seen' \subseteq 1 .. clone, faults' \in 0 .. MaxFaults,
         overlapped' \in BOOLEAN
  PROVE  Orderly
BY DEF TypeInv, TypeOK, Count, Orderly

(* What is known of a task before it goes on. *)
LEMMA Facts ==
  ASSUME TypeInv, NEW w \in Workers
  PROVE  /\ worker[w] \in Memory /\ Coherent(worker[w])
         /\ Len(history) \in Nat /\ Len(history) \in Count
         /\ clone \in Nat /\ clone <= Len(history) /\ clone \in Count
         /\ lastParsed \in Stamps /\ (lastParsed # Never => lastParsed <= Len(history))
         /\ table \in [Files -> Row]
         /\ \A f \in Files : /\ table[f].content = 0 => table[f].refs = 0
                             /\ table[f].content \in 0 .. clone
         /\ faults \in 0 .. MaxFaults /\ seen \subseteq 1 .. clone
         /\ overlapped \in BOOLEAN
BY BoundsAssumption DEF TypeInv, TypeOK, Count, Coherent

(* A task that holds nothing is in order. *)
LEMMA IdleCoherent ==
  ASSUME TypeInv
  PROVE  Coherent(Idle)
BY NeverAssumption, BoundsAssumption
   DEF Coherent, Idle, Memory, Steps, Stamps, Count, Progress, TypeInv, TypeOK

(* Files of the clone have versions in it. *)
LEMMA TreeVersions ==
  ASSUME TypeInv
  PROVE  /\ Tree(clone) \subseteq Files
         /\ \A f : Version(clone, f) \in Count /\ Version(clone, f) \in 0 .. clone
         /\ \A f \in Tree(clone) : Version(clone, f) # 0
<1>1. clone \in Nat /\ clone <= MaxCommits
  BY BoundsAssumption DEF TypeInv, TypeOK, Count
<1>2. \A f : Version(clone, f) \in 0 .. clone
  BY <1>1, VersionIs
<1>3. \A f : Version(clone, f) \in Count /\ Version(clone, f) \in 0 .. clone
  BY <1>1, <1>2, BoundsAssumption DEF Count
<1> QED BY <1>3 DEF Tree

(* An exception leaves what a task holds in order. *)
LEMMA RaisedCoherent ==
  ASSUME NEW me, Coherent(me)
  PROVE  Coherent(Raised(me))
<1>1. me \in Memory
  BY DEF Coherent
<1> DEFINE links == IF me.pc \in CreateSteps THEN me.linking ELSE {}
           pc == IF me.calling = "full" /\ me.pc \notin {"done", "forget", "wipe"}
                 THEN "forget" ELSE "restore"
<1>2. Raised(me) = [me EXCEPT !.linking = links, !.pc = pc]
  BY DEF Raised
<1>3. links \in SUBSET Files /\ pc \in {"forget", "restore"}
  BY <1>1 DEF Memory
<1>4. pc \in Steps
  BY <1>3 DEF Steps
<1> HIDE DEF links, pc
<1>5. [me EXCEPT !.linking = links, !.pc = pc] \in Memory
  BY <1>1, <1>3, <1>4 DEF Memory
<1> QED BY <1>1, <1>2, <1>3, <1>5 DEF Coherent, Memory

(* Nor do the changes of stage between the calls of a run. *)
LEMMA StagesCoherent ==
  ASSUME NEW me, Coherent(me)
  PROVE  /\ Coherent(AfterUpsert(me)) /\ Coherent(AfterCreate(me))
         /\ Coherent(EndCreate(me))
         /\ \A files \in SUBSET Files, calling \in {"full", "create", "upsert"} :
              Coherent(Creating(me, files, calling))
<1>1. me \in Memory
  BY DEF Coherent
<1>2. ASSUME NEW pc \in {"delete", "done", "upsert", "gather"}
      PROVE  Coherent([me EXCEPT !.pc = pc])
  <2>1. pc \in Steps
    BY DEF Steps
  <2>2. [me EXCEPT !.pc = pc] \in Memory
    BY <1>1, <2>1 DEF Memory
  <2> QED BY <1>1, <2>2 DEF Coherent, Memory
<1>3. ASSUME NEW files \in SUBSET Files, NEW calling \in {"full", "create", "upsert"}
      PROVE  Coherent(Creating(me, files, calling))
  <2>1. Creating(me, files, calling) \in Memory
    BY <1>1 DEF Memory, Creating, Steps
  <2> QED BY <1>1, <2>1 DEF Coherent, Memory, Creating
<1>4. Coherent(AfterUpsert(me))
  BY <1>2 DEF AfterUpsert
<1>5. Coherent(AfterCreate(me))
  BY <1>2, <1>4 DEF AfterCreate
<1> QED BY <1>2, <1>3, <1>4, <1>5 DEF EndCreate

-----------------------------------------------------------------------------
(* The steps before the work: reading the tenant, pulling, stamping. *)
LEMMA PreparingTypes ==
  ASSUME TypeInv, NEW w \in Workers,
         Begin(w) \/ Pull(w) \/ Stamp(w) \/ Disconnected(w) \/ NoDefinitions(w)
  PROVE  TypeInv'
<1> DEFINE me == worker[w]
<1>1. me \in Memory /\ Coherent(me) /\ worker \in [Workers -> Memory]
  BY Facts DEF TypeInv, TypeOK
<1>2. Coherent(Idle)
  BY IdleCoherent
<1>3. ASSUME NEW pc \in {"wipe", "stamp", "plan"}
      PROVE  Coherent([me EXCEPT !.pc = pc])
  <2>1. [me EXCEPT !.pc = pc] \in Memory
    BY <1>1 DEF Memory, Steps
  <2> QED BY <1>1, <2>1 DEF Coherent, Memory
<1>4. CASE Begin(w)
  <2>1. PICK n : n = [Idle EXCEPT !.pc = "pull", !.since = lastParsed]
    OBVIOUS
  <2>2. worker' = [worker EXCEPT ![w] = n]
    BY <1>4, <2>1 DEF Begin
  <2>3. n \in Memory
    BY <1>2, <2>1, Facts DEF Coherent, Memory, Steps
  <2>4. n.pc = "pull" /\ n.since = lastParsed /\ n.taken = Idle.taken /\ n.loaded = Idle.loaded
    BY <1>2, <2>1 DEF Idle
  <2>5. Coherent(n)
    BY <1>2, <2>3, <2>4, Facts DEF Coherent
  <2>6. Orderly
    BY <1>4, Facts, Thinking DEF Begin
  <2> QED BY <2>2, <2>5, <2>6, RunKeepsTypes
<1>5. CASE Pull(w)
  <2>1. Orderly
    <3>1. clone' = Len(history) /\ UNCHANGED <<history, lastParsed, table, faults, seen, overlapped>>
      BY <1>5 DEF Pull
    <3>2. Len(history) \in Nat /\ clone \in Nat /\ clone <= Len(history)
      BY Facts
    <3>3. clone' \in clone .. Len(history) /\ seen' \subseteq 1 .. clone'
          /\ \A f \in Files : table[f].content \in 0 .. clone'
      BY <3>1, <3>2, Facts
    <3> QED BY <3>1, <3>3, Facts DEF Orderly
  <2> QED BY <1>3, <1>5, <2>1, RunKeepsTypes DEF Pull
<1>6. CASE Stamp(w)
  <2>1. lastParsed' = Len(history) /\ lastParsed' \in Stamps
    BY <1>6, Facts DEF Stamp, Stamps
  <2>2. Orderly
    BY <1>6, <2>1, Facts, Thinking DEF Stamp
  <2> QED BY <1>3, <1>6, <2>2, RunKeepsTypes DEF Stamp
<1>7. ASSUME faults < MaxFaults, faults' = faults + 1 PROVE faults' \in 0 .. MaxFaults
  BY <1>7, Facts, BoundsAssumption
<1>8. CASE Disconnected(w)
  <2>1. Orderly
    BY <1>7, <1>8, Facts, Thinking DEF Disconnected, Stamps, Fault
  <2> QED BY <1>3, <1>8, <2>1, RunKeepsTypes DEF Disconnected
<1>9. CASE NoDefinitions(w)
  <2>1. Orderly
    BY <1>7, <1>9, Facts, Thinking DEF NoDefinitions, Fault
  <2> QED BY <1>2, <1>9, <2>1, RunKeepsTypes DEF NoDefinitions
<1> QED BY <1>4, <1>5, <1>6, <1>8, <1>9

(* The two ways to plan a run. *)
LEMMA PlanningTypes ==
  ASSUME TypeInv, NEW w \in Workers, PlanFull(w) \/ PlanChanges(w)
  PROVE  TypeInv'
<1> DEFINE me == worker[w]
<1>1. me \in Memory /\ Coherent(me)
  BY Facts
<1>2. Orderly
  BY Facts, Thinking DEF PlanFull, PlanChanges
<1>3. 1 .. clone \in SUBSET (1 .. MaxCommits)
  BY Facts, BoundsAssumption DEF Count
<1>4. CASE PlanFull(w)
  <2>1. PICK m : m = Creating(me, Tree(clone), "full")
    OBVIOUS
  <2>2. Coherent(m)
    BY <1>1, <2>1, StagesCoherent, TreeVersions
  <2>3. m.pc = "create"
    BY <1>1, <2>1 DEF Creating, Memory
  <2>4. PICK n : n = [m EXCEPT !.taken = 1 .. clone]
    OBVIOUS
  <2>5. n \in Memory /\ n.taken = 1 .. clone
    BY <1>3, <2>2, <2>4 DEF Coherent, Memory
  <2>6. Coherent(n)
    BY <2>2, <2>3, <2>4, <2>5 DEF Coherent, Memory
  <2>7. worker' = [worker EXCEPT ![w] = n]
    BY <1>4, <2>1, <2>4 DEF PlanFull
  <2> QED BY <1>2, <2>6, <2>7, RunKeepsTypes
<1>5. CASE PlanChanges(w)
  <2>1. PICK base \in Bases(me.since) :
          LET new == Tree(clone) \ Tree(base)
              m == [me EXCEPT
                     !.modified = {f \in Tree(base) \cap Tree(clone) :
                                     Version(base, f) # Version(clone, f)},
                     !.deleted = Tree(base) \ Tree(clone),
                     !.taken = base + 1 .. clone]
          IN worker' = [worker EXCEPT ![w] =
               IF new # {} THEN Creating(m, new, "create") ELSE AfterCreate(m)]
    BY <1>5 DEF PlanChanges
  <2> DEFINE new == Tree(clone) \ Tree(base)
             modified == {f \in Tree(base) \cap Tree(clone) :
                            Version(base, f) # Version(clone, f)}
             deleted == Tree(base) \ Tree(clone)
  <2>2. base \in Nat
    <3>1. me.since \in Nat
      <4>1. me.since # Never
        BY <1>5 DEF PlanChanges
      <4>2. me.since \in Stamps
        BY <1>1 DEF Memory
      <4> QED BY <4>1, <4>2 DEF Stamps, Count
    <3>2. base = me.since + 1 \/ base = clone \/ base = IF clone = 0 THEN 0 ELSE clone - 1
      BY <2>1 DEF Bases
    <3> QED BY <3>1, <3>2, Facts
  <2>3. base + 1 .. clone \subseteq 1 .. clone
    BY <2>2, Facts
  <2>4. new \in SUBSET Files /\ modified \in SUBSET Files /\ deleted \in SUBSET Files
    BY DEF Tree
  <2>5. PICK m : m = [me EXCEPT !.modified = modified, !.deleted = deleted,
                                !.taken = base + 1 .. clone]
    OBVIOUS
  <2>6. worker' = [worker EXCEPT ![w] =
                    IF new # {} THEN Creating(m, new, "create") ELSE AfterCreate(m)]
    BY <2>1, <2>5, Zenon
  <2> HIDE DEF modified, deleted, new
  <2>7. m \in Memory /\ m.taken = base + 1 .. clone /\ m.pc = "plan"
        /\ m.loaded = me.loaded /\ m.since = me.since
    BY <1>1, <1>3, <1>5, <2>3, <2>4, <2>5 DEF Memory, PlanChanges
  <2>8. Coherent(m)
    BY <1>1, <2>3, <2>7 DEF Coherent
  <2>9. Coherent(IF new # {} THEN Creating(m, new, "create") ELSE AfterCreate(m))
    BY <2>4, <2>8, StagesCoherent
  <2> QED BY <1>2, <2>6, <2>9, RunKeepsTypes
<1> QED BY <1>4, <1>5

(* Rows that are taken away leave a table in order. *)
LEMMA WithoutTyped ==
  ASSUME TypeInv, NEW files, NEW w \in Workers, UNCHANGED <<history, clone, lastParsed>>,
         table' = Without(files), seen' \subseteq seen, faults' = faults,
         UNCHANGED overlapped
  PROVE  Orderly
<1>1. NoRow \in Row /\ NoRow.content = 0 /\ NoRow.refs = 0
  BY BoundsAssumption DEF NoRow, Row, Count
<1>2. table' \in [Files -> Row]
  BY <1>1, Facts DEF Without
<1>3. ASSUME NEW f \in Files
      PROVE  /\ table'[f].content = 0 => table'[f].refs = 0
             /\ table'[f].content \in 0 .. clone
  <2>1. table'[f] = NoRow \/ table'[f] = table[f]
    BY DEF Without
  <2> QED BY <1>1, <2>1, Facts
<1>4. clone' \in clone .. Len(history) /\ clone' = clone /\ seen' \subseteq 1 .. clone
  BY Facts
<1> QED BY <1>2, <1>3, <1>4, Facts DEF Orderly

(* Types through a create. *)
LEMMA CreatingTypes ==
  ASSUME TypeInv, NEW w \in Workers,
         Create(w) \/ Add(w) \/ AddRefused(w) \/ ClearAll(w) \/ ClearSome(w)
  PROVE  TypeInv'
<1> DEFINE me == worker[w]
<1>1. me \in Memory /\ Coherent(me)
  BY Facts
<1>2. ASSUME NEW pc \in {"clear", "again"}, me.pc \in {"add", "clear", "again"}
      PROVE  Coherent([me EXCEPT !.pc = pc])
  <2>1. [me EXCEPT !.pc = pc] \in Memory
    BY <1>1 DEF Memory, Steps
  <2> QED BY <1>1, <1>2, <2>1 DEF Coherent, Memory
<1>3. Coherent(Raised(me))
  BY <1>1, RaisedCoherent
<1>4. CASE Create(w)
  <2>1. PICK files : files = OnDisk(me.creating)
    OBVIOUS
  <2>2. PICK loaded : loaded = Loaded(me, files)
    OBVIOUS
  <2>3. PICK n : n = [[me EXCEPT !.creating = files, !.loaded = loaded] EXCEPT !.pc = "add"]
    OBVIOUS
  <2>4. files \in SUBSET Files /\ files \subseteq Tree(clone)
    BY <2>1, TreeVersions DEF OnDisk
  <2>5. loaded \in [Files -> Count]
        /\ \A f \in Files : loaded[f] \in 0 .. clone /\ (f \in files => loaded[f] # 0)
    <3>1. \A f \in Files : me.loaded[f] \in Count /\ me.loaded[f] \in 0 .. clone
      BY <1>1 DEF Coherent, Memory
    <3> QED BY <2>2, <2>4, <3>1, TreeVersions DEF Loaded
  <2>6. n \in Memory
    BY <1>1, <2>3, <2>4, <2>5 DEF Memory, Steps
  <2>7. n.pc = "add" /\ n.creating = files /\ n.loaded = loaded /\ n.taken = me.taken
        /\ n.since = me.since
    BY <1>1, <2>3 DEF Memory
  <2>8. Coherent(n)
    BY <1>1, <2>4, <2>5, <2>6, <2>7 DEF Coherent
  <2>9. worker' = [worker EXCEPT ![w] = n]
    BY <1>4, <2>1, <2>2, <2>3 DEF Create
  <2>10. Orderly
    BY <1>4, Facts, Thinking DEF Create
  <2> QED BY <2>8, <2>9, <2>10, RunKeepsTypes
<1>5. CASE Add(w)
  <2>1. me.pc \in {"add", "again"} /\ table' = Created(me)
        /\ worker' = [worker EXCEPT ![w] = EndCreate(me)]
        /\ UNCHANGED <<history, clone, lastParsed, faults, seen, overlapped>>
    BY <1>5 DEF Add
  <2>2. \A f \in me.creating : me.loaded[f] # 0
    BY <1>1, <2>1 DEF Coherent
  <2>3. \A f \in Files : me.loaded[f] \in Count /\ me.loaded[f] \in 0 .. clone
    BY <1>1 DEF Coherent, Memory
  <2>4. ASSUME NEW f \in Files
        PROVE  /\ table'[f] \in Row
               /\ table'[f].content = 0 => table'[f].refs = 0
               /\ table'[f].content \in 0 .. clone
    <3>1. CASE f \in me.creating
      <4>1. RefsOnCreate(me.loaded[f]) \in Count
        <5>1. me.loaded[f] \in Count /\ 0 \in Count
          BY <2>3, BoundsAssumption DEF Count
        <5> QED BY <5>1 DEF RefsOnCreate
      <4>2. table'[f] = [content |-> me.loaded[f], refs |-> RefsOnCreate(me.loaded[f])]
        BY <2>1, <3>1 DEF Created
      <4> QED BY <2>2, <2>3, <3>1, <4>1, <4>2 DEF Row
    <3>2. CASE f \notin me.creating
      BY <2>1, <3>2, Facts DEF Created
    <3> QED BY <3>1, <3>2
  <2>5. table' \in [Files -> Row]
    BY <2>1, <2>4 DEF Created
  <2>6. clone' \in clone .. Len(history) /\ clone' = clone
    BY <2>1, Facts
  <2>7. Orderly
    BY <2>1, <2>4, <2>5, <2>6, Facts DEF Orderly
  <2> QED BY <1>1, <2>1, <2>7, RunKeepsTypes, StagesCoherent
<1>6. CASE AddRefused(w)
  <2>1. Orderly
    BY <1>6, Facts, Thinking DEF AddRefused
  <2>2. worker' = [worker EXCEPT ![w] =
                    IF me.pc = "add" THEN [me EXCEPT !.pc = "clear"] ELSE Raised(me)]
    BY <1>6 DEF AddRefused
  <2>3. Coherent(IF me.pc = "add" THEN [me EXCEPT !.pc = "clear"] ELSE Raised(me))
    BY <1>2, <1>3
  <2> QED BY <2>1, <2>2, <2>3, RunKeepsTypes
<1>7. CASE ClearAll(w)
  <2>1. Orderly
    BY <1>7, WithoutTyped DEF ClearAll
  <2> QED BY <1>2, <1>7, <2>1, RunKeepsTypes DEF ClearAll
<1>8. CASE ClearSome(w)
  <2>1. PICK found : found = Joined(me.creating)
    OBVIOUS
  <2>2. me.pc = "clear" /\ table' = Without(found) /\ seen' \subseteq seen
        /\ UNCHANGED <<history, clone, lastParsed, faults, overlapped>>
        /\ worker' = [worker EXCEPT ![w] =
             IF found = {} THEN Raised(me) ELSE [me EXCEPT !.pc = "again"]]
    BY <1>8, <2>1 DEF ClearSome
  <2>3. Coherent(IF found = {} THEN Raised(me) ELSE [me EXCEPT !.pc = "again"])
    BY <1>2, <1>3, <2>2
  <2>4. Orderly
    BY <2>2, WithoutTyped
  <2> QED BY <2>2, <2>3, <2>4, RunKeepsTypes
<1> QED BY <1>4, <1>5, <1>6, <1>7, <1>8

(* Types through an update of one file. *)
LEMMA UpdatingTypes ==
  ASSUME TypeInv, NEW w \in Workers, NEW f \in Files,
         Look(w, f) \/ WriteContent(w, f) \/ Unref(w, f)
  PROVE  TypeInv'
<1> DEFINE me == worker[w]
<1>1. me \in Memory /\ Coherent(me) /\ me.pc = "look" /\ me.progress[f] # "none"
      /\ UNCHANGED <<history, clone, lastParsed, faults, seen, overlapped>>
  BY Facts DEF Look, WriteContent, Unref
<1>2. me.loaded[f] # 0 /\ me.loaded[f] \in Count /\ me.loaded[f] \in 0 .. clone
  BY <1>1 DEF Coherent, Memory
<1>3. table[f] \in Row /\ table[f].refs \in Count
  BY Facts DEF Row
<1>4. ASSUME NEW n, NEW p \in Progress, n \in Memory, n.pc = "look",
             n.progress = [me.progress EXCEPT ![f] = p],
             n.loaded = me.loaded, n.taken = me.taken, n.since = me.since
      PROVE  Coherent(n)
  <2>1. \A g \in Files : n.progress[g] # "none" => me.progress[g] # "none" \/ g = f
    BY <1>1, <1>4 DEF Memory
  <2> QED BY <1>1, <1>2, <1>4, <2>1 DEF Coherent
<1>5. "none" \in Progress /\ "write" \in Progress /\ "unref" \in Progress
  BY DEF Progress
<1>6. me.creating \in SUBSET Files /\ me.linking \in SUBSET Files /\ me.old \in [Files -> Count]
      /\ me.progress \in [Files -> Progress]
      /\ \A p \in Progress : [me.progress EXCEPT ![f] = p] \in [Files -> Progress]
  BY <1>1 DEF Memory
<1>7. CASE Look(w, f)
  <2>1. Orderly
    BY <1>7, Facts, Thinking DEF Look
  <2>2. PICK old : old = [me.old EXCEPT ![f] = table[f].refs]
    OBVIOUS
  <2>3. old \in [Files -> Count]
    BY <1>3, <1>6, <2>2
  <2>4. ASSUME NEW n, n = [me EXCEPT !.progress[f] = "write", !.old[f] = table[f].refs]
        PROVE  Coherent(n)
    <3>1. PICK progress : progress = [me.progress EXCEPT ![f] = "write"]
      OBVIOUS
    <3>2. n = [me EXCEPT !.progress = progress, !.old = old]
      BY <1>1, <2>2, <2>4, <3>1 DEF Memory
    <3>3. progress \in [Files -> Progress]
      BY <1>5, <1>6, <3>1
    <3>4. n \in Memory /\ n.pc = "look" /\ n.progress = progress
          /\ n.loaded = me.loaded /\ n.taken = me.taken /\ n.since = me.since
      BY <1>1, <2>3, <3>2, <3>3 DEF Memory
    <3> QED BY <1>4, <1>5, <3>1, <3>4
  <2>5. ASSUME NEW n, n = [me EXCEPT !.progress[f] = "none", !.creating = me.creating \cup {f}]
        PROVE  Coherent(n)
    <3>1. PICK progress : progress = [me.progress EXCEPT ![f] = "none"]
      OBVIOUS
    <3>2. PICK creating : creating = me.creating \cup {f}
      OBVIOUS
    <3>3. n = [me EXCEPT !.progress = progress, !.creating = creating]
      BY <1>1, <2>5, <3>1, <3>2 DEF Memory
    <3>4. progress \in [Files -> Progress] /\ creating \in SUBSET Files
      BY <1>5, <1>6, <3>1, <3>2
    <3>5. n \in Memory /\ n.pc = "look" /\ n.progress = progress
          /\ n.loaded = me.loaded /\ n.taken = me.taken /\ n.since = me.since
      BY <1>1, <3>3, <3>4 DEF Memory
    <3> QED BY <1>4, <1>5, <3>1, <3>5
  <2>6. PICK n : n = IF HasRow(f)
                     THEN [me EXCEPT !.progress[f] = "write", !.old[f] = table[f].refs]
                     ELSE [me EXCEPT !.progress[f] = "none", !.creating = me.creating \cup {f}]
    OBVIOUS
  <2>7. worker' = [worker EXCEPT ![w] = n]
    <3>1. CASE HasRow(f)
      BY <1>7, <2>6, <3>1 DEF Look
    <3>2. CASE ~HasRow(f)
      <4>1. worker' = [worker EXCEPT ![w] = [me EXCEPT !.progress[f] = "none",
                                               !.creating = me.creating \cup {f}]]
        BY <1>7, <3>2 DEF Look
      <4> QED BY <2>6, <3>2, <4>1
    <3> QED BY <3>1, <3>2
  <2>8. Coherent(n)
    BY <2>4, <2>5, <2>6
  <2> QED BY <2>1, <2>7, <2>8, RunKeepsTypes
<1>8. ASSUME NEW row \in Row, row.content = 0 => row.refs = 0, row.content \in 0 .. clone,
             table' = [table EXCEPT ![f] = row]
      PROVE  Orderly
  <2>1. table' \in [Files -> Row]
    BY <1>8, Facts
  <2>2. \A g \in Files : /\ table'[g].content = 0 => table'[g].refs = 0
                         /\ table'[g].content \in 0 .. clone
    BY <1>8, Facts
  <2> QED BY <1>1, <2>1, <2>2, Facts DEF Orderly
<1>9. table' = table => Orderly
  BY <1>1, Facts, Thinking
<1>10. CASE WriteContent(w, f)
  <2>1. Orderly
    <3>1. PICK row : row = [table[f] EXCEPT !.content = me.loaded[f]]
      OBVIOUS
    <3>2. row \in Row /\ row.content = me.loaded[f]
      BY <1>2, <1>3, <3>1 DEF Row
    <3>3. HasRow(f) => table' = [table EXCEPT ![f] = row]
      BY <1>10, <3>1, Facts DEF WriteContent
    <3>4. ~HasRow(f) => table' = table
      BY <1>10 DEF WriteContent
    <3> QED BY <1>2, <1>8, <1>9, <3>2, <3>3, <3>4
  <2>2. PICK progress : progress = [me.progress EXCEPT ![f] = "unref"]
    OBVIOUS
  <2>3. PICK n : n = [me EXCEPT !.progress = progress]
    OBVIOUS
  <2>4. worker' = [worker EXCEPT ![w] = n]
    BY <1>1, <1>10, <2>2, <2>3, Facts DEF WriteContent, TypeInv, TypeOK, Memory
  <2>5. progress \in [Files -> Progress]
    BY <1>5, <1>6, <2>2
  <2>6. n \in Memory /\ n.pc = "look" /\ n.progress = progress
        /\ n.loaded = me.loaded /\ n.taken = me.taken /\ n.since = me.since
    BY <1>1, <2>3, <2>5 DEF Memory
  <2>7. Coherent(n)
    BY <1>4, <1>5, <2>2, <2>6
  <2> QED BY <2>1, <2>4, <2>7, RunKeepsTypes
<1>11. CASE Unref(w, f)
  <2>1. Orderly
    <3>1. PICK row : row = [table[f] EXCEPT !.refs = 0]
      OBVIOUS
    <3>2. row \in Row /\ row.content = table[f].content /\ row.refs = 0
      BY <1>3, <3>1, BoundsAssumption DEF Row, Count
    <3>3. row.content \in 0 .. clone
      BY <3>2, Facts
    <3>4. table' = [table EXCEPT ![f] = row] \/ table' = table
      BY <1>11, <3>1, Facts DEF Unref
    <3> QED BY <1>8, <1>9, <3>2, <3>3, <3>4
  <2>2. PICK links : links = me.linking
                            \cup (IF HasRefs(me.loaded[f]) THEN {f} ELSE {})
    OBVIOUS
  <2>3. PICK progress : progress = [me.progress EXCEPT ![f] = "none"]
    OBVIOUS
  <2>4. PICK n : n = [me EXCEPT !.progress = progress, !.linking = links]
    OBVIOUS
  <2>5. worker' = [worker EXCEPT ![w] = n]
    <3>1. n = [me EXCEPT !.progress[f] = "none", !.linking = links]
      BY <1>1, <2>3, <2>4 DEF Memory
    <3> QED BY <1>11, <2>2, <3>1 DEF Unref
  <2>6. progress \in [Files -> Progress] /\ links \in SUBSET Files
    BY <1>5, <1>6, <2>2, <2>3
  <2>7. n \in Memory /\ n.pc = "look" /\ n.progress = progress
        /\ n.loaded = me.loaded /\ n.taken = me.taken /\ n.since = me.since
    BY <1>1, <2>4, <2>6 DEF Memory
  <2>8. Coherent(n)
    BY <1>4, <1>5, <2>3, <2>7
  <2> QED BY <2>1, <2>5, <2>8, RunKeepsTypes
<1> QED BY <1>7, <1>10, <1>11

(* Types through the other steps of an upsert. *)
LEMMA UpsertingTypes ==
  ASSUME TypeInv, NEW w \in Workers,
         Upsert(w) \/ Gather(w) \/ Link(w) \/ EndUpsert(w)
  PROVE  TypeInv'
<1> DEFINE me == worker[w]
<1>1. me \in Memory /\ Coherent(me)
  BY Facts
<1>2. CASE Upsert(w)
  <2>1. PICK files : files = OnDisk(me.modified)
    OBVIOUS
  <2>2. PICK loaded : loaded = Loaded(me, files)
    OBVIOUS
  <2>3. PICK progress : progress = [f \in Files |-> IF f \in files THEN "look" ELSE "none"]
    OBVIOUS
  <2>4. PICK n : n = [me EXCEPT !.pc = "look", !.creating = {}, !.loaded = loaded,
                                !.progress = progress]
    OBVIOUS
  <2>5. files \in SUBSET Files /\ files \subseteq Tree(clone)
    BY <2>1, TreeVersions DEF OnDisk
  <2>6. loaded \in [Files -> Count]
        /\ \A f \in Files : loaded[f] \in 0 .. clone /\ (f \in files => loaded[f] # 0)
    <3>1. \A f \in Files : me.loaded[f] \in Count /\ me.loaded[f] \in 0 .. clone
      BY <1>1 DEF Coherent, Memory
    <3> QED BY <2>2, <2>5, <3>1, TreeVersions DEF Loaded
  <2>7. progress \in [Files -> Progress]
        /\ \A f \in Files : progress[f] # "none" => f \in files
    BY <2>3 DEF Progress
  <2>8. n \in Memory
    BY <1>1, <2>4, <2>6, <2>7 DEF Memory, Steps
  <2>9. n.pc = "look" /\ n.loaded = loaded /\ n.progress = progress
        /\ n.taken = me.taken /\ n.since = me.since
    BY <1>1, <2>4 DEF Memory
  <2>10. Coherent(n)
    BY <1>1, <2>6, <2>7, <2>8, <2>9 DEF Coherent
  <2>11. worker' = [worker EXCEPT ![w] = n]
    BY <1>2, <2>1, <2>2, <2>3, <2>4 DEF Upsert
  <2>12. Orderly
    BY <1>2, Facts, Thinking DEF Upsert
  <2> QED BY <2>10, <2>11, <2>12, RunKeepsTypes
<1>3. Coherent([me EXCEPT !.pc = "gather"])
  <2>1. [me EXCEPT !.pc = "gather"] \in Memory
    BY <1>1 DEF Memory, Steps
  <2> QED BY <1>1, <2>1 DEF Coherent, Memory
<1>4. CASE Gather(w)
  <2>1. Orderly
    BY <1>4, Facts, Thinking DEF Gather
  <2>2. worker' = [worker EXCEPT ![w] =
                    IF me.creating # {} THEN Creating(me, me.creating, "upsert")
                    ELSE [me EXCEPT !.pc = "gather"]]
    BY <1>4 DEF Gather
  <2>3. me.creating \in SUBSET Files
    BY <1>1 DEF Memory
  <2>4. Coherent(IF me.creating # {} THEN Creating(me, me.creating, "upsert")
                 ELSE [me EXCEPT !.pc = "gather"])
    BY <1>1, <1>3, <2>3, StagesCoherent
  <2> QED BY <2>1, <2>2, <2>4, RunKeepsTypes
<1>5. CASE Link(w)
  <2> DEFINE fits == \A f \in me.linking : HasRow(f) /\ table[f].refs = 0
             linked == [f \in Files |-> IF f \in me.linking
                                        THEN [table[f] EXCEPT !.refs = me.loaded[f]]
                                        ELSE table[f]]
  <2>1. UNCHANGED <<history, clone, lastParsed, faults, seen, overlapped>>
    BY <1>5 DEF Link
  <2>2. ASSUME NEW m, Coherent(m), NEW n, n = [m EXCEPT !.linking = {}]
        PROVE  Coherent(n)
    <3>1. m \in Memory
      BY <2>2 DEF Coherent
    <3>2. n \in Memory
      BY <2>2, <3>1 DEF Memory
    <3>3. n.pc = m.pc /\ n.loaded = m.loaded /\ n.progress = m.progress
          /\ n.taken = m.taken /\ n.since = m.since /\ n.creating = m.creating
      BY <2>2, <3>1 DEF Memory
    <3> QED BY <2>2, <3>2, <3>3 DEF Coherent
  <2>3. clone' \in clone .. Len(history) /\ clone' = clone
    BY <2>1, Facts
  <2>4. CASE fits
    <3>1. table' = linked
      BY <1>5, <2>4 DEF Link
    <3>2. PICK n : n = [me EXCEPT !.linking = {}]
      OBVIOUS
    <3>3. worker' = [worker EXCEPT ![w] = n]
      BY <1>5, <2>4, <3>2 DEF Link
    <3>4. ASSUME NEW f \in Files
          PROVE  /\ table'[f] \in Row
                 /\ table'[f].content = 0 => table'[f].refs = 0
                 /\ table'[f].content \in 0 .. clone
      <4>1. table[f] \in Row /\ table[f].content \in 0 .. clone
            /\ (table[f].content = 0 => table[f].refs = 0)
        BY Facts
      <4>2. CASE f \in me.linking
        <5>1. me.loaded[f] \in Count /\ HasRow(f)
          BY <1>1, <2>4, <4>2 DEF Memory
        <5>2. table'[f] = [table[f] EXCEPT !.refs = me.loaded[f]]
          BY <3>1, <4>2
        <5> QED BY <4>1, <5>1, <5>2 DEF HasRow, Row
      <4>3. CASE f \notin me.linking
        <5>1. table'[f] = table[f]
          BY <3>1, <4>3
        <5> QED BY <4>1, <5>1
      <4> QED BY <4>2, <4>3
    <3>5. table' \in [Files -> Row]
      BY <3>1, <3>4
    <3>6. Orderly
      BY <2>1, <2>3, <3>4, <3>5, Facts DEF Orderly
    <3> QED BY <1>1, <2>2, <3>2, <3>3, <3>6, RunKeepsTypes
  <2>5. CASE ~fits
    <3>1. table' = table
      BY <1>5, <2>5 DEF Link
    <3>2. PICK n : n = [Raised(me) EXCEPT !.linking = {}]
      OBVIOUS
    <3>3. worker' = [worker EXCEPT ![w] = n]
      BY <1>5, <2>5, <3>2 DEF Link
    <3>4. Orderly
      BY <2>1, <3>1, Facts, Thinking
    <3> QED BY <1>1, <2>2, <3>2, <3>3, <3>4, RaisedCoherent, RunKeepsTypes
  <2> QED BY <2>4, <2>5
<1>6. CASE EndUpsert(w)
  <2>1. Orderly
    BY <1>6, Facts, Thinking DEF EndUpsert
  <2> QED BY <1>1, <1>6, <2>1, RunKeepsTypes, StagesCoherent DEF EndUpsert
<1> QED BY <1>2, <1>4, <1>5, <1>6

(* Types through the end of a run, whichever end it takes. *)
LEMMA EndingTypes ==
  ASSUME TypeInv, NEW w \in Workers,
         \/ Delete(w) \/ Finish(w) \/ Forget(w) \/ Wipe(w) \/ Restore(w)
         \/ Fail(w) \/ Crash(w)
  PROVE  TypeInv'
<1> DEFINE me == worker[w]
<1>1. me \in Memory /\ Coherent(me)
  BY Facts
<1>2. Coherent(Idle) /\ Coherent(Raised(me))
  BY <1>1, IdleCoherent, RaisedCoherent
<1>3. ASSUME NEW pc \in {"done", "wipe"}
      PROVE  Coherent([me EXCEPT !.pc = pc])
  <2>1. [me EXCEPT !.pc = pc] \in Memory
    BY <1>1 DEF Memory, Steps
  <2> QED BY <1>1, <2>1 DEF Coherent, Memory
<1>4. CASE Delete(w)
  <2>1. Orderly
    BY <1>4, WithoutTyped DEF Delete
  <2> QED BY <1>3, <1>4, <2>1, RunKeepsTypes DEF Delete
<1>5. CASE Finish(w)
  <2>1. me.taken \subseteq 1 .. clone
    BY <1>1 DEF Coherent
  <2>2. seen' \subseteq 1 .. clone
    BY <1>5, <2>1, Facts DEF Finish
  <2>3. Orderly
    BY <1>5, <2>2, Facts, Thinking DEF Finish
  <2> QED BY <1>2, <1>5, <2>3, RunKeepsTypes DEF Finish
<1>6. CASE Forget(w)
  <2>1. Orderly
    BY <1>6, Facts, Thinking DEF Forget, Stamps
  <2> QED BY <1>3, <1>6, <2>1, RunKeepsTypes DEF Forget
<1>7. CASE Wipe(w)
  <2>1. Orderly
    BY <1>7, WithoutTyped DEF Wipe
  <2> QED BY <1>2, <1>7, <2>1, RunKeepsTypes DEF Wipe
<1>8. CASE Restore(w)
  <2>1. lastParsed' \in Stamps /\ (lastParsed' # Never => lastParsed' <= Len(history))
    BY <1>1, <1>8 DEF Restore, Coherent, Memory
  <2>2. Orderly
    BY <1>8, <2>1, Facts, Thinking DEF Restore
  <2> QED BY <1>2, <1>8, <2>2, RunKeepsTypes DEF Restore
<1>9. ASSUME Fault PROVE faults' \in 0 .. MaxFaults
  BY <1>9, Facts, BoundsAssumption DEF Fault
<1>10. CASE Fail(w)
  <2>1. Orderly
    BY <1>9, <1>10, Facts, Thinking DEF Fail
  <2> QED BY <1>2, <1>10, <2>1, RunKeepsTypes DEF Fail
<1>11. CASE Crash(w)
  <2>1. Orderly
    BY <1>9, <1>11, Facts, Thinking DEF Crash
  <2> QED BY <1>2, <1>11, <2>1, RunKeepsTypes DEF Crash
<1> QED BY <1>4, <1>5, <1>6, <1>7, <1>8, <1>10, <1>11

(* Types through a push, which deletes only what is there. *)
LEMMA PushTypes ==
  ASSUME TypeInv, NEW f \in Files, NEW kind \in {"write", "delete"},
         NEW scope \in Scopes \cup {"none"}, Push(f, kind, scope)
  PROVE  TypeInv'
<1>1. TypeOK /\ Len(history) \in Nat
  BY DEF TypeInv, TypeOK, Count
<1>2. Longer /\ history' \in Seq(Commit) /\ Len(history') \in Count
  BY <1>1, HistoryGrows DEF Next
<1>3. UNCHANGED <<clone, lastParsed, table, worker, faults, seen, overlapped>>
  BY DEF Push
<1>4. Len(history') \in Nat /\ Len(history) <= Len(history')
  BY <1>1, <1>2 DEF Longer, Count
<1>5. TypeOK'
  BY <1>1, <1>2, <1>3, <1>4 DEF TypeOK
<1>6. ASSUME NEW v \in Workers PROVE Coherent(worker[v])'
  <2>1. PICK me : me = worker[v]
    OBVIOUS
  <2>2. Coherent(me) /\ me \in Memory /\ me = worker'[v]
    BY <1>3, <2>1 DEF TypeInv, Coherent
  <2>3. me.since # Never => me.since \in Nat /\ me.since <= Len(history')
    BY <1>1, <1>4, <2>2 DEF Coherent, Memory, Stamps, Count
  <2> QED BY <1>3, <2>2, <2>3 DEF Coherent
<1>7. GitInv'
  <2>1. ASSUME NEW i \in 1 .. Len(history'), history'[i].kind = "delete"
        PROVE  (Version(i - 1, history[i].file) # 0)'
    <3>1. PICK g : g = history'[i].file
      OBVIOUS
    <3>2. i - 1 \in 0 .. Len(history)
      <4> DEFINE c == [file |-> f, kind |-> kind, scope |-> scope]
      <4>1. c \in Commit
        BY ScopesAssumption DEF Commit, AllScopes
      <4>2. history' = Append(history, c) /\ history \in Seq(Commit)
        BY <1>1 DEF Push, TypeOK
      <4> HIDE DEF c
      <4>3. Len(history') = Len(history) + 1
        BY <4>1, <4>2, AppendProperties
      <4> QED BY <1>1, <4>3
    <3>3. Version(i - 1, g)' = Version(i - 1, g)
      BY <1>1, <1>2, <3>2, TreesStay
    <3>4. CASE i \in 1 .. Len(history)
      BY <1>2, <2>1, <3>1, <3>3, <3>4 DEF TypeInv, GitInv, Longer
    <3>5. CASE i = Len(history) + 1
      <4> DEFINE c == [file |-> f, kind |-> kind, scope |-> scope]
      <4>1. c \in Commit
        BY ScopesAssumption DEF Commit, AllScopes
      <4>2. history' = Append(history, c) /\ history \in Seq(Commit)
        BY <1>1 DEF Push, TypeOK
      <4>3. history'[i] = c
        <5> HIDE DEF c
        <5> QED BY <3>5, <4>1, <4>2, AppendProperties
      <4>4. kind = "delete" /\ f = g
        BY <2>1, <3>1, <4>3
      <4>5. f \in Tree(Len(history))
        BY <4>4 DEF Push
      <4>6. i - 1 = Len(history)
        BY <1>1, <3>5
      <4> QED BY <3>1, <3>3, <4>4, <4>5, <4>6 DEF Tree
    <3> QED BY <1>1, <3>2, <3>4, <3>5
  <2> QED BY <2>1 DEF GitInv
<1>8. lastParsed' # Never => lastParsed' <= Len(history')
  <2>1. lastParsed # Never => lastParsed \in Nat /\ lastParsed <= Len(history)
    BY DEF TypeInv, TypeOK, Stamps, Count
  <2> QED BY <1>1, <1>3, <1>4, <2>1
<1> QED BY <1>3, <1>5, <1>6, <1>7, <1>8 DEF TypeInv

(* The inductive step of the types. *)
LEMMA TypeStep ==
  ASSUME TypeInv, [Next]_vars
  PROVE  TypeInv'
<1>1. CASE UNCHANGED vars
  <2>1. UNCHANGED <<history, clone, lastParsed, table, worker, faults, seen, overlapped>>
    BY <1>1 DEF vars
  <2>2. TypeOK' /\ GitInv'
    <3>1. Longer /\ TypeOK /\ Len(history) \in Nat
      BY <2>1 DEF Longer, TypeInv, TypeOK, Count
    <3>2. TypeOK'
      BY <2>1, <3>1 DEF TypeOK
    <3>3. ASSUME NEW i \in 1 .. Len(history), history[i].kind = "delete"
          PROVE  Version(i - 1, history[i].file)' # 0
      <4>1. PICK g : g = history[i].file /\ g = history'[i].file
        BY <2>1
      <4>2. Version(i - 1, g)' = Version(i - 1, g)
        BY <3>1, TreesStay
      <4> QED BY <3>3, <4>1, <4>2 DEF TypeInv, GitInv
    <3> QED BY <2>1, <3>2, <3>3 DEF GitInv
  <2>3. ASSUME NEW v \in Workers PROVE Coherent(worker[v])'
    <3>1. PICK me : me = worker[v]
      OBVIOUS
    <3> QED BY <2>1, <3>1 DEF TypeInv, Coherent
  <2> QED BY <2>1, <2>2, <2>3 DEF TypeInv
<1>2. ASSUME NEW w \in Workers, Continue(w) PROVE TypeInv'
  BY <1>2, PreparingTypes, PlanningTypes, CreatingTypes, UpdatingTypes, UpsertingTypes,
     EndingTypes DEF Continue
<1>3. ASSUME NEW w \in Workers,
             Begin(w) \/ Disconnected(w) \/ NoDefinitions(w) \/ Fail(w) \/ Crash(w)
      PROVE  TypeInv'
  BY <1>3, PreparingTypes, EndingTypes
<1> QED BY <1>1, <1>2, <1>3, PushTypes DEF Next

(***************************************************************************)
(* TypeInv is inductive, for any number of files, tasks, commits and       *)
(* faults: a row has a version whenever it has content, and what tasks     *)
(* hold is of the clone, however they overlap.                             *)
(***************************************************************************)
THEOREM TypeInvariant == Spec => []TypeInv
<1>1. Init => TypeInv
  <2> SUFFICES ASSUME Init PROVE TypeInv
    OBVIOUS
  <2>1. history = <<>> /\ Len(history) = 0 /\ history \in Seq(Commit)
    BY DEF Init
  <2>2. Idle \in Memory
    BY NeverAssumption, BoundsAssumption
       DEF Idle, Memory, Steps, Stamps, Count, Progress
  <2>3. table = [f \in Files |-> NoRow] /\ NoRow \in Row
    BY BoundsAssumption DEF Init, NoRow, Row, Count
  <2>4. clone = 0 /\ lastParsed = Never /\ faults = 0 /\ seen = {} /\ overlapped = FALSE
        /\ worker = [w \in Workers |-> Idle]
    BY DEF Init
  <2>5. TypeOK
    <3>1. NoRow.content = 0 /\ NoRow.refs = 0
      BY DEF NoRow
    <3>2. worker \in [Workers -> Memory] /\ table \in [Files -> Row]
      BY <2>2, <2>3, <2>4
    <3>3. 0 \in Count /\ 0 \in 0 .. MaxFaults /\ 0 \in 0 .. Len(history)
      BY <2>1, BoundsAssumption DEF Count
    <3> QED BY <2>1, <2>3, <2>4, <3>1, <3>2, <3>3 DEF TypeOK, Stamps
  <2>6. \A w \in Workers : Coherent(worker[w])
    <3>1. Idle.pc = "idle" /\ Idle.since = Never /\ Idle.taken = {}
          /\ \A f \in Files : Idle.loaded[f] = 0
      BY DEF Idle
    <3> QED BY <2>2, <2>4, <3>1 DEF Coherent
  <2>7. GitInv
    BY <2>1 DEF GitInv
  <2> QED BY <2>3, <2>4, <2>5, <2>6, <2>7 DEF TypeInv, NoRow
<1> QED BY <1>1, TypeStep, PTL DEF Spec

(* Types, for every value of the constants: TypeOK of the runs. *)
THEOREM TypeCorrect == Spec => []TypeOK
<1>1. TypeInv => TypeOK
  BY DEF TypeInv
<1> QED BY <1>1, TypeInvariant, PTL

-----------------------------------------------------------------------------
(* As long as nothing goes wrong, nothing has gone wrong, and a task is     *)
(* started only when none runs.                                             *)
LEMMA CalmBefore ==
  ASSUME TypeInv, [Next]_vars, Calm'
  PROVE  /\ Calm
         /\ \A w \in Workers : Begin(w) => \A v \in Workers : ~Running(v)
         /\ \A w \in Workers : ~(Disconnected(w) \/ NoDefinitions(w) \/ Fail(w) \/ Crash(w))
<1>1. faults \in Nat
  BY BoundsAssumption DEF TypeInv, TypeOK
<1>2. ASSUME Fault PROVE FALSE
  BY <1>1, <1>2 DEF Fault, Calm
<1>3. \A w \in Workers : ~(Disconnected(w) \/ NoDefinitions(w) \/ Fail(w) \/ Crash(w))
  BY <1>2 DEF Disconnected, NoDefinitions, Fail, Crash
<1>4. ASSUME NEW w \in Workers, Begin(w)
      PROVE  Calm /\ \A v \in Workers : ~Running(v)
  BY <1>4 DEF Begin, Calm
<1>5. ASSUME NEW w \in Workers, Continue(w) PROVE UNCHANGED <<faults, overlapped>>
  BY <1>5 DEF Continue, Pull, Stamp, PlanFull, PlanChanges, Create, Add, AddRefused,
     ClearAll, ClearSome, Upsert, Look, WriteContent, Unref, Gather, Link, EndUpsert,
     Delete, Finish, Forget, Wipe, Restore
<1>6. ASSUME NEW f \in Files, NEW kind \in {"write", "delete"},
             NEW scope \in Scopes \cup {"none"}, Push(f, kind, scope)
      PROVE  UNCHANGED <<faults, overlapped>>
  BY <1>6 DEF Push
<1>7. UNCHANGED vars \/ UNCHANGED <<faults, overlapped>> => Calm
  BY DEF vars, Calm
<1> QED BY <1>3, <1>4, <1>5, <1>6, <1>7 DEF Next

(* A task that rests holds no row, and one that runs is the only one. *)
LEMMA OthersRest ==
  ASSUME TypeInv, RefsInv, NEW w \in Workers,
         Running(w) \/ \A v \in Workers : ~Running(v)
  PROVE  /\ Grasp(worker[w])
         /\ \A f \in Files : Agrees(f) \/ InHand(worker[w], f)
         /\ \A v \in Workers \ {w} : /\ ~Running(v) /\ worker[v].linking = {}
                                     /\ Grasp(worker[v])
<1>1. ASSUME NEW v \in Workers \ {w} PROVE ~Running(v) /\ Grasp(worker[v])
  BY DEF RefsInv, OneRuns
<1>2. ASSUME NEW v \in Workers, ~Running(v)
      PROVE  worker[v].linking = {} /\ \A f \in Files : ~InHand(worker[v], f)
  BY <1>2 DEF RefsInv, Grasp, Running, InHand, CreateSteps
<1>3. \A f \in Files : Agrees(f) \/ InHand(worker[w], f)
  BY <1>1, <1>2 DEF RefsInv
<1> QED BY <1>1, <1>2, <1>3 DEF RefsInv

(* What has to be shown of a step of one task. *)
LEMMA RefsRun ==
  ASSUME TypeInv, RefsInv, NEW w \in Workers,
         Running(w) \/ \A v \in Workers : ~Running(v),
         NEW n, worker' = [worker EXCEPT ![w] = n],
         Grasp(n)', \A f \in Files : Agrees(f)' \/ InHand(n, f)
  PROVE  RefsInv'
<1>1. worker \in [Workers -> Memory]
  BY DEF TypeInv, TypeOK
<1>2. worker'[w] = n /\ \A v \in Workers \ {w} : worker'[v] = worker[v]
  BY <1>1
<1>3. ASSUME NEW v \in Workers PROVE Grasp(worker[v])'
  <2>1. PICK you : you = worker'[v]
    OBVIOUS
  <2>2. CASE v = w
    BY <1>2, <2>2
  <2>3. CASE v # w
    <3>1. you.pc = "idle" /\ you.linking = {}
      BY <1>2, <2>1, <2>3, OthersRest DEF Running
    <3> QED BY <2>1, <3>1 DEF Grasp, CreateSteps
  <2> QED BY <2>2, <2>3
<1>4. OneRuns'
  BY <1>2, OthersRest DEF OneRuns, Running
<1>5. ASSUME NEW f \in Files PROVE (Agrees(f) \/ \E v \in Workers : InHand(worker[v], f))'
  <2>1. CASE Agrees(f)'
    BY <2>1
  <2>2. CASE InHand(n, f)
    <3>1. InHand(worker[w], f)'
      BY <1>2, <2>2 DEF InHand
    <3> QED BY <3>1
  <2> QED BY <2>1, <2>2
<1> QED BY <1>3, <1>4, <1>5 DEF RefsInv

(* The same if the step leaves rows and commits alone. *)
LEMMA RefsThink ==
  ASSUME TypeInv, RefsInv, NEW w \in Workers,
         Running(w) \/ \A v \in Workers : ~Running(v),
         NEW n, worker' = [worker EXCEPT ![w] = n], UNCHANGED <<table, history>>,
         Grasp(n), \A f \in Files : InHand(worker[w], f) => InHand(n, f)
  PROVE  RefsInv'
<1>1. Grasp(n)'
  BY DEF Grasp, HasRow, HasRefs
<1>2. \A f \in Files : Agrees(f)' <=> Agrees(f)
  BY DEF Agrees, HasRow
<1> QED BY <1>1, <1>2, OthersRest, RefsRun

-----------------------------------------------------------------------------
(* What a change of stage leaves of what a task holds. *)
Luggage(n, me) ==
  /\ n.since = me.since /\ n.modified = me.modified /\ n.deleted = me.deleted
  /\ n.progress = me.progress /\ n.loaded = me.loaded /\ n.old = me.old
  /\ n.taken = me.taken

(* The stages calls lead to and return to. *)
LEMMA StageFields ==
  ASSUME NEW me \in Memory
  PROVE  /\ \A n : n = AfterUpsert(me) =>
              /\ n.pc = IF me.deleted # {} THEN "delete" ELSE "done"
              /\ n.calling = me.calling /\ n.creating = me.creating
              /\ n.linking = me.linking /\ Luggage(n, me)
         /\ \A n : n = AfterCreate(me) =>
              /\ n.pc = IF me.calling = "create" /\ me.modified # {} THEN "upsert"
                        ELSE IF me.deleted # {} THEN "delete" ELSE "done"
              /\ n.calling = me.calling /\ n.creating = me.creating
              /\ n.linking = me.linking /\ Luggage(n, me)
         /\ \A n, files, calling : n = Creating(me, files, calling) =>
              /\ n.pc = "create" /\ n.calling = calling /\ n.creating = files
              /\ n.linking = me.linking /\ Luggage(n, me)
         /\ \A n, pc : n = [me EXCEPT !.pc = pc] =>
              /\ n.pc = pc /\ n.calling = me.calling /\ n.creating = me.creating
              /\ n.linking = me.linking /\ Luggage(n, me)
<1>1. ASSUME NEW n, NEW pc, n = [me EXCEPT !.pc = pc]
      PROVE  /\ n.pc = pc /\ n.calling = me.calling /\ n.creating = me.creating
             /\ n.linking = me.linking /\ Luggage(n, me)
  BY <1>1 DEF Memory, Luggage
<1>2. ASSUME NEW n, n = AfterUpsert(me)
      PROVE  /\ n.pc = IF me.deleted # {} THEN "delete" ELSE "done"
             /\ n.calling = me.calling /\ n.creating = me.creating
             /\ n.linking = me.linking /\ Luggage(n, me)
  BY <1>1, <1>2 DEF AfterUpsert
<1>3. ASSUME NEW n, n = AfterCreate(me)
      PROVE  /\ n.pc = IF me.calling = "create" /\ me.modified # {} THEN "upsert"
                       ELSE IF me.deleted # {} THEN "delete" ELSE "done"
             /\ n.calling = me.calling /\ n.creating = me.creating
             /\ n.linking = me.linking /\ Luggage(n, me)
  <2>1. CASE me.calling = "create" /\ me.modified # {}
    BY <1>1, <1>3, <2>1 DEF AfterCreate
  <2>2. CASE ~(me.calling = "create" /\ me.modified # {})
    BY <1>2, <1>3, <2>2 DEF AfterCreate
  <2> QED BY <2>1, <2>2
<1>4. ASSUME NEW n, NEW files, NEW calling, n = Creating(me, files, calling)
      PROVE  /\ n.pc = "create" /\ n.calling = calling /\ n.creating = files
             /\ n.linking = me.linking /\ Luggage(n, me)
  BY <1>4 DEF Creating, Memory, Luggage
<1> QED BY <1>1, <1>2, <1>3, <1>4

(* Where an exception leads. *)
LEMMA RaisedFields ==
  ASSUME NEW me \in Memory, NEW n, n = Raised(me)
  PROVE  /\ n.pc = IF me.calling = "full" /\ me.pc \notin {"done", "forget", "wipe"}
                   THEN "forget" ELSE "restore"
         /\ n.linking \subseteq me.linking /\ n.calling = me.calling
         /\ n.since = me.since
BY DEF Raised, Memory

(* A task that adds no references and is in no create of an upsert. *)
LEMMA HandsFree ==
  ASSUME NEW n, n.linking = {}, n.pc # "look",
         n.pc \in CreateSteps => n.calling # "upsert"
  PROVE  Grasp(n)
BY DEF Grasp

(* References, through the steps before the work and those of the plan. *)
LEMMA PlanningRefs ==
  ASSUME TypeInv, RefsInv, NEW w \in Workers,
         \/ Begin(w) /\ \A v \in Workers : ~Running(v)
         \/ Pull(w) \/ Stamp(w) \/ PlanFull(w) \/ PlanChanges(w)
  PROVE  RefsInv'
<1> DEFINE me == worker[w]
<1>1. me \in Memory
  BY Facts
<1>2. UNCHANGED <<table, history>>
  BY DEF Begin, Pull, Stamp, PlanFull, PlanChanges
<1>3. ASSUME NEW n, worker' = [worker EXCEPT ![w] = n], n.linking = {}, n.pc # "look",
             n.pc \in CreateSteps => n.calling # "upsert",
             me.pc \in {"pull", "stamp", "plan"} \/ \A v \in Workers : ~Running(v)
      PROVE  RefsInv'
  <2>1. Running(w) \/ \A v \in Workers : ~Running(v)
    BY <1>3 DEF Running
  <2>2. me.linking = {} /\ me.pc # "look"
    BY <1>3, <2>1, OthersRest DEF Grasp, CreateSteps, Running
  <2>3. Grasp(n)
    BY <1>3, HandsFree
  <2>4. \A f \in Files : ~InHand(me, f)
    BY <2>2 DEF InHand
  <2> QED BY <1>2, <1>3, <2>1, <2>3, <2>4, RefsThink
<1>4. CASE Begin(w) /\ \A v \in Workers : ~Running(v)
  <2>1. PICK n : n = [Idle EXCEPT !.pc = "pull", !.since = lastParsed]
    OBVIOUS
  <2>2. worker' = [worker EXCEPT ![w] = n]
    BY <1>4, <2>1 DEF Begin
  <2>3. n.linking = {} /\ n.pc = "pull"
    BY <2>1 DEF Idle
  <2> QED BY <1>3, <1>4, <2>2, <2>3 DEF CreateSteps
<1>5. ASSUME me.pc \in {"pull", "stamp", "plan"}
      PROVE  me.linking = {}
  BY <1>5, OthersRest DEF Grasp, CreateSteps, Running
<1>6. CASE Pull(w) \/ Stamp(w)
  <2>1. PICK pc \in {"stamp", "plan"} : worker' = [worker EXCEPT ![w] = [me EXCEPT !.pc = pc]]
    BY <1>6 DEF Pull, Stamp
  <2>2. PICK n : n = [me EXCEPT !.pc = pc]
    OBVIOUS
  <2>3. me.pc \in {"pull", "stamp", "plan"}
    BY <1>6 DEF Pull, Stamp
  <2>4. n.linking = {} /\ n.pc \in {"stamp", "plan"}
    BY <1>1, <1>5, <2>2, <2>3, StageFields
  <2> QED BY <1>3, <2>1, <2>2, <2>3, <2>4 DEF CreateSteps
<1>7. CASE PlanFull(w)
  <2>1. PICK m : m = Creating(me, Tree(clone), "full")
    OBVIOUS
  <2>2. PICK n : n = [m EXCEPT !.taken = 1 .. clone]
    OBVIOUS
  <2>3. worker' = [worker EXCEPT ![w] = n] /\ me.pc = "plan"
    BY <1>7, <2>1, <2>2 DEF PlanFull
  <2>4. m \in Memory
    BY <2>1, Facts, StagesCoherent, TreeVersions DEF Coherent
  <2>5. m.linking = {} /\ m.pc = "create" /\ m.calling = "full"
    BY <1>1, <1>5, <2>1, <2>3, StageFields
  <2>6. n.linking = {} /\ n.pc = "create" /\ n.calling = "full"
    BY <2>2, <2>4, <2>5 DEF Memory
  <2> QED BY <1>3, <2>3, <2>6
<1>8. CASE PlanChanges(w)
  <2>1. PICK base \in Bases(me.since) :
          LET new == Tree(clone) \ Tree(base)
              m == [me EXCEPT
                     !.modified = {f \in Tree(base) \cap Tree(clone) :
                                     Version(base, f) # Version(clone, f)},
                     !.deleted = Tree(base) \ Tree(clone),
                     !.taken = base + 1 .. clone]
          IN worker' = [worker EXCEPT ![w] =
               IF new # {} THEN Creating(m, new, "create") ELSE AfterCreate(m)]
    BY <1>8 DEF PlanChanges
  <2> DEFINE new == Tree(clone) \ Tree(base)
             modified == {f \in Tree(base) \cap Tree(clone) :
                            Version(base, f) # Version(clone, f)}
             deleted == Tree(base) \ Tree(clone)
  <2>2. PICK m : m = [me EXCEPT !.modified = modified, !.deleted = deleted,
                                !.taken = base + 1 .. clone]
    OBVIOUS
  <2>3. worker' = [worker EXCEPT ![w] =
                    IF new # {} THEN Creating(m, new, "create") ELSE AfterCreate(m)]
    BY <2>1, <2>2, Zenon
  <2>4. me.pc = "plan" /\ me.linking = {}
    BY <1>5, <1>8 DEF PlanChanges
  <2>5. PICK n : n = IF new # {} THEN Creating(m, new, "create") ELSE AfterCreate(m)
    OBVIOUS
  <2> HIDE DEF modified, deleted, new
  <2>6. m.linking = {}
    BY <1>1, <2>2, <2>4 DEF Memory
  <2>7. ASSUME new # {} PROVE n.linking = {} /\ n.pc = "create" /\ n.calling = "create"
    <3>1. n = Creating(m, new, "create")
      BY <2>5, <2>7
    <3>2. DOMAIN m = DOMAIN me
      BY <2>2
    <3> QED BY <1>1, <2>2, <2>6, <3>1 DEF Creating, Memory
  <2>8. ASSUME new = {}
        PROVE  n.linking = {} /\ n.pc \in {"upsert", "delete", "done"}
    <3>1. n = AfterCreate(m)
      BY <2>5, <2>8
    <3> QED BY <1>1, <2>2, <2>6, <3>1 DEF AfterCreate, AfterUpsert, Memory
  <2> QED BY <1>3, <2>3, <2>4, <2>5, <2>7, <2>8 DEF CreateSteps
<1> QED BY <1>4, <1>6, <1>7, <1>8

(* References, through a create. *)
LEMMA CreatingRefs ==
  ASSUME TypeInv, RefsInv, NEW w \in Workers,
         Create(w) \/ Add(w) \/ AddRefused(w) \/ ClearAll(w) \/ ClearSome(w)
  PROVE  RefsInv'
<1> DEFINE me == worker[w]
<1>1. me \in Memory /\ Coherent(me) /\ me.pc \in CreateSteps /\ Running(w)
  BY Facts DEF Create, Add, AddRefused, ClearAll, ClearSome, CreateSteps, Running
<1>2. Grasp(me) /\ \A f \in Files : Agrees(f) \/ f \in me.linking
  BY <1>1, OthersRest DEF InHand, CreateSteps
<1>3. me.calling # "upsert" => me.linking = {} /\ \A f \in Files : Agrees(f)
  BY <1>1, <1>2 DEF Grasp, CreateSteps
<1>4. CASE Create(w)
  <2>1. PICK files : files = OnDisk(me.creating)
    OBVIOUS
  <2>2. PICK loaded : loaded = Loaded(me, files)
    OBVIOUS
  <2>3. PICK n : n = [[me EXCEPT !.creating = files, !.loaded = loaded] EXCEPT !.pc = "add"]
    OBVIOUS
  <2>4. worker' = [worker EXCEPT ![w] = n] /\ UNCHANGED <<table, history>>
    BY <1>4, <2>1, <2>2, <2>3 DEF Create
  <2>5. files \subseteq me.creating /\ files \subseteq Files
    BY <2>1, TreeVersions DEF OnDisk
  <2>6. n.pc = "add" /\ n.calling = me.calling /\ n.creating = files
        /\ n.linking = me.linking /\ n.loaded = loaded
    BY <1>1, <2>3 DEF Memory
  <2>7. ASSUME NEW f \in me.linking PROVE f \notin files /\ loaded[f] = me.loaded[f]
    <3>1. f \in Files /\ HasRow(f) /\ me.calling = "upsert"
      BY <1>1, <1>2, <1>3 DEF Grasp, Memory
    <3>2. f \notin files
      BY <1>1, <1>2, <2>5, <3>1 DEF Grasp
    <3> QED BY <2>2, <3>1, <3>2 DEF Loaded
  <2>8. Grasp(n)
    BY <1>1, <1>2, <2>5, <2>6, <2>7 DEF Grasp, CreateSteps
  <2>9. \A f \in Files : InHand(me, f) => InHand(n, f)
    BY <1>1, <2>6 DEF InHand, CreateSteps
  <2> QED BY <1>1, <2>4, <2>8, <2>9, RefsThink
<1>5. CASE Add(w)
  <2>1. me.pc \in {"add", "again"} /\ table' = Created(me) /\ UNCHANGED history
        /\ \A f \in me.creating : ~HasRow(f)
    BY <1>5 DEF Add
  <2>2. PICK n : n = EndCreate(me)
    OBVIOUS
  <2>3. worker' = [worker EXCEPT ![w] = n]
    BY <1>5, <2>2 DEF Add
  <2>4. n.linking = me.linking /\ n.loaded = me.loaded
        /\ (me.calling = "upsert" => n.pc = "gather")
        /\ (me.calling # "upsert" => n.pc \in {"upsert", "delete", "done"})
    BY <1>1, <2>2, StageFields DEF EndCreate, Luggage
  <2>5. ASSUME NEW f \in Files, f \notin me.creating PROVE table'[f] = table[f]
    BY <2>1, <2>5 DEF Created
  <2>6. \A f \in me.linking : f \in Files /\ HasRow(f)
    BY <1>1, <1>2 DEF Grasp, Memory
  <2>7. Grasp(n)'
    <3>1. \A f \in me.linking : f \notin me.creating /\ table'[f] = table[f]
      BY <2>1, <2>5, <2>6
    <3>2. \A f \in n.linking :
            /\ HasRow(f)'
            /\ table'[f] = [content |-> n.loaded[f], refs |-> 0]
            /\ HasRefs(n.loaded[f])'
      BY <1>2, <2>1, <2>4, <3>1 DEF Grasp, HasRow, HasRefs
    <3>3. n.pc # "look" /\ n.pc \notin CreateSteps
          /\ (n.linking # {} => n.pc = "gather")
      BY <1>3, <2>4 DEF CreateSteps
    <3> QED BY <3>2, <3>3 DEF Grasp
  <2>8. ASSUME NEW f \in Files PROVE Agrees(f)' \/ InHand(n, f)
    <3>1. CASE f \in me.creating
      <4>1. me.loaded[f] # 0
        BY <1>1, <2>1, <3>1 DEF Coherent
      <4>2. table'[f] = [content |-> me.loaded[f], refs |-> RefsOnCreate(me.loaded[f])]
        BY <2>1, <3>1 DEF Created
      <4>3. Agrees(f)'
        BY <2>1, <4>1, <4>2 DEF Agrees, HasRow, RefsOnCreate
      <4> QED BY <4>3
    <3>2. CASE f \notin me.creating /\ Agrees(f)
      <4>1. table'[f] = table[f]
        BY <2>5, <3>2
      <4>2. Agrees(f)'
        BY <2>1, <3>2, <4>1 DEF Agrees, HasRow
      <4> QED BY <4>2
    <3>3. CASE f \in me.linking
      BY <2>4, <3>3 DEF InHand
    <3> QED BY <1>2, <3>1, <3>2, <3>3
  <2> QED BY <1>1, <2>3, <2>7, <2>8, RefsRun
<1>6. CASE AddRefused(w)
  <2>1. me.calling # "upsert"
    BY <1>1, <1>2, <1>6 DEF AddRefused, Grasp
  <2>2. PICK n : n = IF me.pc = "add" THEN [me EXCEPT !.pc = "clear"] ELSE Raised(me)
    OBVIOUS
  <2>3. worker' = [worker EXCEPT ![w] = n] /\ UNCHANGED <<table, history>>
    BY <1>6, <2>2 DEF AddRefused
  <2>4. n.linking = {} /\ n.pc \in {"clear", "forget", "restore"} /\ n.calling = me.calling
    <3>1. CASE me.pc = "add"
      BY <1>1, <1>3, <2>1, <2>2, <3>1, StageFields
    <3>2. CASE me.pc # "add"
      BY <1>1, <1>3, <2>1, <2>2, <3>2, RaisedFields
    <3> QED BY <3>1, <3>2
  <2>5. Grasp(n)
    BY <2>1, <2>4, HandsFree
  <2>6. \A f \in Files : ~InHand(me, f)
    BY <1>1, <1>3, <2>1 DEF InHand, CreateSteps
  <2> QED BY <1>1, <2>3, <2>5, <2>6, RefsThink
<1>7. ASSUME NEW files, table' = Without(files), UNCHANGED history,
             me.calling # "upsert", NEW n, worker' = [worker EXCEPT ![w] = n],
             n.linking = {}, n.pc # "look", n.calling = me.calling
      PROVE  RefsInv'
  <2>1. ASSUME NEW f \in Files PROVE Agrees(f)'
    <3>1. Agrees(f)
      BY <1>3, <1>7
    <3>2. table'[f] = NoRow \/ table'[f] = table[f]
      BY <1>7 DEF Without
    <3> QED BY <1>7, <3>1, <3>2 DEF Agrees, HasRow, NoRow
  <2>2. Grasp(n)'
    BY <1>7 DEF Grasp
  <2> QED BY <1>1, <1>7, <2>1, <2>2, RefsRun
<1>8. CASE ClearAll(w)
  <2>1. PICK n : n = [me EXCEPT !.pc = "again"]
    OBVIOUS
  <2>2. worker' = [worker EXCEPT ![w] = n] /\ me.calling = "full"
        /\ table' = Without(Files) /\ UNCHANGED history
    BY <1>8, <2>1 DEF ClearAll
  <2>3. n.pc = "again" /\ n.linking = {} /\ n.calling = me.calling
    BY <1>1, <1>3, <2>1, <2>2, StageFields
  <2> QED BY <1>7, <2>2, <2>3
<1>9. CASE ClearSome(w)
  <2>1. PICK found : found = Joined(me.creating)
    OBVIOUS
  <2>2. PICK n : n = IF found = {} THEN Raised(me) ELSE [me EXCEPT !.pc = "again"]
    OBVIOUS
  <2>3. worker' = [worker EXCEPT ![w] = n] /\ me.pc = "clear"
        /\ table' = Without(found) /\ UNCHANGED history
    BY <1>9, <2>1, <2>2 DEF ClearSome
  <2>4. me.calling # "upsert"
    BY <1>1, <1>2, <2>3 DEF Grasp
  <2>5. n.linking = {} /\ n.pc # "look" /\ n.calling = me.calling
    <3>1. CASE found = {}
      BY <1>1, <1>3, <2>2, <2>4, <3>1, RaisedFields
    <3>2. CASE found # {}
      BY <1>1, <1>3, <2>2, <2>4, <3>2, StageFields
    <3> QED BY <3>1, <3>2
  <2> QED BY <1>7, <2>3, <2>4, <2>5
<1> QED BY <1>4, <1>5, <1>6, <1>8, <1>9


(* References, through an update of one file: taking the old ones away     *)
(* puts the file in hand.                                                  *)
LEMMA UpdatingRefs ==
  ASSUME TypeInv, RefsInv, NEW w \in Workers, NEW f \in Files,
         Look(w, f) \/ WriteContent(w, f) \/ Unref(w, f)
  PROVE  RefsInv'
<1> DEFINE me == worker[w]
<1>1. me \in Memory /\ Coherent(me) /\ me.pc = "look" /\ me.progress[f] # "none"
      /\ Running(w) /\ UNCHANGED history
  BY Facts DEF Look, WriteContent, Unref, Running
<1>2. Grasp(me) /\ \A g \in Files : Agrees(g) \/ InHand(me, g)
  BY <1>1, OthersRest
<1>3. f \notin me.creating /\ f \notin me.linking
  BY <1>1, <1>2 DEF Grasp
<1>4. me.progress \in [Files -> Progress] /\ me.linking \subseteq Files
      /\ me.creating \subseteq Files /\ me.old \in [Files -> Count]
  BY <1>1 DEF Memory
<1>5. CASE Look(w, f)
  <2>1. me.progress[f] = "look" /\ UNCHANGED <<table, history>>
    BY <1>5 DEF Look
  <2>2. PICK n : n = IF HasRow(f)
                     THEN [me EXCEPT !.progress[f] = "write", !.old[f] = table[f].refs]
                     ELSE [me EXCEPT !.progress[f] = "none", !.creating = me.creating \cup {f}]
    OBVIOUS
  <2>3. worker' = [worker EXCEPT ![w] = n]
    <3>1. CASE HasRow(f)
      BY <1>5, <2>2, <3>1 DEF Look
    <3>2. CASE ~HasRow(f)
      <4>1. worker' = [worker EXCEPT ![w] = [me EXCEPT !.progress[f] = "none",
                                               !.creating = me.creating \cup {f}]]
        BY <1>5, <3>2 DEF Look
      <4> QED BY <2>2, <3>2, <4>1
    <3> QED BY <3>1, <3>2
  <2>4. n.pc = "look" /\ n.linking = me.linking /\ n.loaded = me.loaded
    BY <1>1, <2>2 DEF Memory
  <2>5. \A g \in Files \ {f} :
          n.progress[g] = me.progress[g] /\ n.old[g] = me.old[g]
          /\ (g \in n.creating <=> g \in me.creating)
    BY <1>1, <1>4, <2>2 DEF Memory
  <2>6. \/ HasRow(f) /\ n.progress[f] = "write" /\ n.old[f] = table[f].refs
           /\ f \notin n.creating
        \/ ~HasRow(f) /\ n.progress[f] = "none"
    BY <1>1, <1>3, <1>4, <2>2 DEF Memory
  <2>7. Grasp(n)
    <3>1. ASSUME NEW g \in Files
          PROVE  /\ n.progress[g] \in {"write", "unref"} =>
                      HasRow(g) /\ table[g].refs = n.old[g]
                 /\ n.progress[g] = "unref" => table[g].content = n.loaded[g]
                 /\ g \in n.creating => ~HasRow(g) /\ n.progress[g] = "none"
                 /\ g \in n.linking => n.progress[g] = "none"
      <4>1. CASE g = f
        BY <1>3, <2>4, <2>6, <4>1
      <4>2. CASE g # f
        <5>1. n.progress[g] = me.progress[g] /\ n.old[g] = me.old[g]
              /\ (g \in n.creating <=> g \in me.creating)
          BY <2>5, <4>2
        <5> QED BY <1>1, <1>2, <2>4, <5>1 DEF Grasp
      <4> QED BY <4>1, <4>2
    <3>2. \A g \in n.linking : /\ HasRow(g)
                               /\ table[g] = [content |-> n.loaded[g], refs |-> 0]
                               /\ HasRefs(n.loaded[g])
      BY <1>2, <2>4 DEF Grasp
    <3> QED BY <2>4, <3>1, <3>2 DEF Grasp, CreateSteps
  <2>8. \A g \in Files : InHand(me, g) => InHand(n, g)
    BY <1>1, <2>1, <2>4, <2>5 DEF InHand
  <2> QED BY <1>1, <2>1, <2>3, <2>7, <2>8, RefsThink
<1>6. \A g \in Files : g # f /\ table'[g] = table[g] =>
        /\ Agrees(g)' <=> Agrees(g)
        /\ HasRow(g)' <=> HasRow(g)
  BY <1>1 DEF Agrees, HasRow
<1>7. ASSUME \A g \in Files \ {f} : table'[g] = table[g], NEW n, n.pc = "look",
             n.loaded = me.loaded, n.old = me.old, n.creating = me.creating,
             \A g \in Files \ {f} : n.progress[g] = me.progress[g]
                                    /\ (g \in n.linking <=> g \in me.linking),
             n.linking \subseteq Files,
             \/ /\ n.progress[f] = "unref" /\ f \notin n.linking /\ HasRow(f)'
                /\ table'[f].refs = me.old[f] /\ table'[f].content = me.loaded[f]
             \/ /\ n.progress[f] = "none" /\ f \in n.linking /\ HasRow(f)'
                /\ table'[f] = [content |-> me.loaded[f], refs |-> 0]
                /\ HasRefs(me.loaded[f])
             \/ n.progress[f] = "none" /\ f \notin n.linking /\ Agrees(f)',
             worker' = [worker EXCEPT ![w] = n]
      PROVE  RefsInv'
  <2>1. ASSUME NEW g \in Files
        PROVE  /\ n.progress[g] \in {"write", "unref"} =>
                    HasRow(g)' /\ table'[g].refs = n.old[g]
               /\ n.progress[g] = "unref" => table'[g].content = n.loaded[g]
               /\ g \in n.creating => ~HasRow(g)' /\ n.progress[g] = "none"
               /\ g \in n.linking => n.progress[g] = "none"
    <3>1. CASE g = f
      BY <1>3, <1>7, <3>1
    <3>2. CASE g # f
      <4>1. n.progress[g] = me.progress[g] /\ (g \in n.linking <=> g \in me.linking)
            /\ table'[g] = table[g] /\ (HasRow(g)' <=> HasRow(g))
        BY <1>6, <1>7, <3>2
      <4> QED BY <1>1, <1>2, <1>7, <4>1 DEF Grasp
    <3> QED BY <3>1, <3>2
  <2>2. ASSUME NEW g \in n.linking
        PROVE  /\ HasRow(g)'
               /\ table'[g] = [content |-> n.loaded[g], refs |-> 0]
               /\ HasRefs(n.loaded[g])'
    <3>1. HasRefs(n.loaded[g])' <=> HasRefs(n.loaded[g])
      BY <1>1 DEF HasRefs
    <3>2. CASE g = f
      BY <1>7, <3>1, <3>2
    <3>3. CASE g # f
      <4>1. g \in Files /\ g \in me.linking /\ table'[g] = table[g]
            /\ (HasRow(g)' <=> HasRow(g))
        BY <1>6, <1>7, <3>3
      <4> QED BY <1>2, <1>7, <3>1, <4>1 DEF Grasp
    <3> QED BY <3>2, <3>3
  <2>3. Grasp(n)'
    BY <1>7, <2>1, <2>2 DEF Grasp, CreateSteps
  <2>4. ASSUME NEW g \in Files PROVE Agrees(g)' \/ InHand(n, g)
    <3>1. CASE g = f
      BY <1>7, <3>1 DEF InHand
    <3>2. CASE g # f
      <4>1. n.progress[g] = me.progress[g] /\ (g \in n.linking <=> g \in me.linking)
            /\ table'[g] = table[g] /\ (Agrees(g)' <=> Agrees(g))
        BY <1>6, <1>7, <3>2
      <4>2. Agrees(g) \/ InHand(me, g)
        BY <1>2
      <4> QED BY <1>7, <4>1, <4>2 DEF InHand
    <3> QED BY <3>1, <3>2
  <2> QED BY <1>1, <1>7, <2>3, <2>4, RefsRun
<1>8. CASE WriteContent(w, f)
  <2>1. me.progress[f] = "write" /\ HasRow(f) /\ table[f].refs = me.old[f]
    BY <1>1, <1>2, <1>8 DEF WriteContent, Grasp
  <2>2. PICK row : row = [table[f] EXCEPT !.content = me.loaded[f]]
    OBVIOUS
  <2>3. table[f] \in Row /\ table \in [Files -> Row] /\ me.loaded[f] # 0
    BY <1>1, Facts DEF Coherent
  <2>4. row.content = me.loaded[f] /\ row.refs = table[f].refs
    BY <2>2, <2>3 DEF Row
  <2>5. table' = [table EXCEPT ![f] = row]
    BY <1>8, <2>1, <2>2, <2>3 DEF WriteContent
  <2>6. table'[f] = row /\ \A g \in Files \ {f} : table'[g] = table[g]
    BY <2>3, <2>5
  <2>7. HasRow(f)' /\ table'[f].refs = me.old[f] /\ table'[f].content = me.loaded[f]
    BY <2>1, <2>3, <2>4, <2>6 DEF HasRow
  <2>8. PICK progress : progress = [me.progress EXCEPT ![f] = "unref"]
    OBVIOUS
  <2>9. PICK n : n = [me EXCEPT !.progress = progress]
    OBVIOUS
  <2>10. worker' = [worker EXCEPT ![w] = n]
    BY <1>1, <1>8, <2>8, <2>9, Facts DEF WriteContent, TypeInv, TypeOK, Memory
  <2>11. n.pc = "look" /\ n.loaded = me.loaded /\ n.old = me.old
         /\ n.creating = me.creating /\ n.linking = me.linking /\ n.progress = progress
    BY <1>1, <2>9 DEF Memory
  <2>12. progress[f] = "unref" /\ \A g \in Files \ {f} : progress[g] = me.progress[g]
    BY <1>4, <2>8
  <2> QED BY <1>3, <1>4, <1>7, <2>6, <2>7, <2>10, <2>11, <2>12
<1>9. CASE Unref(w, f)
  <2>1. me.progress[f] = "unref" /\ HasRow(f) /\ table[f].refs = me.old[f]
        /\ table[f].content = me.loaded[f]
    BY <1>1, <1>2, <1>9 DEF Unref, Grasp
  <2>2. table[f] \in Row /\ table \in [Files -> Row]
    BY Facts
  <2>3. PICK row : row = [table[f] EXCEPT !.refs = 0]
    OBVIOUS
  <2>4. row = [content |-> me.loaded[f], refs |-> 0] /\ row.refs = 0
        /\ row.content = me.loaded[f]
    BY <2>1, <2>2, <2>3 DEF Row
  <2>5. table' = [table EXCEPT ![f] = row]
    BY <1>9, <2>1, <2>2, <2>3 DEF Unref
  <2>6. table'[f] = row /\ \A g \in Files \ {f} : table'[g] = table[g]
    BY <2>2, <2>5
  <2>7. HasRow(f)'
    BY <2>1, <2>4, <2>6 DEF HasRow
  <2>8. PICK links : links = me.linking
                            \cup (IF HasRefs(me.loaded[f]) THEN {f} ELSE {})
    OBVIOUS
  <2>9. PICK progress : progress = [me.progress EXCEPT ![f] = "none"]
    OBVIOUS
  <2>10. PICK n : n = [me EXCEPT !.progress = progress, !.linking = links]
    OBVIOUS
  <2>11. worker' = [worker EXCEPT ![w] = n]
    <3>1. n = [me EXCEPT !.progress[f] = "none", !.linking = links]
      BY <1>1, <2>9, <2>10 DEF Memory
    <3> QED BY <1>9, <2>8, <3>1 DEF Unref
  <2>12. n.pc = "look" /\ n.loaded = me.loaded /\ n.old = me.old
         /\ n.creating = me.creating /\ n.linking = links /\ n.progress = progress
    BY <1>1, <2>10 DEF Memory
  <2>13. progress[f] = "none" /\ \A g \in Files \ {f} : progress[g] = me.progress[g]
    BY <1>4, <2>9
  <2>14. links \subseteq Files /\ \A g \in Files \ {f} : g \in links <=> g \in me.linking
    BY <1>4, <2>8
  <2>15. \/ f \in links /\ HasRefs(me.loaded[f])
         \/ f \notin links /\ Agrees(f)'
    <3>1. CASE HasRefs(me.loaded[f])
      BY <2>8, <3>1
    <3>2. CASE ~HasRefs(me.loaded[f])
      <4>1. f \notin links
        BY <1>3, <2>8, <3>2
      <4>2. Agrees(f)'
        BY <1>1, <2>4, <2>6, <3>2 DEF Agrees, HasRefs
      <4> QED BY <4>1, <4>2
    <3> QED BY <3>1, <3>2
  <2> QED BY <1>7, <2>4, <2>6, <2>7, <2>11, <2>12, <2>13, <2>14, <2>15
<1> QED BY <1>5, <1>8, <1>9


(* References, through the other steps of an upsert: what is in hand is    *)
(* added by the one transaction that ends it.                              *)
LEMMA UpsertingRefs ==
  ASSUME TypeInv, RefsInv, NEW w \in Workers,
         Upsert(w) \/ Gather(w) \/ Link(w) \/ EndUpsert(w)
  PROVE  RefsInv'
<1> DEFINE me == worker[w]
<1>1. me \in Memory /\ Coherent(me) /\ UNCHANGED history
  BY Facts DEF Upsert, Gather, Link, EndUpsert
<1>2. CASE Upsert(w)
  <2>1. me.pc = "upsert" /\ Running(w) /\ UNCHANGED table
    BY <1>2 DEF Upsert, Running
  <2>2. me.linking = {} /\ \A f \in Files : ~InHand(me, f)
    BY <2>1, OthersRest DEF Grasp, CreateSteps, InHand
  <2>3. PICK loaded, progress :
          /\ progress = [f \in Files |-> IF f \in OnDisk(me.modified) THEN "look" ELSE "none"]
          /\ loaded = Loaded(me, OnDisk(me.modified))
    OBVIOUS
  <2>4. PICK n : n = [me EXCEPT !.pc = "look", !.creating = {}, !.loaded = loaded,
                                !.progress = progress]
    OBVIOUS
  <2>5. worker' = [worker EXCEPT ![w] = n]
    BY <1>2, <2>3, <2>4 DEF Upsert
  <2>6. n.pc = "look" /\ n.linking = {} /\ n.creating = {} /\ n.progress = progress
    BY <1>1, <2>2, <2>4 DEF Memory
  <2>7. \A f \in Files : n.progress[f] \in {"look", "none"}
    BY <2>3, <2>6
  <2>8. Grasp(n)
    BY <2>6, <2>7 DEF Grasp, CreateSteps
  <2> QED BY <1>1, <2>1, <2>2, <2>5, <2>8, RefsThink
<1>3. CASE Gather(w)
  <2>1. me.pc = "look" /\ Running(w) /\ UNCHANGED table
        /\ \A f \in Files : me.progress[f] = "none"
    BY <1>3 DEF Gather, Running
  <2>2. Grasp(me)
    BY <2>1, OthersRest
  <2>3. PICK n : n = IF me.creating # {} THEN Creating(me, me.creating, "upsert")
                     ELSE [me EXCEPT !.pc = "gather"]
    OBVIOUS
  <2>4. worker' = [worker EXCEPT ![w] = n]
    BY <1>3, <2>3 DEF Gather
  <2>5. n.linking = me.linking /\ n.loaded = me.loaded /\ n.creating = me.creating
        /\ (n.pc = "gather" \/ (n.pc = "create" /\ n.calling = "upsert"))
    <3>1. CASE me.creating # {}
      <4>1. n = Creating(me, me.creating, "upsert")
        BY <2>3, <3>1
      <4> QED BY <1>1, <4>1 DEF Creating, Memory
    <3>2. CASE me.creating = {}
      <4>1. n = [me EXCEPT !.pc = "gather"]
        BY <2>3, <3>2
      <4> QED BY <1>1, <4>1, StageFields DEF Luggage
    <3> QED BY <3>1, <3>2
  <2>6. \A f \in me.creating : ~HasRow(f)
    BY <1>1, <2>1, <2>2 DEF Grasp, Memory
  <2>7. Grasp(n)
    BY <2>2, <2>5, <2>6 DEF Grasp, CreateSteps
  <2>8. \A f \in Files : InHand(me, f) => InHand(n, f)
    BY <2>1, <2>5 DEF InHand
  <2> QED BY <1>1, <2>1, <2>4, <2>7, <2>8, RefsThink
<1>4. CASE Link(w)
  <2>1. me.linking # {} /\ me.pc \in CreateSteps \cup {"gather", "restore"} /\ Running(w)
    BY <1>4 DEF Link, Running, CreateSteps
  <2>2. Grasp(me) /\ \A f \in Files : Agrees(f) \/ f \in me.linking
    <3>1. Grasp(me) /\ \A f \in Files : Agrees(f) \/ InHand(me, f)
      BY <2>1, OthersRest
    <3>2. me.pc # "look"
      BY <2>1 DEF CreateSteps
    <3> QED BY <3>1, <3>2 DEF InHand
  <2>3. \A f \in me.linking : f \in Files /\ HasRow(f) /\ table[f].refs = 0
    <3>1. \A f \in me.linking :
            HasRow(f) /\ table[f] = [content |-> me.loaded[f], refs |-> 0]
      BY <2>2 DEF Grasp
    <3>2. me.linking \subseteq Files
      BY <1>1 DEF Memory
    <3>3. ASSUME NEW f \in me.linking
          PROVE  f \in Files /\ HasRow(f) /\ table[f].refs = 0
      <4>1. HasRow(f) /\ table[f] = [content |-> me.loaded[f], refs |-> 0]
        BY <3>1
      <4>2. table[f].refs = 0
        BY <4>1
      <4> QED BY <3>2, <4>1, <4>2
    <3> QED BY <3>3
  <2>4. table' = [f \in Files |-> IF f \in me.linking
                                  THEN [table[f] EXCEPT !.refs = me.loaded[f]]
                                  ELSE table[f]]
    BY <1>4, <2>3 DEF Link
  <2>5. PICK n : n = [me EXCEPT !.linking = {}]
    OBVIOUS
  <2>6. worker' = [worker EXCEPT ![w] = n]
    BY <1>4, <2>3, <2>5 DEF Link
  <2>7. n.linking = {} /\ n.pc = me.pc /\ n.calling = me.calling /\ n.creating = me.creating
    BY <1>1, <2>5 DEF Memory
  <2>8. ASSUME NEW f \in Files PROVE Agrees(f)' /\ (HasRow(f)' <=> HasRow(f))
    <3>1. CASE f \in me.linking
      <4>1. table[f] = [content |-> me.loaded[f], refs |-> 0] /\ HasRow(f)
            /\ HasRefs(me.loaded[f])
        BY <2>2, <3>1 DEF Grasp
      <4>2. table'[f] = [content |-> me.loaded[f], refs |-> me.loaded[f]]
        BY <2>4, <3>1, <4>1
      <4>3. HasRow(f)'
        BY <4>1, <4>2 DEF HasRow
      <4> QED BY <1>1, <4>1, <4>2, <4>3 DEF Agrees, HasRow, HasRefs
    <3>2. CASE f \notin me.linking
      <4>1. table'[f] = table[f] /\ Agrees(f)
        BY <2>2, <2>4, <3>2
      <4> QED BY <1>1, <4>1 DEF Agrees, HasRow
    <3> QED BY <3>1, <3>2
  <2>9. Grasp(n)'
    <3>1. me.calling = "upsert" /\ me.pc \in CreateSteps =>
            /\ me.pc \in {"create", "add"} /\ \A f \in me.creating : f \in Files /\ ~HasRow(f)
      BY <1>1, <2>2 DEF Grasp, Memory
    <3>2. n.calling = "upsert" /\ n.pc \in CreateSteps =>
            /\ n.pc \in {"create", "add"} /\ \A f \in n.creating : ~HasRow(f)'
      BY <2>7, <2>8, <3>1
    <3>3. n.pc # "look"
      BY <2>1, <2>7 DEF CreateSteps
    <3> QED BY <2>7, <3>2, <3>3 DEF Grasp
  <2> QED BY <1>1, <2>1, <2>6, <2>8, <2>9, RefsRun
<1>5. CASE EndUpsert(w)
  <2>1. me.pc = "gather" /\ me.linking = {} /\ Running(w) /\ UNCHANGED table
    BY <1>5 DEF EndUpsert, Running
  <2>2. PICK n : n = AfterUpsert(me)
    OBVIOUS
  <2>3. worker' = [worker EXCEPT ![w] = n]
    BY <1>5, <2>2 DEF EndUpsert
  <2>4. n.linking = {} /\ n.pc \in {"delete", "done"}
    BY <1>1, <2>1, <2>2, StageFields
  <2>5. Grasp(n)
    BY <2>4, HandsFree DEF CreateSteps
  <2>6. \A f \in Files : ~InHand(me, f)
    BY <2>1 DEF InHand
  <2> QED BY <1>1, <2>1, <2>3, <2>5, <2>6, RefsThink
<1> QED BY <1>2, <1>3, <1>4, <1>5

(* References, through the end of a run. *)
LEMMA EndingRefs ==
  ASSUME TypeInv, RefsInv, NEW w \in Workers,
         Delete(w) \/ Finish(w) \/ Forget(w) \/ Wipe(w) \/ Restore(w)
  PROVE  RefsInv'
<1> DEFINE me == worker[w]
<1>1. me \in Memory /\ Running(w) /\ UNCHANGED history
      /\ me.pc \in {"delete", "done", "forget", "wipe", "restore"}
  BY Facts DEF Delete, Finish, Forget, Wipe, Restore, Running
<1>2. me.linking = {} /\ \A f \in Files : Agrees(f)
  BY <1>1, OthersRest DEF Grasp, CreateSteps, InHand
<1>3. PICK n : n = IF Delete(w) THEN [me EXCEPT !.pc = "done"]
                   ELSE IF Forget(w) THEN [me EXCEPT !.pc = "wipe"] ELSE Idle
  OBVIOUS
<1>4. worker' = [worker EXCEPT ![w] = n]
  <2>1. CASE Delete(w)
    BY <1>3, <2>1 DEF Delete
  <2>2. CASE Forget(w)
    BY <1>3, <2>2 DEF Delete, Forget
  <2>3. CASE Finish(w) \/ Wipe(w) \/ Restore(w)
    BY <1>3, <2>3 DEF Delete, Forget, Finish, Wipe, Restore
  <2> QED BY <2>1, <2>2, <2>3
<1>5. n.linking = {} /\ n.pc \in {"done", "wipe", "idle"}
  BY <1>1, <1>2, <1>3, StageFields DEF Idle
<1>6. Grasp(n)'
  BY <1>5 DEF Grasp, CreateSteps
<1>7. ASSUME NEW f \in Files PROVE Agrees(f)'
  <2>1. table'[f] = NoRow \/ table'[f] = table[f]
    BY DEF Delete, Finish, Forget, Wipe, Restore, Without
  <2> QED BY <1>1, <1>2, <2>1 DEF Agrees, HasRow, NoRow
<1> QED BY <1>1, <1>4, <1>6, <1>7, RefsRun

(* References, through a push: it changes no commit there is. *)
LEMMA PushRefs ==
  ASSUME TypeInv, RefsInv, Longer, UNCHANGED <<clone, table, worker>>
  PROVE  RefsInv'
<1>1. ASSUME NEW v \in 1 .. clone PROVE history'[v] = history[v]
  BY DEF TypeInv, TypeOK, Longer, Count
<1>2. ASSUME NEW f \in Files PROVE (HasRow(f)' <=> HasRow(f)) /\ (Agrees(f)' <=> Agrees(f))
  <2>1. HasRow(f) => table[f].content \in 1 .. clone
    BY DEF TypeInv, TypeOK, HasRow, Count
  <2> QED BY <1>1, <2>1 DEF Agrees, HasRow
<1>3. ASSUME NEW w \in Workers PROVE Grasp(worker[w])'
  <2>1. PICK me : me = worker[w]
    OBVIOUS
  <2>2. me = worker'[w] /\ me \in Memory /\ Coherent(me)
    BY <2>1, Facts
  <2>3. Grasp(me)
    BY <2>1 DEF RefsInv
  <2>4. ASSUME NEW f \in me.linking
        PROVE  f \in Files /\ (HasRefs(me.loaded[f])' <=> HasRefs(me.loaded[f]))
    <3>1. f \in Files /\ HasRow(f) /\ table[f].content = me.loaded[f]
      <4>1. f \in Files
        BY <2>2, <2>4 DEF Memory
      <4>2. HasRow(f) /\ table[f] = [content |-> me.loaded[f], refs |-> 0]
        BY <2>3, <2>4 DEF Grasp
      <4> QED BY <4>1, <4>2
    <3>2. me.loaded[f] \in 1 .. clone
      BY <3>1, Facts DEF HasRow
    <3> QED BY <1>1, <3>1, <3>2 DEF HasRefs
  <2>5. me.creating \subseteq Files
    BY <2>2 DEF Memory
  <2>6. Grasp(me)'
    BY <1>2, <2>3, <2>4, <2>5 DEF Grasp
  <2> QED BY <2>2, <2>6
<1>4. OneRuns'
  BY DEF RefsInv, OneRuns, Running
<1>5. ASSUME NEW f \in Files PROVE (Agrees(f) \/ \E w \in Workers : InHand(worker[w], f))'
  BY <1>2 DEF RefsInv, InHand
<1> QED BY <1>3, <1>4, <1>5 DEF RefsInv

(* The inductive step of the references. *)
LEMMA RefsStep ==
  ASSUME TypeInv, Calm => RefsInv, [Next]_vars
  PROVE  Calm' => RefsInv'
<1> SUFFICES ASSUME Calm' PROVE RefsInv'
  OBVIOUS
<1>1. RefsInv
  BY CalmBefore
<1>2. Longer /\ Len(history) \in Nat
  BY HistoryGrows DEF TypeInv, TypeOK, Count
<1>3. CASE UNCHANGED vars
  BY <1>1, <1>2, <1>3, PushRefs DEF vars
<1>4. ASSUME NEW f \in Files, NEW kind \in {"write", "delete"},
             NEW scope \in Scopes \cup {"none"}, Push(f, kind, scope)
      PROVE  RefsInv'
  BY <1>1, <1>2, <1>4, PushRefs DEF Push
<1>5. ASSUME NEW w \in Workers, Continue(w) PROVE RefsInv'
  BY <1>1, <1>5, PlanningRefs, CreatingRefs, UpdatingRefs, UpsertingRefs, EndingRefs
     DEF Continue
<1>6. ASSUME NEW w \in Workers, Begin(w) PROVE RefsInv'
  BY <1>1, <1>6, CalmBefore, PlanningRefs
<1> QED BY <1>3, <1>4, <1>5, <1>6, CalmBefore DEF Next

-----------------------------------------------------------------------------
(* The commits a run has not carried through explain as much as before,    *)
(* or more, when fewer are carried through.                                *)
LEMMA ExplainedByMore ==
  ASSUME NEW n, NEW done, NEW few, few \subseteq done, NEW f, Explained(n, done, f)
  PROVE  Explained(n, few, f)
BY DEF Explained

(* What explains a row explains it after more commits.                     *)
LEMMA ExplainedLater ==
  ASSUME NEW m \in Nat, NEW n \in Nat, m <= n, NEW done, done \subseteq 1 .. m, NEW f,
         Explained(m, done, f)
  PROVE  Explained(n, done, f)
<1>1. CASE \E k \in m + 1 .. n : history[k].file = f
  <2>1. PICK k \in m + 1 .. n : history[k].file = f
    BY <1>1
  <2>2. k \in 1 .. n /\ k > m
    BY <2>1
  <2>3. PICK i \in LastTouch(n, f) : k <= i
    BY <2>1, <2>2, TouchedLast
  <2>4. i \notin done
    BY <2>2, <2>3 DEF LastTouch
  <2> QED BY <2>3, <2>4 DEF Explained
<1>2. CASE \A k \in m + 1 .. n : history[k].file # f
  <2>1. LastTouch(n, f) = LastTouch(m, f) /\ Version(n, f) = Version(m, f)
    BY <1>2, Untouched
  <2>2. 1 .. m \subseteq 1 .. n
    OBVIOUS
  <2> QED BY <2>1, <2>2 DEF Explained
<1> QED BY <1>1, <1>2

(***************************************************************************)
(* The window of a run: a file whose version is the same at the base and   *)
(* at the clone needs no step, although the base is not the stamp.         *)
(***************************************************************************)
LEMMA OutsideThePlan ==
  ASSUME TypeInv, NEW since \in Nat, since <= clone, seen \subseteq 1 .. since,
         NEW base \in Bases(since), NEW f, Explained(since, seen, f),
         Version(base, f) = Version(clone, f)
  PROVE  Explained(clone, seen \cup (base + 1 .. clone), f)
<1> DEFINE done == seen \cup (base + 1 .. clone)
<1>1. clone \in Nat /\ clone <= Len(history) /\ Len(history) \in Nat
  BY DEF TypeInv, TypeOK, Count
<1>2. base \in Nat /\ base <= clone
      /\ (base = since + 1 \/ ~(base + 2 <= clone))
  BY <1>1 DEF Bases
<1>3. CASE \A k \in base + 1 .. clone : history[k].file # f
  <2>1. Explained(clone, seen, f)
    BY <1>1, ExplainedLater
  <2>2. \A i \in 1 .. clone : history[i].file = f => i \notin base + 1 .. clone
    BY <1>3
  <2>3. \A i \in LastTouch(clone, f) : i \in 1 .. clone /\ history[i].file = f
    BY DEF LastTouch
  <2> QED BY <2>1, <2>2, <2>3 DEF Explained
<1>4. CASE \E k \in base + 1 .. clone : history[k].file = f
  <2>1. PICK k \in base + 1 .. clone : history[k].file = f
    BY <1>4
  <2>2. k \in 1 .. clone /\ k > base
    BY <1>1, <1>2, <2>1
  <2>3. PICK t \in LastTouch(clone, f) : k <= t
    BY <1>1, <2>1, <2>2, TouchedLast
  <2>4. t \in 1 .. clone /\ t > base /\ history[t].file = f
    BY <1>2, <2>2, <2>3 DEF LastTouch
  <2>5. Version(base, f) \in 0 .. base
    BY <1>2, VersionIs
  <2>6. Version(clone, f) = IF history[t].kind = "write" THEN t ELSE 0
    BY <1>1, <2>3, VersionIs
  <2>7. history[t].kind # "write" /\ Version(clone, f) = 0 /\ Version(base, f) = 0
    BY <1>2, <2>4, <2>5, <2>6
  <2>8. Version(t - 1, f) # 0
    <3>1. t \in 1 .. Len(history)
      BY <1>1, <2>4
    <3>2. history[t] \in Commit
      BY <3>1 DEF TypeInv, TypeOK
    <3>3. history[t].kind = "delete"
      BY <2>7, <3>2 DEF Commit
    <3> QED BY <2>4, <3>1, <3>3 DEF TypeInv, GitInv
  <2>9. ~\A u \in base + 1 .. t - 1 : history[u].file # f
    <3>1. t - 1 \in Nat /\ base <= t - 1
      BY <1>1, <1>2, <2>4
    <3> QED BY <1>2, <2>7, <2>8, <3>1, Untouched
  <2>10. base + 2 <= clone
    <3>1. PICK u \in base + 1 .. t - 1 : history[u].file = f
      BY <2>9
    <3> QED BY <1>1, <1>2, <2>4, <3>1
  <2>11. base = since + 1
    BY <1>2, <2>10
  <2>12. ASSUME NEW i \in 1 .. base, history[i].file = f, i \notin seen
         PROVE  Explained(clone, done, f)
    <3>1. i \in 1 .. clone /\ i \notin done
      BY <1>1, <1>2, <2>12
    <3> QED BY <2>7, <2>12, <3>1 DEF Explained
  <2>13. CASE table[f].content = Version(since, f)
    <3>1. CASE Version(since, f) = 0
      BY <2>7, <2>13, <3>1 DEF Explained
    <3>2. CASE Version(since, f) # 0
      <4>1. ~\A u \in since + 1 .. base : history[u].file # f
        BY <1>2, <2>7, <2>11, <3>2, Untouched
      <4>2. base \in 1 .. base /\ history[base].file = f
        BY <2>11, <4>1
      <4>3. base \notin seen
        BY <2>11
      <4> QED BY <2>12, <4>2, <4>3
    <3> QED BY <3>1, <3>2
  <2>14. CASE \E i \in 1 .. since : history[i].file = f /\ i \notin seen
    <3>1. PICK i \in 1 .. since : history[i].file = f /\ i \notin seen
      BY <2>14
    <3>2. i \in 1 .. base
      BY <2>11
    <3> QED BY <2>12, <3>1, <3>2
  <2>15. CASE table[f].refs = 0
    BY <2>7, <2>15 DEF Explained
  <2>16. \A i \in LastTouch(since, f) : i \in 1 .. since /\ history[i].file = f
    BY DEF LastTouch
  <2> QED BY <2>13, <2>14, <2>15, <2>16 DEF Explained
<1> QED BY <1>3, <1>4

-----------------------------------------------------------------------------
(* A row that stays is explained by what explained it. *)
LEMMA ExplainedStays ==
  ASSUME TypeOK, Longer, NEW n \in 0 .. Len(history), NEW done, NEW f,
         table'[f] = table[f], Explained(n, done, f)
  PROVE  Explained(n, done, f)'
<1>1. LastTouch(n, f)' = LastTouch(n, f) /\ Version(n, f)' = Version(n, f)
  BY TreesStay
<1>2. \A i \in 1 .. n : history'[i] = history[i]
  BY DEF TypeOK, Longer
<1> QED BY <1>1, <1>2 DEF Explained

(* What a run has found it finds again if it is as it was. *)
LEMMA FoundStays ==
  ASSUME TypeInv, Longer, UNCHANGED <<table, seen>>, NEW stamp \in Stamps,
         stamp # Never => stamp <= Len(history), Found(stamp)
  PROVE  Found(stamp)'
<1>1. stamp # Never => stamp \in 0 .. Len(history)
  BY DEF TypeInv, TypeOK, Stamps, Count
<1>2. PICK done : done = seen
  OBVIOUS
<1>3. ASSUME NEW f \in Files, stamp # Never PROVE Explained(stamp, seen, f)'
  <2>1. Explained(stamp, done, f)
    BY <1>2, <1>3 DEF Found
  <2>2. Explained(stamp, done, f)'
    BY <1>1, <1>3, <2>1, ExplainedStays DEF TypeInv
  <2> QED BY <1>2, <2>2 DEF Explained
<1> QED BY <1>3 DEF Found, HasRow

(* The tree of the clone stays if the clone does. *)
LEMMA CloneStays ==
  ASSUME TypeInv, Longer, UNCHANGED clone
  PROVE  Tree(clone)' = Tree(clone) /\ \A f : Version(clone, f)' = Version(clone, f)
<1>1. PICK c : c = clone
  OBVIOUS
<1>2. c \in 0 .. Len(history) /\ TypeOK
  BY <1>1 DEF TypeInv, TypeOK
<1>3. Tree(c)' = Tree(c) /\ \A f : Version(c, f)' = Version(c, f)
  BY <1>2, TreesStay
<1>4. \A f : Version(clone, f)' = Version(c, f)'
  BY <1>1 DEF Version, LastTouch
<1>5. Tree(clone)' = Tree(c)'
  BY <1>4 DEF Tree
<1> QED BY <1>1, <1>3, <1>4, <1>5

(* So a plan stays about it. *)
LEMMA ChartedStays ==
  ASSUME TypeInv, Longer, UNCHANGED <<clone, lastParsed>>, NEW me, Charted(me)
  PROVE  Charted(me)'
BY CloneStays DEF Charted

(* And a file stays settled if its row stays or holds its version. *)
LEMMA SettledStays ==
  ASSUME TypeInv, Longer, UNCHANGED <<clone, seen>>, NEW me,
         \A f \in Files \ Pending(me) :
           \/ table'[f] = table[f] /\ Explained(clone, seen \cup me.taken, f)
           \/ table'[f].content = Version(clone, f)
  PROVE  Settled(me)'
<1>1. PICK c, done : c = clone /\ done = seen \cup me.taken
  OBVIOUS
<1>2. c \in 0 .. Len(history) /\ TypeOK
  BY <1>1 DEF TypeInv, TypeOK
<1>3. ASSUME NEW f \in Files \ Pending(me) PROVE Explained(c, done, f)'
  <2>1. CASE table'[f] = table[f] /\ Explained(clone, seen \cup me.taken, f)
    BY <1>1, <1>2, <2>1, ExplainedStays
  <2>2. CASE table'[f].content = Version(clone, f)
    <3>1. Version(c, f)' = Version(c, f)
      BY <1>2, TreesStay
    <3> QED BY <1>1, <2>2, <3>1 DEF Explained
  <2> QED BY <1>3, <2>1, <2>2
<1>4. ASSUME NEW f \in Files \ Pending(me)
      PROVE  Explained(clone, seen \cup me.taken, f)'
  BY <1>1, <1>3 DEF Explained, LastTouch, Version
<1> QED BY <1>4 DEF Settled, Pending


(* What has to be shown of a step of one task. *)
LEMMA StaleRun ==
  ASSUME TypeInv, RefsInv, NEW w \in Workers,
         Running(w) \/ \A v \in Workers : ~Running(v),
         NEW n, worker' = [worker EXCEPT ![w] = n],
         IF n.pc = "idle" THEN Found(lastParsed)' ELSE Stage(n)'
  PROVE  StaleInv'
<1>1. worker \in [Workers -> Memory]
  BY DEF TypeInv, TypeOK
<1>2. worker'[w] = n /\ \A v \in Workers \ {w} : worker'[v] = worker[v]
  BY <1>1
<1>3. \A v \in Workers \ {w} : worker'[v].pc = "idle"
  BY <1>2, OthersRest DEF Running
<1>4. ASSUME \A v \in Workers : ~Running(v)' PROVE Found(lastParsed)'
  BY <1>2, <1>4 DEF Running
<1>5. ASSUME NEW v \in Workers, Running(v)' PROVE Stage(worker[v])'
  <2>1. v = w /\ n.pc # "idle"
    BY <1>2, <1>3, <1>5 DEF Running
  <2>2. worker'[v] = n
    BY <1>2, <2>1
  <2> QED BY <2>1, <2>2
<1> QED BY <1>4, <1>5 DEF StaleInv

(* A stage outlasts a step that leaves the tenant and its rows alone. *)
LEMMA StageStays ==
  ASSUME TypeInv, Longer, UNCHANGED <<clone, lastParsed, table, seen>>,
         NEW me, me.since \in Stamps, me.since # Never => me.since <= Len(history),
         Stage(me)
  PROVE  Stage(me)'
<1>1. MayGoBack(me)' => Found(me.since)'
  BY FoundStays DEF Stage, MayGoBack
<1>2. me.pc \in Working => Charted(me)' /\ Settled(me)'
  <2> SUFFICES ASSUME me.pc \in Working PROVE Charted(me)' /\ Settled(me)'
    OBVIOUS
  <2>1. Charted(me) /\ Settled(me)
    BY DEF Stage
  <2>2. \A f \in Files \ Pending(me) :
          table'[f] = table[f] /\ Explained(clone, seen \cup me.taken, f)
    BY <2>1 DEF Settled
  <2> QED BY <2>1, <2>2, ChartedStays, SettledStays
<1>3. Prepared(me) => Prepared(me)'
  BY DEF Prepared
<1> QED BY <1>1, <1>2, <1>3 DEF Stage

(* So it is enough to show the next stage of a step of that kind. *)
LEMMA StaleThink ==
  ASSUME TypeInv, RefsInv, NEW w \in Workers,
         Running(w) \/ \A v \in Workers : ~Running(v),
         UNCHANGED <<history, clone, lastParsed, table, seen>>,
         NEW n, worker' = [worker EXCEPT ![w] = n], n.since \in Stamps,
         n.since # Never => n.since <= Len(history), n.pc # "idle", Stage(n)
  PROVE  StaleInv'
<1>1. Longer
  BY DEF Longer, TypeInv, TypeOK, Count
<1>2. Stage(n)'
  BY <1>1, StageStays
<1> QED BY <1>2, StaleRun

(* The stage of the run that makes a step. *)
LEMMA OnStage ==
  ASSUME TypeInv, RefsInv, StaleInv, NEW w \in Workers, Running(w)
  PROVE  /\ worker[w] \in Memory /\ Coherent(worker[w]) /\ Grasp(worker[w])
         /\ worker[w].since \in Stamps
         /\ (worker[w].since # Never => worker[w].since <= Len(history))
         /\ Stage(worker[w])
BY Facts DEF RefsInv, StaleInv, Coherent, Memory

(* Rows, through the steps before the work. *)
LEMMA PreparingStale ==
  ASSUME TypeInv, RefsInv, StaleInv, NEW w \in Workers,
         \/ Begin(w) /\ \A v \in Workers : ~Running(v)
         \/ Pull(w) \/ Stamp(w)
  PROVE  StaleInv'
<1> DEFINE me == worker[w]
<1>1. CASE Begin(w) /\ \A v \in Workers : ~Running(v)
  <2>1. PICK n : n = [Idle EXCEPT !.pc = "pull", !.since = lastParsed]
    OBVIOUS
  <2>2. worker' = [worker EXCEPT ![w] = n]
        /\ UNCHANGED <<history, clone, lastParsed, table, seen>>
    BY <1>1, <2>1 DEF Begin
  <2>3. n.pc = "pull" /\ n.since = lastParsed /\ n.calling = "create"
        /\ n.deleted = {} /\ n.modified = {}
    BY <2>1 DEF Idle
  <2>4. Found(lastParsed)
    BY <1>1 DEF StaleInv
  <2>5. Stage(n)
    BY <2>3, <2>4 DEF Stage, Prepared, Working, CreateSteps
  <2> QED BY <1>1, <2>2, <2>3, <2>5, Facts, StaleThink
<1>2. ASSUME Pull(w) \/ Stamp(w)
      PROVE  /\ me \in Memory /\ Coherent(me) /\ Prepared(me) /\ Found(me.since)
             /\ me.since \in Stamps /\ (me.since # Never => me.since <= Len(history))
             /\ UNCHANGED <<history, table, seen>> /\ Longer /\ Running(w)
  <2>1. me.pc \in {"pull", "stamp"} /\ Running(w) /\ UNCHANGED <<history, table, seen>>
    BY <1>2 DEF Pull, Stamp, Running
  <2>2. Longer
    BY <2>1 DEF Longer, TypeInv, TypeOK, Count
  <2> QED BY <2>1, <2>2, OnStage DEF Stage, MayGoBack
<1>3. ASSUME NEW pc \in {"stamp", "plan"}, NEW n, n = [me EXCEPT !.pc = pc],
             Pull(w) \/ Stamp(w)
      PROVE  /\ n.pc = pc /\ n.since = me.since /\ n.calling = "create"
             /\ n.deleted = {} /\ n.modified = {} /\ Found(n.since)'
  <2>1. n.pc = pc /\ n.since = me.since /\ n.calling = me.calling
        /\ n.deleted = me.deleted /\ n.modified = me.modified
    BY <1>2, <1>3, StageFields DEF Luggage
  <2>2. Found(n.since)'
    <3>1. n.since \in Stamps /\ (n.since # Never => n.since <= Len(history))
          /\ Found(n.since)
      BY <1>2, <1>3, <2>1
    <3> QED BY <1>2, <1>3, <3>1, FoundStays
  <2> QED BY <1>2, <1>3, <2>1, <2>2 DEF Prepared
<1>4. CASE Pull(w)
  <2>1. PICK n : n = [me EXCEPT !.pc = "stamp"]
    OBVIOUS
  <2>2. worker' = [worker EXCEPT ![w] = n] /\ clone' = Len(history) /\ UNCHANGED lastParsed
    BY <1>4, <2>1 DEF Pull
  <2>3. Stage(n)'
    BY <1>2, <1>3, <1>4, <2>1, <2>2
       DEF Stage, Prepared, Working, CreateSteps, MayGoBack
  <2>4. n.pc # "idle"
    BY <1>3, <1>4, <2>1
  <2> QED BY <1>2, <1>4, <2>2, <2>3, <2>4, StaleRun
<1>5. CASE Stamp(w)
  <2>1. PICK n : n = [me EXCEPT !.pc = "plan"]
    OBVIOUS
  <2>2. worker' = [worker EXCEPT ![w] = n] /\ lastParsed' = Len(history)
        /\ UNCHANGED clone /\ me.pc = "stamp"
    BY <1>5, <2>1 DEF Stamp
  <2>3. lastParsed' # Never /\ clone' <= lastParsed'
    BY <2>2, Facts, NeverAssumption
  <2>4. n.since # Never => n.since <= clone'
    BY <1>2, <1>3, <1>5, <2>1, <2>2 DEF Prepared
  <2>5. Stage(n)'
    BY <1>3, <1>5, <2>1, <2>3, <2>4
       DEF Stage, Prepared, Working, CreateSteps, MayGoBack
  <2>6. n.pc # "idle"
    BY <1>3, <1>5, <2>1
  <2> QED BY <1>2, <1>5, <2>2, <2>5, <2>6, StaleRun
<1> QED BY <1>1, <1>4, <1>5


(* What is pending at each stage. *)
LEMMA PendingIs ==
  ASSUME NEW me
  PROVE  /\ me.pc \in CreateSteps => Pending(me) =
              me.creating \cup me.deleted \cup
                (IF me.calling = "upsert" THEN {} ELSE me.modified)
         /\ me.pc = "upsert" => Pending(me) = me.modified \cup me.deleted
         /\ me.pc = "look" => Pending(me) =
              me.creating \cup me.deleted
                \cup {f \in Files : me.progress[f] \in {"look", "write"}}
         /\ me.pc \in {"gather", "delete"} => Pending(me) = me.deleted
         /\ me.pc = "done" => Pending(me) = {}
<1>1. me.pc \in CreateSteps => Pending(me) =
        me.creating \cup me.deleted \cup
          (IF me.calling = "upsert" THEN {} ELSE me.modified)
  BY DEF Pending, CreateSteps
<1>2. me.pc = "upsert" => Pending(me) = me.modified \cup me.deleted
  BY DEF Pending, CreateSteps
<1>3. me.pc = "look" => Pending(me) =
        me.creating \cup me.deleted
          \cup {f \in Files : me.progress[f] \in {"look", "write"}}
  BY DEF Pending, CreateSteps
<1>4. me.pc \in {"gather", "delete"} => Pending(me) = me.deleted
  BY DEF Pending, CreateSteps
<1>5. me.pc = "done" => Pending(me) = {}
  BY DEF Pending, CreateSteps
<1> QED BY <1>1, <1>2, <1>3, <1>4, <1>5

(* Rows, through the plan of a full create. *)
LEMMA PlanFullStale ==
  ASSUME TypeInv, RefsInv, StaleInv, NEW w \in Workers, PlanFull(w)
  PROVE  StaleInv'
<1> DEFINE me == worker[w]
<1>1. me.pc = "plan" /\ me.since = Never /\ Running(w)
      /\ UNCHANGED <<history, clone, lastParsed, table, seen>>
  BY DEF PlanFull, Running
<1>2. me \in Memory /\ Coherent(me) /\ Grasp(me) /\ Prepared(me) /\ Found(Never)
  BY <1>1, OnStage DEF Stage, MayGoBack
<1>3. me.linking = {}
  BY <1>1, <1>2 DEF Grasp, CreateSteps
<1>4. PICK m : m = Creating(me, Tree(clone), "full")
  OBVIOUS
<1>5. PICK n : n = [m EXCEPT !.taken = 1 .. clone]
  OBVIOUS
<1>6. worker' = [worker EXCEPT ![w] = n]
  BY <1>4, <1>5 DEF PlanFull
<1>7. m \in Memory
  BY <1>2, <1>4, Facts, StagesCoherent, TreeVersions DEF Coherent
<1>8. m.pc = "create" /\ m.calling = "full" /\ m.creating = Tree(clone)
      /\ m.linking = {} /\ m.modified = {} /\ m.deleted = {} /\ m.since = Never
  BY <1>1, <1>2, <1>3, <1>4 DEF Creating, Memory, Prepared
<1>9. n.pc = "create" /\ n.calling = "full" /\ n.creating = Tree(clone)
      /\ n.linking = {} /\ n.modified = {} /\ n.deleted = {} /\ n.since = Never
  BY <1>5, <1>7, <1>8 DEF Memory
<1>10. Settled(n)
  <2>1. ASSUME NEW f \in Files, f \notin Tree(clone)
        PROVE  Explained(clone, seen \cup n.taken, f)
    BY <1>2, <2>1 DEF Explained, Found, HasRow, Tree
  <2>2. Pending(n) = Tree(clone)
    BY <1>9, PendingIs DEF CreateSteps
  <2> QED BY <2>1, <2>2 DEF Settled
<1>11. Charted(n)
  BY <1>1, <1>2, <1>9 DEF Charted, Prepared
<1>12. Stage(n)
  BY <1>2, <1>9, <1>10, <1>11 DEF Stage, MayGoBack, Working, CreateSteps
<1>13. n.since \in Stamps /\ (n.since # Never => n.since <= Len(history)) /\ n.pc # "idle"
  BY <1>9 DEF Stamps
<1> QED BY <1>1, <1>6, <1>12, <1>13, StaleThink

(* What a run holds that has planned the changes since a base. *)
Planned(n, me, base) ==
  /\ n.calling = "create" /\ n.since = me.since /\ n.linking = me.linking
  /\ n.deleted = Tree(base) \ Tree(clone)
  /\ n.modified = {f \in Tree(base) \cap Tree(clone) :
                     Version(base, f) # Version(clone, f)}
  /\ n.taken = base + 1 .. clone
  /\ \/ n.pc = "create" /\ n.creating = Tree(clone) \ Tree(base)
     \/ /\ Tree(clone) \ Tree(base) = {}
        /\ \/ n.pc = "upsert"
           \/ n.modified = {} /\ n.pc = "delete"
           \/ n.modified = {} /\ n.deleted = {} /\ n.pc = "done"

(* The plan of the changes is made from one of the possible bases. *)
LEMMA PlannedChanges ==
  ASSUME TypeInv, NEW w \in Workers, PlanChanges(w), worker[w].calling = "create"
  PROVE  \E base \in Bases(worker[w].since) : \E n :
           worker' = [worker EXCEPT ![w] = n] /\ Planned(n, worker[w], base)
<1> DEFINE me == worker[w]
<1>1. me \in Memory
  BY Facts
<1>2. PICK base \in Bases(me.since) :
        LET new == Tree(clone) \ Tree(base)
            m == [me EXCEPT
                   !.modified = {f \in Tree(base) \cap Tree(clone) :
                                   Version(base, f) # Version(clone, f)},
                   !.deleted = Tree(base) \ Tree(clone),
                   !.taken = base + 1 .. clone]
        IN worker' = [worker EXCEPT ![w] =
             IF new # {} THEN Creating(m, new, "create") ELSE AfterCreate(m)]
  BY DEF PlanChanges
<1> DEFINE new == Tree(clone) \ Tree(base)
           modified == {f \in Tree(base) \cap Tree(clone) :
                          Version(base, f) # Version(clone, f)}
           deleted == Tree(base) \ Tree(clone)
           taken == base + 1 .. clone
<1>3. PICK m : m = [me EXCEPT !.modified = modified, !.deleted = deleted,
                              !.taken = taken]
  OBVIOUS
<1>4. PICK n : n = IF new # {} THEN Creating(m, new, "create") ELSE AfterCreate(m)
  OBVIOUS
<1>5. worker' = [worker EXCEPT ![w] = n]
  BY <1>2, <1>3, <1>4, Zenon
<1> HIDE DEF modified, deleted, new, taken
<1>6. m.modified = modified /\ m.deleted = deleted /\ m.taken = taken
      /\ m.since = me.since /\ m.calling = "create" /\ m.linking = me.linking
  BY <1>1, <1>3 DEF Memory
<1>7. ASSUME new # {}
      PROVE  /\ n.pc = "create" /\ n.creating = new /\ n.calling = "create"
             /\ n.modified = modified /\ n.deleted = deleted /\ n.taken = taken
             /\ n.since = me.since /\ n.linking = me.linking
  <2>1. n = Creating(m, new, "create")
    BY <1>4, <1>7
  <2> QED BY <1>1, <1>3, <2>1 DEF Creating, Memory
<1>8. ASSUME new = {}
      PROVE  /\ \/ n.pc = "upsert"
                \/ modified = {} /\ n.pc = "delete"
                \/ modified = {} /\ deleted = {} /\ n.pc = "done"
             /\ n.calling = "create"
             /\ n.modified = modified /\ n.deleted = deleted /\ n.taken = taken
             /\ n.since = me.since /\ n.linking = me.linking
  <2>1. n = AfterCreate(m)
    BY <1>4, <1>8
  <2>2. CASE modified # {}
    <3>1. n = [m EXCEPT !.pc = "upsert"]
      BY <1>6, <2>1, <2>2 DEF AfterCreate
    <3> QED BY <1>1, <1>3, <1>6, <3>1 DEF Memory
  <2>3. CASE modified = {}
    <3>1. CASE deleted # {}
      <4>1. n = [m EXCEPT !.pc = "delete"]
        BY <1>6, <2>1, <2>3, <3>1 DEF AfterCreate, AfterUpsert
      <4>2. /\ n.pc = "delete" /\ n.calling = "create"
            /\ n.modified = modified /\ n.deleted = deleted /\ n.taken = taken
            /\ n.since = me.since /\ n.linking = me.linking
        BY <1>1, <1>3, <1>6, <4>1 DEF Memory
      <4> QED BY <2>3, <4>2
    <3>2. CASE deleted = {}
      <4>1. n = [m EXCEPT !.pc = "done"]
        BY <1>6, <2>1, <2>3, <3>2 DEF AfterCreate, AfterUpsert
      <4>2. /\ n.pc = "done" /\ n.calling = "create"
            /\ n.modified = modified /\ n.deleted = deleted /\ n.taken = taken
            /\ n.since = me.since /\ n.linking = me.linking
        BY <1>1, <1>3, <1>6, <4>1 DEF Memory
      <4> QED BY <2>3, <3>2, <4>2
    <3> QED BY <3>1, <3>2
  <2> QED BY <2>2, <2>3
<1>9. /\ n.calling = "create" /\ n.since = me.since /\ n.linking = me.linking
      /\ n.deleted = deleted /\ n.modified = modified /\ n.taken = taken
      /\ \/ n.pc = "create" /\ n.creating = new
         \/ /\ new = {}
            /\ \/ n.pc = "upsert"
               \/ n.modified = {} /\ n.pc = "delete"
               \/ n.modified = {} /\ n.deleted = {} /\ n.pc = "done"
  BY <1>7, <1>8
<1> QED BY <1>5, <1>9 DEF Planned, modified, deleted, new, taken

(* Rows, through the plan of the changes: those of the files it leaves out *)
(* are as they should be.                                                  *)
LEMMA PlanChangesStale ==
  ASSUME TypeInv, RefsInv, StaleInv, NEW w \in Workers, PlanChanges(w)
  PROVE  StaleInv'
<1> DEFINE me == worker[w]
<1>1. me.pc = "plan" /\ me.since # Never /\ Running(w)
      /\ UNCHANGED <<history, clone, lastParsed, table, seen>>
  BY DEF PlanChanges, Running
<1>2. me \in Memory /\ Coherent(me) /\ Grasp(me) /\ Prepared(me) /\ Found(me.since)
      /\ me.since \in Stamps /\ me.since <= Len(history)
  BY <1>1, OnStage DEF Stage, MayGoBack
<1>3. me.linking = {} /\ me.calling = "create"
  BY <1>1, <1>2 DEF Grasp, CreateSteps, Prepared
<1>4. PICK base \in Bases(worker[w].since) : \E n :
        worker' = [worker EXCEPT ![w] = n] /\ Planned(n, worker[w], base)
  BY <1>3, PlannedChanges
<1>5. PICK n : worker' = [worker EXCEPT ![w] = n] /\ Planned(n, me, base)
  BY <1>4
<1>6. Pending(n) = (Tree(clone) \ Tree(base)) \cup n.deleted \cup n.modified
  <2>1. CASE n.pc = "create" /\ n.creating = Tree(clone) \ Tree(base)
    BY <1>5, <2>1, PendingIs DEF Planned, CreateSteps
  <2>2. CASE Tree(clone) \ Tree(base) = {} /\ n.pc = "upsert"
    BY <2>2, PendingIs
  <2>3. CASE Tree(clone) \ Tree(base) = {} /\ n.modified = {} /\ n.pc = "delete"
    BY <2>3, PendingIs
  <2>4. CASE Tree(clone) \ Tree(base) = {} /\ n.modified = {} /\ n.deleted = {}
             /\ n.pc = "done"
    BY <2>4, PendingIs
  <2> QED BY <1>5, <2>1, <2>2, <2>3, <2>4 DEF Planned
<1>7. Settled(n)
  <2>1. ASSUME NEW f \in Files \ Pending(n)
        PROVE  Explained(clone, seen \cup n.taken, f)
    <3>1. Version(base, f) = Version(clone, f)
      BY <1>5, <1>6, <2>1 DEF Planned, Tree
    <3>2. me.since \in Nat /\ me.since <= clone
      BY <1>1, <1>2 DEF Prepared, Stamps, Count
    <3>3. seen \subseteq 1 .. me.since /\ Explained(me.since, seen, f)
      BY <1>1, <1>2, <2>1 DEF Found
    <3> QED BY <1>5, <3>1, <3>2, <3>3, OutsideThePlan DEF Planned
  <2> QED BY <2>1 DEF Settled
<1>8. Charted(n)
  <2>1. n.modified \subseteq Tree(clone) /\ n.deleted \cap Tree(clone) = {}
    BY <1>5 DEF Planned
  <2>2. n.linking = {} /\ n.since # Never /\ n.calling = "create"
    BY <1>1, <1>3, <1>5 DEF Planned
  <2>3. n.pc \in {"create", "upsert", "delete", "done"}
        /\ (n.pc = "create" => n.creating \subseteq Tree(clone))
    BY <1>5 DEF Planned
  <2>4. lastParsed # Never /\ clone <= lastParsed
    BY <1>1, <1>2 DEF Prepared
  <2> QED BY <2>1, <2>2, <2>3, <2>4 DEF Charted, CreateSteps
<1>9. n.pc \in {"create", "upsert", "delete", "done"} /\ n.since = me.since
  BY <1>5 DEF Planned
<1>10. Stage(n)
  BY <1>2, <1>7, <1>8, <1>9 DEF Stage
<1> QED BY <1>1, <1>2, <1>5, <1>9, <1>10, StaleThink


(* A create hands its plan on to what comes after it. *)
LEMMA CreateHandsOn ==
  ASSUME NEW me \in Memory, me.pc \in CreateSteps, NEW n, n = EndCreate(me),
         me.calling = "full" => me.modified = {}
  PROVE  /\ n.since = me.since /\ n.taken = me.taken /\ n.linking = me.linking
         /\ n.deleted = me.deleted /\ n.modified = me.modified /\ n.loaded = me.loaded
         /\ n.pc \in {"gather", "upsert", "delete", "done"}
         /\ Pending(me) \subseteq me.creating \cup Pending(n)
<1>1. n.since = me.since /\ n.taken = me.taken /\ n.linking = me.linking
      /\ n.deleted = me.deleted /\ n.modified = me.modified /\ n.loaded = me.loaded
  BY StageFields DEF EndCreate, Luggage
<1>2. CASE me.calling = "upsert"
  <2>1. n.pc = "gather"
    BY <1>2, StageFields DEF EndCreate
  <2> QED BY <1>1, <1>2, <2>1, PendingIs
<1>3. CASE me.calling = "create" /\ me.modified # {}
  <2>1. n.pc = "upsert"
    BY <1>3, StageFields DEF EndCreate
  <2> QED BY <1>1, <1>3, <2>1, PendingIs
<1>4. CASE me.calling # "upsert" /\ me.modified = {}
  <2>1. n.pc = IF me.deleted # {} THEN "delete" ELSE "done"
    BY <1>4, StageFields DEF EndCreate
  <2> QED BY <1>1, <1>4, <2>1, PendingIs
<1>5. me.calling \in {"full", "create", "upsert"}
  BY DEF Memory
<1> QED BY <1>2, <1>3, <1>4, <1>5

(* Rows, through a create that nothing stands in the way of. *)
LEMMA AddingStale ==
  ASSUME TypeInv, RefsInv, StaleInv, NEW w \in Workers, Create(w) \/ Add(w)
  PROVE  StaleInv'
<1> DEFINE me == worker[w]
<1>1. me.pc \in CreateSteps /\ Running(w)
      /\ UNCHANGED <<history, clone, lastParsed, seen>>
  BY DEF Create, Add, Running, CreateSteps
<1>2. me \in Memory /\ Grasp(me) /\ Charted(me) /\ Settled(me) /\ Stage(me)
      /\ me.since \in Stamps /\ (me.since # Never => me.since <= Len(history))
  BY <1>1, OnStage DEF Stage, Working
<1>3. me.creating \subseteq Files /\ me.creating \subseteq Tree(clone)
  BY <1>1, <1>2, TreeVersions DEF Charted
<1>4. CASE Create(w)
  <2>1. OnDisk(me.creating) = me.creating
    BY <1>3 DEF OnDisk
  <2>2. PICK loaded : loaded = Loaded(me, me.creating)
    OBVIOUS
  <2>3. PICK n : n = [[me EXCEPT !.creating = me.creating, !.loaded = loaded]
                        EXCEPT !.pc = "add"]
    OBVIOUS
  <2>4. worker' = [worker EXCEPT ![w] = n] /\ UNCHANGED table
    BY <1>4, <2>1, <2>2, <2>3 DEF Create
  <2>5. n.pc = "add" /\ n.calling = me.calling /\ n.creating = me.creating
        /\ n.modified = me.modified /\ n.deleted = me.deleted /\ n.since = me.since
        /\ n.taken = me.taken /\ n.linking = me.linking /\ n.loaded = loaded
    BY <1>2, <2>3 DEF Memory
  <2>6. \A f \in Files : loaded[f] = IF f \in me.creating THEN Version(clone, f)
                                     ELSE me.loaded[f]
    BY <2>2 DEF Loaded
  <2>7. Charted(n)
    <3>1. \A f \in n.creating : n.loaded[f] = Version(clone, f)
      BY <1>3, <2>5, <2>6
    <3>2. \A f \in n.linking : n.loaded[f] = Version(clone, f)
      BY <1>2, <2>5, <2>6 DEF Charted, Memory
    <3> QED BY <1>1, <1>2, <2>5, <3>1, <3>2 DEF Charted
  <2>8. Settled(n)
    <3>1. Pending(n) = Pending(me)
      BY <1>1, <2>5, PendingIs DEF CreateSteps
    <3> QED BY <1>2, <2>5, <3>1 DEF Settled
  <2>9. MayGoBack(n) => Found(n.since)
    BY <1>1, <1>2, <2>5 DEF Stage, MayGoBack
  <2>10. Stage(n)
    BY <2>5, <2>7, <2>8, <2>9 DEF Stage
  <2> QED BY <1>1, <1>2, <2>4, <2>5, <2>10, StaleThink
<1>5. CASE Add(w)
  <2>1. me.pc \in {"add", "again"} /\ table' = Created(me)
    BY <1>5 DEF Add
  <2>2. PICK n : n = EndCreate(me)
    OBVIOUS
  <2>3. worker' = [worker EXCEPT ![w] = n]
    BY <1>5, <2>2 DEF Add
  <2>4. /\ n.since = me.since /\ n.taken = me.taken /\ n.linking = me.linking
        /\ n.deleted = me.deleted /\ n.modified = me.modified /\ n.loaded = me.loaded
        /\ n.pc \in {"gather", "upsert", "delete", "done"}
        /\ Pending(me) \subseteq me.creating \cup Pending(n)
    BY <1>1, <1>2, <2>2, CreateHandsOn DEF Charted
  <2>5. Longer
    BY <1>1, Facts DEF Longer
  <2>6. Charted(n)
    BY <1>2, <2>4 DEF Charted, CreateSteps
  <2>7. Charted(n)'
    BY <1>1, <2>5, <2>6, ChartedStays
  <2>8. ASSUME NEW f \in Files \ Pending(n)
        PROVE  \/ table'[f] = table[f] /\ Explained(clone, seen \cup n.taken, f)
               \/ table'[f].content = Version(clone, f)
    <3>1. CASE f \in me.creating
      <4>1. me.loaded[f] = Version(clone, f)
        BY <1>2, <2>1, <3>1 DEF Charted
      <4> QED BY <2>1, <3>1, <4>1 DEF Created
    <3>2. CASE f \notin me.creating
      <4>1. table'[f] = table[f]
        BY <2>1, <3>2 DEF Created
      <4>2. f \in Files \ Pending(me)
        BY <2>4, <2>8, <3>2
      <4> QED BY <1>2, <2>4, <4>1, <4>2 DEF Settled
    <3> QED BY <3>1, <3>2
  <2>9. Settled(n)'
    BY <1>1, <2>5, <2>8, SettledStays
  <2>10. Stage(n)'
    BY <2>4, <2>7, <2>9 DEF Stage, MayGoBack, CreateSteps
  <2>11. n.pc # "idle"
    BY <2>4
  <2> QED BY <1>1, <2>3, <2>10, <2>11, StaleRun
<1> QED BY <1>4, <1>5


(* Rows that a create takes out of its way and may not get back: the run   *)
(* they were written by has then not been carried through.                 *)
LEMMA FoundWithout ==
  ASSUME TypeInv, UNCHANGED history, NEW stamp \in Nat, stamp <= Len(history),
         Found(stamp), NEW found, \A f \in found : f \in Files /\ table[f].refs # 0,
         table' = Without(found),
         seen' = seen \ {table[f].content : f \in found}
  PROVE  Found(stamp)'
<1>1. Longer /\ TypeOK /\ stamp \in 0 .. Len(history)
  BY DEF Longer, TypeInv, TypeOK, Count
<1>2. stamp # Never /\ seen \subseteq 1 .. stamp
  BY NeverAssumption DEF Found
<1>3. PICK done : done = seen \ {table[f].content : f \in found}
  OBVIOUS
<1>4. ASSUME NEW f \in Files PROVE Explained(stamp, done, f)'
  <2>1. Explained(stamp, seen, f)
    BY <1>2 DEF Found
  <2>2. CASE f \notin found
    <3>1. table'[f] = table[f]
      BY <2>2 DEF Without
    <3>2. Explained(stamp, done, f)
      BY <1>3, <2>1, ExplainedByMore
    <3> QED BY <1>1, <3>1, <3>2, ExplainedStays
  <2>3. CASE f \in found
    <3>1. table'[f].content = 0 /\ table[f].refs # 0
      BY <2>3 DEF Without, NoRow
    <3>2. Version(stamp, f)' = Version(stamp, f) /\ LastTouch(stamp, f)' = LastTouch(stamp, f)
      BY <1>1, TreesStay
    <3>3. CASE Version(stamp, f) = 0
      BY <3>1, <3>2, <3>3 DEF Explained
    <3>4. CASE Version(stamp, f) # 0
      <4>1. \E i \in LastTouch(stamp, f) : i \notin done
        <5>1. CASE table[f].content = Version(stamp, f)
          <6>1. Version(stamp, f) \in LastTouch(stamp, f)
            BY <3>4, VersionIs
          <6>2. Version(stamp, f) \notin done
            BY <1>3, <2>3, <5>1
          <6> QED BY <6>1, <6>2
        <5>2. CASE \E i \in LastTouch(stamp, f) : i \notin seen
          BY <1>3, <5>2
        <5> QED BY <2>1, <3>4, <5>1, <5>2 DEF Explained
      <4> QED BY <3>2, <4>1 DEF Explained
    <3> QED BY <3>3, <3>4
  <2> QED BY <2>2, <2>3
<1>5. \A f \in Files : Explained(stamp, seen, f)'
  BY <1>3, <1>4 DEF Explained
<1>6. (seen \subseteq 1 .. stamp)'
  BY <1>2
<1> QED BY <1>2, <1>5, <1>6 DEF Found

(* Rows, through a create that others stand in the way of. *)
LEMMA RefusedStale ==
  ASSUME TypeInv, RefsInv, StaleInv, NEW w \in Workers,
         AddRefused(w) \/ ClearAll(w) \/ ClearSome(w)
  PROVE  StaleInv'
<1> DEFINE me == worker[w]
<1>1. me.pc \in {"add", "again", "clear"} /\ me.pc \in CreateSteps /\ Running(w)
      /\ UNCHANGED <<history, clone, lastParsed>>
  BY DEF AddRefused, ClearAll, ClearSome, Running, CreateSteps
<1>2. me \in Memory /\ Grasp(me) /\ Charted(me) /\ Settled(me) /\ Stage(me)
      /\ me.since \in Stamps /\ (me.since # Never => me.since <= Len(history))
  BY <1>1, OnStage DEF Stage, Working
<1>3. me.creating \subseteq Files
  BY <1>2 DEF Memory
<1>4. me.calling # "upsert" /\ me.linking = {}
  BY <1>1, <1>2 DEF AddRefused, ClearAll, ClearSome, Grasp, CreateSteps
<1>5. Found(me.since)
  BY <1>1, <1>2, <1>4 DEF Stage, MayGoBack
<1>6. ASSUME NEW pc \in {"clear", "again"}, NEW n, n = [me EXCEPT !.pc = pc]
      PROVE  /\ n.pc = pc /\ n.since = me.since /\ n.taken = me.taken
             /\ Charted(n) /\ Pending(n) = Pending(me)
  <2>1. n.pc = pc /\ n.calling = me.calling /\ n.creating = me.creating
        /\ n.modified = me.modified /\ n.deleted = me.deleted /\ n.since = me.since
        /\ n.taken = me.taken /\ n.linking = me.linking /\ n.loaded = me.loaded
    BY <1>2, <1>6, StageFields DEF Luggage
  <2>2. Charted(n)
    BY <1>1, <1>2, <2>1 DEF Charted, CreateSteps
  <2>3. Pending(n) = Pending(me)
    <3>1. n.pc \in CreateSteps
      BY <1>6, <2>1 DEF CreateSteps
    <3>2. Pending(me) = me.creating \cup me.deleted \cup
                          (IF me.calling = "upsert" THEN {} ELSE me.modified)
      BY <1>1, PendingIs
    <3>3. Pending(n) = n.creating \cup n.deleted \cup
                         (IF n.calling = "upsert" THEN {} ELSE n.modified)
      BY <3>1, PendingIs
    <3> QED BY <2>1, <3>2, <3>3
  <2> QED BY <2>1, <2>2, <2>3
<1>7. ASSUME NEW n, n = Raised(me), me.calling = "create"
      PROVE  n.pc = "restore" /\ n.since = me.since
  BY <1>2, <1>7, RaisedFields
<1>8. me.calling = "full" => me.since = Never /\ \A f \in Files : ~HasRow(f)
  BY <1>1, <1>2, <1>5 DEF Charted, Found
<1>9. me.calling \in {"full", "create"}
  BY <1>2, <1>4 DEF Memory
<1>10. CASE AddRefused(w)
  <2>1. me.calling = "create"
    BY <1>3, <1>8, <1>9, <1>10 DEF AddRefused
  <2>2. PICK n : n = IF me.pc = "add" THEN [me EXCEPT !.pc = "clear"] ELSE Raised(me)
    OBVIOUS
  <2>3. worker' = [worker EXCEPT ![w] = n] /\ UNCHANGED <<table, seen>>
    BY <1>10, <2>2 DEF AddRefused
  <2>4. Stage(n) /\ n.since = me.since /\ n.pc # "idle"
    <3>1. CASE me.pc = "add"
      <4>1. n.pc = "clear" /\ n.since = me.since /\ n.taken = me.taken
            /\ Charted(n) /\ Pending(n) = Pending(me)
        BY <1>6, <2>2, <3>1
      <4> QED BY <1>2, <1>5, <4>1 DEF Stage, Settled
    <3>2. CASE me.pc # "add"
      <4>1. n.pc = "restore" /\ n.since = me.since
        BY <1>7, <2>1, <2>2, <3>2
      <4> QED BY <1>5, <4>1 DEF Stage, Working, CreateSteps
    <3> QED BY <3>1, <3>2
  <2> QED BY <1>1, <1>2, <2>3, <2>4, StaleThink
<1>11. CASE ClearAll(w)
  <2>1. table' = table
    <3>1. \A f \in Files : table[f] = NoRow
      BY <1>8, <1>11, Facts DEF ClearAll, HasRow, NoRow, Row
    <3> QED BY <1>11, <3>1, Facts DEF ClearAll, Without
  <2>2. PICK n : n = [me EXCEPT !.pc = "again"]
    OBVIOUS
  <2>3. worker' = [worker EXCEPT ![w] = n] /\ UNCHANGED seen
    BY <1>11, <2>2 DEF ClearAll
  <2>4. n.pc = "again" /\ n.since = me.since /\ n.taken = me.taken
        /\ Charted(n) /\ Pending(n) = Pending(me)
    BY <1>6, <2>2
  <2>5. Stage(n)
    BY <1>2, <1>5, <2>4 DEF Stage, Settled
  <2> QED BY <1>1, <1>2, <2>1, <2>3, <2>4, <2>5, StaleThink
<1>12. CASE ClearSome(w)
  <2>1. PICK found : found = Joined(me.creating)
    OBVIOUS
  <2>2. table' = Without(found) /\ seen' = seen \ {table[f].content : f \in found}
        /\ me.calling = "create" /\ me.pc = "clear"
        /\ worker' = [worker EXCEPT ![w] =
             IF found = {} THEN Raised(me) ELSE [me EXCEPT !.pc = "again"]]
    BY <1>9, <1>12, <2>1 DEF ClearSome
  <2>3. PICK n : n = IF found = {} THEN Raised(me) ELSE [me EXCEPT !.pc = "again"]
    OBVIOUS
  <2>4. n.since = me.since /\ n.pc \in {"restore", "again"}
    <3>1. CASE found = {}
      BY <1>7, <2>2, <2>3, <3>1
    <3>2. CASE found # {}
      BY <1>6, <2>3, <3>2
    <3> QED BY <3>1, <3>2
  <2>5. n.since \in Nat /\ n.since <= Len(history) /\ Found(n.since)
    BY <1>1, <1>2, <1>5, <2>2, <2>4 DEF Charted, Stamps, Count
  <2>6. \A f \in found : f \in Files /\ f \in me.creating /\ table[f].refs # 0
    BY <1>3, <2>1 DEF Joined
  <2>7. Found(n.since)'
    BY <1>1, <2>2, <2>5, <2>6, FoundWithout
  <2>8. ASSUME n.pc = "again" PROVE Charted(n)' /\ Settled(n)'
    <3>1. found # {}
      BY <1>7, <2>2, <2>3, <2>8
    <3>2. n.taken = me.taken /\ Charted(n) /\ Pending(n) = Pending(me)
      BY <1>6, <2>3, <3>1
    <3>3. Longer
      BY <1>1, Facts DEF Longer
    <3>4. Charted(n)'
      BY <1>1, <3>2, <3>3, ChartedStays
    <3>5. PICK c, done, few : /\ c = clone
                              /\ done = seen \cup n.taken
                              /\ few = (seen \ {table[f].content : f \in found}) \cup n.taken
      OBVIOUS
    <3>6. c \in 0 .. Len(history) /\ TypeOK /\ few \subseteq done
      BY <3>5 DEF TypeInv, TypeOK
    <3>7. ASSUME NEW f \in Files \ Pending(n) PROVE Explained(c, few, f)'
      <4>1. f \notin me.creating
        BY <1>1, <3>2, <3>7, PendingIs
      <4>2. table'[f] = table[f]
        BY <2>2, <2>6, <3>7, <4>1 DEF Without
      <4>3. Explained(c, few, f)
        BY <1>2, <3>2, <3>5, <3>6, <3>7, ExplainedByMore DEF Settled
      <4> QED BY <3>3, <3>6, <4>2, <4>3, ExplainedStays
    <3>8. ASSUME NEW f \in Files \ Pending(n)
          PROVE  Explained(clone, seen \cup n.taken, f)'
      BY <1>1, <2>2, <3>5, <3>7 DEF Explained, LastTouch, Version
    <3>9. Settled(n)'
      BY <3>8 DEF Settled, Pending
    <3> QED BY <3>4, <3>9
  <2>9. Stage(n)'
    BY <2>4, <2>7, <2>8 DEF Stage, Working, CreateSteps
  <2> QED BY <1>1, <2>2, <2>3, <2>4, <2>9, StaleRun
<1> QED BY <1>10, <1>11, <1>12


(* Rows, through the start and the stages of an upsert. *)
LEMMA UpsertingStale ==
  ASSUME TypeInv, RefsInv, StaleInv, NEW w \in Workers,
         Upsert(w) \/ Gather(w) \/ EndUpsert(w)
  PROVE  StaleInv'
<1> DEFINE me == worker[w]
<1>1. me.pc \in {"upsert", "look", "gather"} /\ Running(w)
      /\ UNCHANGED <<history, clone, lastParsed, table, seen>>
  BY DEF Upsert, Gather, EndUpsert, Running
<1>2. me \in Memory /\ Grasp(me) /\ Charted(me) /\ Settled(me)
      /\ me.since \in Stamps /\ (me.since # Never => me.since <= Len(history))
  BY <1>1, OnStage DEF Stage, Working
<1>3. CASE Upsert(w)
  <2>1. me.pc = "upsert" /\ me.linking = {}
    BY <1>2, <1>3 DEF Upsert, Grasp, CreateSteps
  <2>2. OnDisk(me.modified) = me.modified
    BY <1>2 DEF Charted, OnDisk
  <2>3. PICK loaded, progress :
          /\ progress = [f \in Files |-> IF f \in me.modified THEN "look" ELSE "none"]
          /\ loaded = Loaded(me, me.modified)
    OBVIOUS
  <2>4. PICK n : n = [me EXCEPT !.pc = "look", !.creating = {}, !.loaded = loaded,
                                !.progress = progress]
    OBVIOUS
  <2>5. worker' = [worker EXCEPT ![w] = n]
    BY <1>3, <2>2, <2>3, <2>4 DEF Upsert
  <2>6. n.pc = "look" /\ n.creating = {} /\ n.modified = me.modified
        /\ n.deleted = me.deleted /\ n.since = me.since /\ n.taken = me.taken
        /\ n.linking = {} /\ n.loaded = loaded /\ n.progress = progress
    BY <1>2, <2>1, <2>4 DEF Memory
  <2>7. \A f \in Files :
          /\ n.progress[f] = IF f \in me.modified THEN "look" ELSE "none"
          /\ f \in me.modified => n.loaded[f] = Version(clone, f)
    BY <2>3, <2>6 DEF Loaded
  <2>8. Charted(n)
    BY <1>2, <2>6, <2>7 DEF Charted, CreateSteps
  <2>9. Pending(me) \subseteq Pending(n)
    <3>1. Pending(me) = me.modified \cup me.deleted
      BY <2>1, PendingIs
    <3>2. Pending(n) = n.deleted \cup {f \in Files : n.progress[f] \in {"look", "write"}}
      BY <2>6, PendingIs
    <3>3. me.modified \subseteq Files
      BY <1>2 DEF Memory
    <3> QED BY <2>6, <2>7, <3>1, <3>2, <3>3
  <2>10. Stage(n)
    BY <1>2, <2>6, <2>8, <2>9 DEF Stage, Settled, MayGoBack, CreateSteps
  <2> QED BY <1>1, <1>2, <2>5, <2>6, <2>10, StaleThink
<1>4. CASE Gather(w)
  <2>1. me.pc = "look" /\ \A f \in Files : me.progress[f] = "none"
    BY <1>4 DEF Gather
  <2>2. PICK n : n = IF me.creating # {} THEN Creating(me, me.creating, "upsert")
                     ELSE [me EXCEPT !.pc = "gather"]
    OBVIOUS
  <2>3. worker' = [worker EXCEPT ![w] = n]
    BY <1>4, <2>2 DEF Gather
  <2>4. n.creating = me.creating /\ n.modified = me.modified /\ n.deleted = me.deleted
        /\ n.since = me.since /\ n.taken = me.taken /\ n.linking = me.linking
        /\ n.loaded = me.loaded
        /\ \/ n.pc = "create" /\ n.calling = "upsert"
           \/ n.pc = "gather" /\ n.creating = {}
    <3>1. CASE me.creating # {}
      <4>1. n = Creating(me, me.creating, "upsert")
        BY <2>2, <3>1
      <4> QED BY <1>2, <4>1 DEF Creating, Memory
    <3>2. CASE me.creating = {}
      <4>1. n = [me EXCEPT !.pc = "gather"]
        BY <2>2, <3>2
      <4> QED BY <1>2, <3>2, <4>1 DEF Memory
    <3> QED BY <3>1, <3>2
  <2>5. Charted(n)
    BY <1>2, <2>1, <2>4 DEF Charted, CreateSteps
  <2>6. Pending(me) \subseteq Pending(n)
    <3>1. Pending(me) = me.creating \cup me.deleted
      BY <2>1, PendingIs
    <3>2. n.pc = "create" \/ n.creating = {}
      BY <2>4
    <3>3. Pending(n) = n.creating \cup n.deleted
      <4>1. CASE n.pc = "create" /\ n.calling = "upsert"
        BY <4>1, PendingIs DEF CreateSteps
      <4>2. CASE n.pc = "gather" /\ n.creating = {}
        BY <4>2, PendingIs
      <4> QED BY <2>4, <4>1, <4>2
    <3> QED BY <2>4, <3>1, <3>3
  <2>7. Stage(n) /\ n.pc # "idle"
    BY <1>2, <2>4, <2>5, <2>6 DEF Stage, Settled, MayGoBack, CreateSteps
  <2> QED BY <1>1, <1>2, <2>3, <2>4, <2>7, StaleThink
<1>5. CASE EndUpsert(w)
  <2>1. me.pc = "gather" /\ me.linking = {}
    BY <1>5 DEF EndUpsert
  <2>2. PICK n : n = AfterUpsert(me)
    OBVIOUS
  <2>3. worker' = [worker EXCEPT ![w] = n]
    BY <1>5, <2>2 DEF EndUpsert
  <2>4. n.pc = (IF me.deleted # {} THEN "delete" ELSE "done") /\ n.linking = {}
        /\ n.modified = me.modified /\ n.deleted = me.deleted
        /\ n.since = me.since /\ n.taken = me.taken
    BY <1>2, <2>1, <2>2, StageFields DEF Luggage
  <2>5. Charted(n)
    BY <1>2, <2>4 DEF Charted, CreateSteps
  <2>6. Pending(me) \subseteq Pending(n)
    <3>1. Pending(me) = me.deleted
      BY <2>1, PendingIs
    <3>2. CASE me.deleted # {}
      BY <2>4, <3>1, <3>2, PendingIs
    <3>3. CASE me.deleted = {}
      BY <3>1, <3>3
    <3> QED BY <3>2, <3>3
  <2>7. Stage(n) /\ n.pc # "idle"
    BY <1>2, <2>4, <2>5, <2>6 DEF Stage, Settled, MayGoBack, CreateSteps
  <2> QED BY <1>1, <1>2, <2>3, <2>4, <2>7, StaleThink
<1> QED BY <1>3, <1>4, <1>5


(* Rows, through an update of one file: once written they are current. *)
LEMMA UpdatingStale ==
  ASSUME TypeInv, RefsInv, StaleInv, NEW w \in Workers, NEW f \in Files,
         Look(w, f) \/ WriteContent(w, f) \/ Unref(w, f)
  PROVE  StaleInv'
<1> DEFINE me == worker[w]
<1>1. me.pc = "look" /\ me.progress[f] # "none" /\ Running(w)
      /\ UNCHANGED <<history, clone, lastParsed, seen>>
  BY DEF Look, WriteContent, Unref, Running
<1>2. me \in Memory /\ Grasp(me) /\ Charted(me) /\ Settled(me)
      /\ me.since \in Stamps /\ (me.since # Never => me.since <= Len(history))
  BY <1>1, OnStage DEF Stage, Working
<1>3. me.loaded[f] = Version(clone, f) /\ f \in me.modified /\ f \in Tree(clone)
  BY <1>1, <1>2 DEF Charted
<1>4. me.progress \in [Files -> Progress] /\ Longer
  BY <1>1, <1>2, Facts DEF Memory, Longer
<1>5. Pending(me) = me.creating \cup me.deleted
                      \cup {g \in Files : me.progress[g] \in {"look", "write"}}
  BY <1>1, PendingIs
<1>6. ASSUME NEW n, n.pc = "look", n.modified = me.modified, n.deleted = me.deleted,
             n.loaded = me.loaded,
             n.creating = me.creating \/ n.creating = me.creating \cup {f},
             n.linking \subseteq me.linking \cup {f},
             \A g \in Files \ {f} : n.progress[g] = me.progress[g]
      PROVE  /\ Charted(n) /\ ~MayGoBack(n)
             /\ Pending(me) \subseteq Pending(n) \cup {f}
  <2>1. n.creating \subseteq Tree(clone)
    BY <1>1, <1>2, <1>3, <1>6 DEF Charted
  <2>2. \A g \in Files : n.progress[g] # "none" =>
          n.loaded[g] = Version(clone, g) /\ g \in n.modified
    BY <1>1, <1>2, <1>3, <1>6 DEF Charted
  <2>3. \A g \in n.linking : n.loaded[g] = Version(clone, g)
    BY <1>2, <1>3, <1>6 DEF Charted
  <2>4. Charted(n)
    BY <1>2, <1>6, <2>1, <2>2, <2>3 DEF Charted, CreateSteps
  <2>5. Pending(n) = n.creating \cup n.deleted
                       \cup {g \in Files : n.progress[g] \in {"look", "write"}}
    BY <1>6, PendingIs
  <2>6. Pending(me) \subseteq Pending(n) \cup {f}
    BY <1>5, <1>6, <2>5
  <2> QED BY <1>6, <2>4, <2>6 DEF MayGoBack, CreateSteps
<1>7. CASE Look(w, f)
  <2>1. PICK n : n = IF HasRow(f)
                     THEN [me EXCEPT !.progress[f] = "write", !.old[f] = table[f].refs]
                     ELSE [me EXCEPT !.progress[f] = "none", !.creating = me.creating \cup {f}]
    OBVIOUS
  <2>2. worker' = [worker EXCEPT ![w] = n] /\ UNCHANGED table
    <3>1. CASE HasRow(f)
      BY <1>7, <2>1, <3>1 DEF Look
    <3>2. CASE ~HasRow(f)
      <4>1. worker' = [worker EXCEPT ![w] = [me EXCEPT !.progress[f] = "none",
                                               !.creating = me.creating \cup {f}]]
            /\ UNCHANGED table
        BY <1>7, <3>2 DEF Look
      <4> QED BY <2>1, <3>2, <4>1
    <3> QED BY <3>1, <3>2
  <2>3. n.pc = "look" /\ n.modified = me.modified /\ n.deleted = me.deleted
        /\ n.loaded = me.loaded /\ n.linking = me.linking /\ n.since = me.since
        /\ n.taken = me.taken
    BY <1>1, <1>2, <2>1 DEF Memory
  <2>4. \A g \in Files \ {f} : n.progress[g] = me.progress[g]
    BY <1>2, <1>4, <2>1 DEF Memory
  <2>5. \/ n.progress[f] = "write" /\ n.creating = me.creating
        \/ n.creating = me.creating \cup {f}
    BY <1>2, <1>4, <2>1 DEF Memory
  <2>6. Charted(n) /\ ~MayGoBack(n) /\ Pending(me) \subseteq Pending(n) \cup {f}
    BY <1>6, <2>3, <2>4, <2>5
  <2>7. f \in Pending(n)
    BY <2>3, <2>5, PendingIs
  <2>8. Stage(n)
    BY <1>2, <2>3, <2>6, <2>7 DEF Stage, Settled
  <2> QED BY <1>1, <1>2, <2>2, <2>3, <2>8, StaleThink
<1>8. ASSUME NEW n, worker' = [worker EXCEPT ![w] = n], n.pc = "look",
             n.taken = me.taken, Charted(n), ~MayGoBack(n),
             Pending(me) \subseteq Pending(n) \cup {f},
             table'[f].content = Version(clone, f),
             \A g \in Files \ {f} : table'[g] = table[g]
      PROVE  StaleInv'
  <2>1. Charted(n)'
    BY <1>1, <1>4, <1>8, ChartedStays
  <2>2. ASSUME NEW g \in Files \ Pending(n)
        PROVE  \/ table'[g] = table[g] /\ Explained(clone, seen \cup n.taken, g)
               \/ table'[g].content = Version(clone, g)
    BY <1>2, <1>8, <2>2 DEF Settled
  <2>3. Settled(n)'
    BY <1>1, <1>4, <2>2, SettledStays
  <2>4. Stage(n)'
    BY <1>8, <2>1, <2>3 DEF Stage, MayGoBack
  <2> QED BY <1>1, <1>8, <2>4, StaleRun
<1>9. CASE WriteContent(w, f)
  <2>1. me.progress[f] = "write" /\ HasRow(f)
    BY <1>1, <1>2, <1>9 DEF WriteContent, Grasp
  <2>2. table[f] \in Row /\ table \in [Files -> Row]
    BY Facts
  <2>3. table' = [table EXCEPT ![f] = [table[f] EXCEPT !.content = me.loaded[f]]]
    BY <1>9, <2>1, <2>2 DEF WriteContent
  <2>4. table'[f].content = Version(clone, f) /\ \A g \in Files \ {f} : table'[g] = table[g]
    BY <1>3, <2>2, <2>3 DEF Row
  <2>5. PICK progress : progress = [me.progress EXCEPT ![f] = "unref"]
    OBVIOUS
  <2>6. PICK n : n = [me EXCEPT !.progress = progress]
    OBVIOUS
  <2>7. worker' = [worker EXCEPT ![w] = n]
    BY <1>2, <1>9, <2>5, <2>6, Facts DEF WriteContent, TypeInv, TypeOK, Memory
  <2>8. n.pc = "look" /\ n.modified = me.modified /\ n.deleted = me.deleted
        /\ n.loaded = me.loaded /\ n.linking = me.linking /\ n.taken = me.taken
        /\ n.creating = me.creating /\ n.progress = progress
    BY <1>1, <1>2, <2>6 DEF Memory
  <2>9. \A g \in Files \ {f} : progress[g] = me.progress[g]
    BY <1>4, <2>5
  <2>10. Charted(n) /\ ~MayGoBack(n) /\ Pending(me) \subseteq Pending(n) \cup {f}
    BY <1>6, <2>8, <2>9
  <2> QED BY <1>8, <2>4, <2>7, <2>8, <2>10
<1>10. CASE Unref(w, f)
  <2>1. me.progress[f] = "unref" /\ table[f].refs = me.old[f]
        /\ table[f].content = me.loaded[f]
    BY <1>1, <1>2, <1>10 DEF Unref, Grasp
  <2>2. table[f] \in Row /\ table \in [Files -> Row]
    BY Facts
  <2>3. table' = [table EXCEPT ![f] = [table[f] EXCEPT !.refs = 0]]
    BY <1>10, <2>1, <2>2 DEF Unref
  <2>4. table'[f].content = Version(clone, f) /\ \A g \in Files \ {f} : table'[g] = table[g]
    BY <1>3, <2>1, <2>2, <2>3 DEF Row
  <2>5. PICK links : links = me.linking
                            \cup (IF HasRefs(me.loaded[f]) THEN {f} ELSE {})
    OBVIOUS
  <2>6. PICK progress : progress = [me.progress EXCEPT ![f] = "none"]
    OBVIOUS
  <2>7. PICK n : n = [me EXCEPT !.progress = progress, !.linking = links]
    OBVIOUS
  <2>8. worker' = [worker EXCEPT ![w] = n]
    <3>1. n = [me EXCEPT !.progress[f] = "none", !.linking = links]
      BY <1>2, <2>6, <2>7 DEF Memory
    <3> QED BY <1>10, <2>5, <3>1 DEF Unref
  <2>9. n.pc = "look" /\ n.modified = me.modified /\ n.deleted = me.deleted
        /\ n.loaded = me.loaded /\ n.linking = links /\ n.taken = me.taken
        /\ n.creating = me.creating /\ n.progress = progress
    BY <1>1, <1>2, <2>7 DEF Memory
  <2>10. links \subseteq me.linking \cup {f}
         /\ \A g \in Files \ {f} : progress[g] = me.progress[g]
    BY <1>4, <2>5, <2>6
  <2>11. Charted(n) /\ ~MayGoBack(n) /\ Pending(me) \subseteq Pending(n) \cup {f}
    BY <1>6, <2>9, <2>10
  <2> QED BY <1>8, <2>4, <2>8, <2>9, <2>11
<1> QED BY <1>7, <1>9, <1>10


(* Rows, through the adding of references, to files that are current. *)
LEMMA LinkStale ==
  ASSUME TypeInv, RefsInv, StaleInv, NEW w \in Workers, Link(w)
  PROVE  StaleInv'
<1> DEFINE me == worker[w]
<1>1. me.linking # {} /\ me.pc \in CreateSteps \cup {"gather", "restore"} /\ Running(w)
      /\ UNCHANGED <<history, clone, lastParsed, seen>>
  BY DEF Link, Running, CreateSteps
<1>2. me \in Memory /\ Grasp(me) /\ Stage(me)
  BY <1>1, OnStage
<1>3. \/ me.pc = "gather"
      \/ me.calling = "upsert" /\ me.pc \in CreateSteps
  BY <1>1, <1>2 DEF Grasp, CreateSteps
<1>4. Charted(me) /\ Settled(me)
  BY <1>2, <1>3 DEF Stage, Working
<1>5. \A f \in me.linking :
        HasRow(f) /\ table[f] = [content |-> me.loaded[f], refs |-> 0]
  BY <1>2 DEF Grasp
<1>6. \A f \in me.linking : HasRow(f) /\ table[f].refs = 0
  <2>1. ASSUME NEW f \in me.linking PROVE HasRow(f) /\ table[f].refs = 0
    <3>1. HasRow(f) /\ table[f] = [content |-> me.loaded[f], refs |-> 0]
      BY <1>5
    <3> QED BY <3>1
  <2> QED BY <2>1
<1>7. table' = [f \in Files |-> IF f \in me.linking
                                THEN [table[f] EXCEPT !.refs = me.loaded[f]]
                                ELSE table[f]]
  BY <1>6 DEF Link
<1>8. PICK n : n = [me EXCEPT !.linking = {}]
  OBVIOUS
<1>9. worker' = [worker EXCEPT ![w] = n]
  BY <1>6, <1>8 DEF Link
<1>10. n.linking = {} /\ n.pc = me.pc /\ n.calling = me.calling /\ n.taken = me.taken
       /\ n.creating = me.creating /\ n.modified = me.modified /\ n.deleted = me.deleted
       /\ n.loaded = me.loaded /\ n.since = me.since /\ n.progress = me.progress
  BY <1>2, <1>8 DEF Memory
<1>11. Longer
  BY <1>1, Facts DEF Longer
<1>12. Charted(n)'
  <2>1. Charted(n)
    BY <1>4, <1>10 DEF Charted
  <2> QED BY <1>1, <1>11, <2>1, ChartedStays
<1>13. Pending(n) = Pending(me)
  <2>1. CASE me.pc = "gather"
    BY <1>10, <2>1, PendingIs
  <2>2. CASE me.calling = "upsert" /\ me.pc \in CreateSteps
    <3>1. Pending(me) = me.creating \cup me.deleted
      BY <2>2, PendingIs
    <3>2. Pending(n) = n.creating \cup n.deleted
      BY <1>10, <2>2, PendingIs
    <3> QED BY <1>10, <3>1, <3>2
  <2> QED BY <1>3, <2>1, <2>2
<1>14. ASSUME NEW f \in Files \ Pending(n)
       PROVE  \/ table'[f] = table[f] /\ Explained(clone, seen \cup n.taken, f)
              \/ table'[f].content = Version(clone, f)
  <2>1. CASE f \in me.linking
    <3>1. table[f] = [content |-> me.loaded[f], refs |-> 0]
      BY <1>5, <2>1
    <3>2. table'[f] = [content |-> me.loaded[f], refs |-> me.loaded[f]]
      BY <1>7, <1>14, <2>1, <3>1
    <3> QED BY <1>4, <2>1, <3>2 DEF Charted
  <2>2. CASE f \notin me.linking
    BY <1>4, <1>7, <1>10, <1>13, <1>14, <2>2 DEF Settled
  <2> QED BY <2>1, <2>2
<1>15. Settled(n)'
  BY <1>1, <1>11, <1>14, SettledStays
<1>16. Stage(n)' /\ n.pc # "idle"
  BY <1>3, <1>10, <1>12, <1>15 DEF Stage, MayGoBack, CreateSteps
<1> QED BY <1>1, <1>9, <1>16, StaleRun

(* Rows, through the end of a run. *)
LEMMA EndingStale ==
  ASSUME TypeInv, RefsInv, StaleInv, NEW w \in Workers,
         Delete(w) \/ Finish(w) \/ Forget(w) \/ Wipe(w) \/ Restore(w)
  PROVE  StaleInv'
<1> DEFINE me == worker[w]
<1>1. Running(w) /\ UNCHANGED history /\ Longer
      /\ me.pc \in {"delete", "done", "forget", "wipe", "restore"}
  <2>1. Running(w) /\ UNCHANGED history
        /\ me.pc \in {"delete", "done", "forget", "wipe", "restore"}
    BY DEF Delete, Finish, Forget, Wipe, Restore, Running
  <2> QED BY <2>1, Facts DEF Longer
<1>2. me \in Memory /\ Coherent(me) /\ Stage(me) /\ Grasp(me)
      /\ me.since \in Stamps /\ (me.since # Never => me.since <= Len(history))
  BY <1>1, OnStage
<1>3. ~Forget(w) /\ ~Wipe(w)
  BY <1>2 DEF Forget, Wipe, Stage
<1>4. CASE Delete(w)
  <2>1. me.pc = "delete" /\ Charted(me) /\ Settled(me) /\ me.linking = {}
        /\ UNCHANGED <<clone, lastParsed, seen>>
        /\ table' = Without(Joined(me.deleted))
    BY <1>2, <1>4 DEF Delete, Stage, Working, Grasp, CreateSteps
  <2>2. PICK n : n = [me EXCEPT !.pc = "done"]
    OBVIOUS
  <2>3. worker' = [worker EXCEPT ![w] = n]
    BY <1>4, <2>2 DEF Delete
  <2>4. n.pc = "done" /\ n.linking = {} /\ n.taken = me.taken
        /\ n.modified = me.modified /\ n.deleted = me.deleted
    BY <1>2, <2>1, <2>2, StageFields DEF Luggage
  <2>5. Charted(n)'
    <3>1. Charted(n)
      BY <2>1, <2>4 DEF Charted, CreateSteps
    <3> QED BY <1>1, <2>1, <3>1, ChartedStays
  <2>6. ASSUME NEW f \in Files
        PROVE  \/ table'[f] = table[f] /\ Explained(clone, seen \cup n.taken, f)
               \/ table'[f].content = Version(clone, f)
    <3>1. CASE f \notin me.deleted
      <4>1. f \in Files \ Pending(me)
        BY <2>1, <3>1, PendingIs
      <4>2. table'[f] = table[f]
        BY <2>1, <3>1 DEF Without, Joined
      <4> QED BY <2>1, <2>4, <4>1, <4>2 DEF Settled
    <3>2. CASE f \in me.deleted
      <4>1. Version(clone, f) = 0
        BY <2>1, <3>2 DEF Charted, Tree
      <4>2. CASE f \in Joined(me.deleted)
        BY <2>1, <4>1, <4>2 DEF Without, NoRow
      <4>3. CASE f \notin Joined(me.deleted)
        <5>1. table'[f] = table[f]
          BY <2>1, <4>3 DEF Without
        <5>2. table[f].content = 0 \/ table[f].refs = 0
          BY <3>2, <4>3 DEF Joined, HasRow
        <5> QED BY <4>1, <5>1, <5>2 DEF Explained
      <4> QED BY <4>2, <4>3
    <3> QED BY <3>1, <3>2
  <2>7. Settled(n)'
    BY <1>1, <2>1, <2>6, SettledStays
  <2>8. Stage(n)' /\ n.pc # "idle"
    BY <2>4, <2>5, <2>7 DEF Stage, MayGoBack, CreateSteps
  <2> QED BY <1>1, <2>3, <2>8, StaleRun
<1>5. CASE Finish(w)
  <2>1. me.pc = "done" /\ Charted(me) /\ Settled(me)
        /\ UNCHANGED <<clone, lastParsed, table>> /\ seen' = seen \cup me.taken
        /\ worker' = [worker EXCEPT ![w] = Idle]
    BY <1>2, <1>5 DEF Finish, Stage, Working
  <2>2. PICK c, stamp, done : c = clone /\ stamp = lastParsed /\ done = seen \cup me.taken
    OBVIOUS
  <2>3. c \in Nat /\ stamp \in Nat /\ c <= stamp /\ stamp <= Len(history) /\ stamp # Never
        /\ stamp \in 0 .. Len(history)
    BY <2>1, <2>2, Facts DEF Charted, Stamps, Count
  <2>4. done \subseteq 1 .. c
    BY <1>2, <2>2, Facts DEF Coherent
  <2>5. ASSUME NEW f \in Files PROVE Explained(stamp, done, f)'
    <3>1. Explained(c, done, f)
      BY <2>1, <2>2, PendingIs DEF Settled
    <3>2. Explained(stamp, done, f)
      BY <2>3, <2>4, <3>1, ExplainedLater
    <3> QED BY <1>1, <2>1, <2>3, <3>2, ExplainedStays DEF TypeInv
  <2>6. done = seen' /\ stamp = lastParsed'
    BY <2>1, <2>2
  <2>7. \A f \in Files : Explained(lastParsed, seen, f)'
    BY <2>5, <2>6 DEF Explained, LastTouch, Version
  <2>8. seen' \subseteq 1 .. lastParsed' /\ lastParsed' # Never
    BY <2>3, <2>4, <2>6
  <2>9. Found(lastParsed)'
    BY <2>7, <2>8 DEF Found
  <2>10. PICK n : n = Idle
    OBVIOUS
  <2>11. n.pc = "idle"
    BY <2>10 DEF Idle
  <2> QED BY <1>1, <2>1, <2>9, <2>10, <2>11, StaleRun
<1>6. CASE Restore(w)
  <2>1. me.pc = "restore" /\ UNCHANGED <<table, seen>> /\ lastParsed' = me.since
        /\ worker' = [worker EXCEPT ![w] = Idle]
    BY <1>6 DEF Restore
  <2>2. PICK stamp : stamp = me.since
    OBVIOUS
  <2>3. Found(stamp)
    BY <1>2, <2>1, <2>2 DEF Stage, MayGoBack
  <2>4. Found(stamp)'
    BY <1>1, <1>2, <2>1, <2>2, <2>3, FoundStays
  <2>5. stamp = lastParsed'
    BY <2>1, <2>2
  <2>6. Found(lastParsed)'
    BY <2>4, <2>5 DEF Found, Explained, LastTouch, Version
  <2>7. PICK n : n = Idle
    OBVIOUS
  <2>8. n.pc = "idle"
    BY <2>7 DEF Idle
  <2> QED BY <1>1, <2>1, <2>6, <2>7, <2>8, StaleRun
<1> QED BY <1>3, <1>4, <1>5, <1>6

(* Rows, through a push, which is after every stamp. *)
LEMMA PushStale ==
  ASSUME TypeInv, StaleInv, Longer,
         UNCHANGED <<clone, lastParsed, table, worker, seen>>
  PROVE  StaleInv'
<1>1. ASSUME \A v \in Workers : ~Running(v) PROVE Found(lastParsed)'
  <2>1. PICK stamp : stamp = lastParsed /\ stamp = lastParsed'
    OBVIOUS
  <2>2. stamp \in Stamps /\ (stamp # Never => stamp <= Len(history)) /\ Found(stamp)
    BY <1>1, <2>1 DEF TypeInv, TypeOK, StaleInv
  <2>3. Found(stamp)'
    BY <2>2, FoundStays
  <2> QED BY <2>1, <2>3 DEF Found, Explained, LastTouch, Version
<1>2. ASSUME NEW v \in Workers, Running(v) PROVE Stage(worker[v])'
  <2>1. PICK me : me = worker[v] /\ me = worker'[v]
    OBVIOUS
  <2>2. Stage(me) /\ me.since \in Stamps /\ (me.since # Never => me.since <= Len(history))
    BY <1>2, <2>1, Facts DEF StaleInv, Coherent, Memory
  <2>3. Stage(me)'
    BY <2>2, StageStays
  <2> QED BY <2>1, <2>3
<1>3. \A v \in Workers : Running(v)' <=> Running(v)
  BY DEF Running
<1> QED BY <1>1, <1>2, <1>3 DEF StaleInv


(* The inductive step of the rows. *)
LEMMA StaleStep ==
  ASSUME TypeInv, CalmInv, [Next]_vars
  PROVE  CalmInv'
<1> SUFFICES ASSUME Calm' PROVE RefsInv' /\ StaleInv'
  BY DEF CalmInv
<1>1. RefsInv /\ StaleInv /\ RefsInv'
  BY CalmBefore, RefsStep DEF CalmInv
<1>2. Longer
  BY HistoryGrows DEF TypeInv
<1>3. CASE UNCHANGED vars
  BY <1>1, <1>2, <1>3, PushStale DEF vars
<1>4. ASSUME NEW f \in Files, NEW kind \in {"write", "delete"},
             NEW scope \in Scopes \cup {"none"}, Push(f, kind, scope)
      PROVE  StaleInv'
  BY <1>1, <1>2, <1>4, PushStale DEF Push
<1>5. ASSUME NEW w \in Workers, Continue(w) PROVE StaleInv'
  BY <1>1, <1>5, PreparingStale, PlanFullStale, PlanChangesStale, AddingStale,
     RefusedStale, UpsertingStale, UpdatingStale, LinkStale, EndingStale DEF Continue
<1>6. ASSUME NEW w \in Workers, Begin(w) PROVE StaleInv'
  BY <1>1, <1>6, CalmBefore, PreparingStale
<1> QED BY <1>1, <1>3, <1>4, <1>5, <1>6, CalmBefore DEF Next

(***************************************************************************)
(* CalmInv is inductive, as long as runs do not overlap and nothing else   *)
(* fails.  What a run knows of the rows it changes holds, and a row whose  *)
(* references are not those of its content is in its hands.  The rows of   *)
(* the files it has not to look at any more are explained by the clone and *)
(* the commits it takes up, and a create that raises leaves behind rows    *)
(* that are explained by the stamp the run goes back to.                   *)
(***************************************************************************)
THEOREM CalmInvariant == Spec => []CalmInv
<1>1. Init => CalmInv
  <2> SUFFICES ASSUME Init PROVE RefsInv /\ StaleInv
    BY DEF CalmInv
  <2>1. \A w \in Workers : worker[w] = Idle
    BY DEF Init
  <2>2. Idle.pc = "idle" /\ Idle.linking = {}
    BY DEF Idle
  <2>3. Grasp(Idle)
    BY <2>2, HandsFree DEF CreateSteps
  <2>4. \A f \in Files : ~HasRow(f) /\ Agrees(f)
    BY DEF Init, Agrees, HasRow, NoRow
  <2>5. RefsInv
    BY <2>1, <2>2, <2>3, <2>4 DEF RefsInv, OneRuns, Running
  <2>6. Found(lastParsed)
    BY <2>4 DEF Found, Init
  <2> QED BY <2>1, <2>2, <2>5, <2>6 DEF StaleInv, Running
<1> QED BY <1>1, StaleStep, TypeInvariant, PTL DEF Spec

(***************************************************************************)
(* RefsFollowContent of the runs: between runs that did not overlap and in *)
(* which nothing else failed, a row has the references of its content.     *)
(***************************************************************************)
THEOREM RefsCorrect == Spec => []RefsFollowContent
<1>1. TypeInv /\ CalmInv => RefsFollowContent
  <2> SUFFICES ASSUME TypeInv, RefsInv, Undisturbed PROVE RefsFollowContent
    BY DEF RefsFollowContent, Undisturbed, Calm, CalmInv
  <2>1. ASSUME NEW w \in Workers, NEW f \in Files PROVE ~InHand(worker[w], f)
    <3>1. worker[w].pc = "idle"
      BY DEF Undisturbed, Running
    <3> QED BY <3>1 DEF RefsInv, Grasp, InHand, CreateSteps
  <2>2. \A f \in Files : Agrees(f)
    BY <2>1 DEF RefsInv
  <2> QED BY <2>2 DEF RefsFollowContent, Agrees
<1> QED BY <1>1, TypeInvariant, CalmInvariant, PTL

(***************************************************************************)
(* StaleIsExplained of the runs: between runs that did not overlap and in  *)
(* which nothing else failed, a row is that of the stamp, or the last      *)
(* commit to its file was carried through by no run, or the file is gone   *)
(* and its row has no references or an earlier commit was not carried      *)
(* through.                                                                *)
(***************************************************************************)
THEOREM StaleCorrect == Spec => []StaleIsExplained
<1>1. TypeInv /\ CalmInv => StaleIsExplained
  <2> SUFFICES ASSUME TypeInv, CalmInv, Undisturbed, lastParsed # Never, NEW f \in Files
               PROVE  \/ table[f].content = Version(lastParsed, f)
                      \/ LastTouch(lastParsed, f) \cap Missed(f) # {}
                      \/ /\ Version(lastParsed, f) = 0
                         /\ table[f].refs = 0 \/ Missed(f) # {}
    BY DEF StaleIsExplained
  <2>1. Explained(lastParsed, seen, f)
    BY DEF CalmInv, Calm, Undisturbed, StaleInv, Found
  <2>2. \A i \in LastTouch(lastParsed, f) : i \notin seen => i \in Missed(f)
    BY DEF LastTouch, Missed
  <2>3. \A i \in 1 .. lastParsed : history[i].file = f /\ i \notin seen => i \in Missed(f)
    BY DEF Missed
  <2> QED BY <2>1, <2>2, <2>3 DEF Explained
<1> QED BY <1>1, TypeInvariant, CalmInvariant, PTL
=============================================================================
