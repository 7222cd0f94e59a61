-------------------------- MODULE RoleAccessProofs --------------------------
(***************************************************************************)
(* Proofs about RoleAccess, for any roles, users, groups and contents of   *)
(* the repository, and any number of overlapping tasks.                    *)
(***************************************************************************)
EXTENDS RoleAccess, FiniteSetTheorems, TLAPS

-----------------------------------------------------------------------------
(* Finite sets, and a new id. *)

(* The values a function takes on a finite set are finitely many. *)
LEMMA FiniteImage ==
  ASSUME NEW S, IsFiniteSet(S), NEW f, f = [x \in S |-> f[x]]
  PROVE  IsFiniteSet({f[x] : x \in S})
<1> DEFINE T == {f[x] : x \in S}
<1>1. f \in Surjection(S, T)
  BY DEF Surjection
<1> QED BY <1>1, FS_Surjection

(* There is an id that is not in use, and it is not 0. *)
LEMMA FreshIsNew ==
  ASSUME NEW used, IsFiniteSet(used)
  PROVE  Fresh(used) \in Nat \ {0} /\ Fresh(used) \notin used
<1> DEFINE k == Cardinality(used)
<1>1. k \in Nat
  BY FS_CardinalityType
<1>2. IsFiniteSet(1 .. k + 1) /\ Cardinality(1 .. k + 1) = k + 1
  <2>1. 1 \in Int /\ k + 1 \in Int
    BY <1>1
  <2>2. /\ IsFiniteSet(1 .. k + 1)
        /\ Cardinality(1 .. k + 1) = IF 1 > k + 1 THEN 0 ELSE (k + 1) - 1 + 1
    BY <2>1, FS_Interval
  <2> QED BY <1>1, <2>2
<1>3. \E n \in 1 .. k + 1 : n \notin used
  <2> SUFFICES ASSUME 1 .. k + 1 \subseteq used PROVE FALSE
    OBVIOUS
  <2>1. Cardinality(1 .. k + 1) <= k
    BY FS_Subset
  <2> QED BY <1>1, <1>2, <2>1
<1>4. Fresh(used) \in 1 .. k + 1 /\ Fresh(used) \notin used
  BY <1>3 DEF Fresh
<1> QED BY <1>1, <1>4

(* The ids of a role that somebody may still hold are finitely many. *)
LEMMA HeldIsFinite ==
  ASSUME TypeOK, FiniteInv, NEW r \in Roles
  PROVE  IsFiniteSet(Held(r))
<1> DEFINE removes == [w \in Workers |-> task[w].remove[r]]
           roles == [w \in Workers |-> task[w].roles[r]]
           rows(w) == {b \in task[w].left : b.role = r}
           rids == [w \in Workers |-> {a.rid : a \in rows(w)}]
<1>1. IsFiniteSet({removes[w] : w \in Workers})
  BY FiniteImage, FiniteAssumption
<1>2. IsFiniteSet({roles[w] : w \in Workers})
  BY FiniteImage, FiniteAssumption
<1>3. ASSUME NEW w \in Workers PROVE IsFiniteSet({a.rid : a \in rows(w)})
  <2> DEFINE f == [a \in rows(w) |-> a.rid]
  <2>1. IsFiniteSet(task[w].left) /\ rows(w) \in SUBSET task[w].left
    BY DEF FiniteInv
  <2>2. IsFiniteSet(rows(w))
    BY <2>1, FS_Subset
  <2>3. IsFiniteSet({f[a] : a \in rows(w)})
    BY <2>2, FiniteImage
  <2>4. {f[a] : a \in rows(w)} = {a.rid : a \in rows(w)}
    OBVIOUS
  <2> QED BY <2>3, <2>4
<1>4. IsFiniteSet({rids[w] : w \in Workers})
  BY ZenonT(30), FiniteImage, FiniteAssumption
<1>5. \A T \in {rids[w] : w \in Workers} : IsFiniteSet(T)
  BY <1>3
<1>6. IsFiniteSet(UNION {rids[w] : w \in Workers})
  BY <1>4, <1>5, FS_UNION
<1>7. IsFiniteSet({identity[r]})
  BY FS_Singleton
<1>8. /\ {removes[w] : w \in Workers} = {task[w].remove[r] : w \in Workers}
      /\ {roles[w] : w \in Workers} = {task[w].roles[r] : w \in Workers}
      /\ {rids[w] : w \in Workers} =
           {{a.rid : a \in {b \in task[w].left : b.role = r}} : w \in Workers}
  OBVIOUS
<1>9. IsFiniteSet({identity[r]} \cup {removes[w] : w \in Workers})
  BY <1>1, <1>7, FS_Union
<1>10. IsFiniteSet({identity[r]} \cup {removes[w] : w \in Workers}
                     \cup {roles[w] : w \in Workers})
  BY <1>2, <1>9, FS_Union
<1>11. IsFiniteSet(({identity[r]} \cup {removes[w] : w \in Workers}
                     \cup {roles[w] : w \in Workers})
                     \cup UNION {rids[w] : w \in Workers})
  BY <1>6, <1>10, FS_Union
<1> HIDE DEF removes, roles, rids
<1> QED BY <1>8, <1>11 DEF Held

(* So are the ids of a name. *)
LEMMA KnownIsFinite ==
  ASSUME TypeOK, FiniteInv, NEW g \in Grantees
  PROVE  IsFiniteSet(Known(g))
<1> DEFINE peoples == [w \in Workers |-> task[w].people[g]]
           lefts == [w \in Workers |-> task[w].left]
           all == access \cup UNION {lefts[w] : w \in Workers}
           rows == {b \in all : b.who = g}
           pids == [a \in rows |-> a.pid]
<1>1. IsFiniteSet({peoples[w] : w \in Workers})
  BY FiniteImage, FiniteAssumption
<1>2. IsFiniteSet({lefts[w] : w \in Workers})
  BY FiniteImage, FiniteAssumption
<1>3. \A T \in {lefts[w] : w \in Workers} : IsFiniteSet(T)
  BY DEF FiniteInv
<1>4. IsFiniteSet(UNION {lefts[w] : w \in Workers}) /\ IsFiniteSet(access)
  BY <1>2, <1>3, FS_UNION DEF FiniteInv
<1>5. IsFiniteSet(all)
  BY <1>4, FS_Union
<1>6. IsFiniteSet(rows)
  BY <1>5, FS_Subset
<1>7. rows = {b \in access \cup UNION {task[w].left : w \in Workers} : b.who = g}
  OBVIOUS
<1> HIDE DEF rows
<1>8. IsFiniteSet({pids[a] : a \in rows})
  BY <1>6, FiniteImage
<1>9. /\ {peoples[w] : w \in Workers} = {task[w].people[g] : w \in Workers}
      /\ {pids[a] : a \in rows} = {a.pid : a \in rows}
  OBVIOUS
<1>10. IsFiniteSet({people[g]} \cup {peoples[w] : w \in Workers})
  BY <1>1, FS_Singleton, FS_Union
<1>11. IsFiniteSet(({people[g]} \cup {peoples[w] : w \in Workers})
                      \cup {pids[a] : a \in rows})
  BY <1>8, <1>10, FS_Union
<1> HIDE DEF peoples, pids
<1> QED BY <1>7, <1>9, <1>11 DEF Known

-----------------------------------------------------------------------------
(* The rows, and the steps of a task that only change what it holds. *)

(* An idle task holds nothing. *)
LEMMA BlankType ==
  Blank \in Memory /\ Blank.pc = "idle" /\ Blank.left = {}
BY DEF Blank, Memory, Stages, Rules

(* A step of one task leaves to the others what they hold. *)
LEMMA TaskStep ==
  ASSUME RowInv, NEW w \in Workers, NEW n \in Memory,
         task' = [task EXCEPT ![w] = n], n.pc # "upsert", IsFiniteSet(n.left)
  PROVE  /\ task' \in [Workers -> Memory] /\ StruckInv'
         /\ \A v \in Workers : IsFiniteSet(task'[v].left)
<1>1. task \in [Workers -> Memory] /\ StruckInv
      /\ \A v \in Workers : IsFiniteSet(task[v].left)
  BY DEF RowInv, TypeOK, FiniteInv
<1>2. task' \in [Workers -> Memory] /\ task'[w] = n
      /\ \A v \in Workers \ {w} : task'[v] = task[v]
  BY <1>1
<1>3. ASSUME NEW v \in Workers, task'[v].pc = "upsert"
      PROVE  task'[v] = task[v]
  BY <1>2, <1>3
<1>4. StruckInv'
  BY <1>1, <1>3 DEF StruckInv, At, Named, Pairs
<1>5. \A v \in Workers : IsFiniteSet(task'[v].left)
  BY <1>1, <1>2
<1> QED BY <1>2, <1>4, <1>5

(* What is typed besides the tasks. *)
Counted ==
  /\ clone \in Contents /\ alone \subseteq Workers
  /\ pulls \in 0 .. MaxPulls /\ moves \in 0 .. MaxPeople /\ faults \in 0 .. MaxFaults

(* A step that changes one task, and no table. *)
LEMMA LocalStep ==
  ASSUME RowInv, NEW w \in Workers, NEW n \in Memory,
         task' = [task EXCEPT ![w] = n], n.pc # "upsert", IsFiniteSet(n.left),
         UNCHANGED <<people, identity, access>>, Counted'
  PROVE  RowInv'
<1>1. /\ task' \in [Workers -> Memory] /\ StruckInv'
      /\ \A v \in Workers : IsFiniteSet(task'[v].left)
  BY TaskStep
<1>2. TypeOK'
  BY <1>1 DEF RowInv, TypeOK, Counted
<1>3. RowsInv' /\ FiniteInv'
  BY <1>1 DEF RowInv, RowsInv, FiniteInv
<1> QED BY <1>1, <1>2, <1>3 DEF RowInv

(* A step that changes no task. *)
LEMMA OutsideStep ==
  ASSUME RowInv, UNCHANGED <<task, identity, access>>,
         people' \in [Grantees -> Nat], Counted'
  PROVE  RowInv'
<1>1. TypeOK'
  BY DEF RowInv, TypeOK, Counted
<1>2. RowsInv' /\ FiniteInv' /\ StruckInv'
  BY DEF RowInv, RowsInv, FiniteInv, StruckInv, At, Named, Pairs
<1> QED BY <1>1, <1>2 DEF RowInv

(* What the invariant says of all that. *)
LEMMA Counts == RowInv => Counted
BY DEF RowInv, TypeOK, Counted

(* The steps that take up a task, read, or give it up. *)
LEMMA ReadStep ==
  ASSUME RowInv, NEW w \in Workers,
         \/ Start(w) \/ LoadMapping(w) \/ ReadKnown(w) \/ LoadRules(w)
         \/ ReadPeople(w) \/ ReadRoles(w) \/ Raise(w) \/ Die(w)
  PROVE  RowInv'
<1>1. task[w] \in Memory /\ IsFiniteSet(task[w].left)
      /\ identity \in [Roles -> Nat] /\ people \in [Grantees -> Nat]
      /\ clone \in Contents
  BY DEF RowInv, TypeOK, FiniteInv
<1>2. task[w].rules \in Rules /\ task[w].left \in SUBSET Row
  BY <1>1 DEF Memory
<1>3. clone # Broken => clone \in Rules
  BY <1>1, ContentsAssumption
<1>4. IsFiniteSet({})
  BY FS_EmptySet
<1> USE BlankType, Counts
<1>5. ASSUME Start(w) PROVE RowInv'
  <2>1. PICK n : n = [Blank EXCEPT !.pc = "mapping"]
    OBVIOUS
  <2>2. n \in Memory /\ n.pc = "mapping" /\ n.left = {}
    BY <2>1 DEF Memory, Stages
  <2>3. task' = [task EXCEPT ![w] = n] /\ UNCHANGED <<people, identity, access>>
    BY <1>5, <2>1 DEF Start
  <2>4. Counted'
    BY <1>5 DEF Start, Counted
  <2> QED BY <1>4, <2>2, <2>3, <2>4, LocalStep
<1>6. ASSUME LoadMapping(w) PROVE RowInv'
  <2>1. UNCHANGED <<people, identity, access>> /\ Counted'
    BY <1>6 DEF LoadMapping, Counted
  <2>2. CASE clone = Broken
    <3>1. PICK n : n = [task[w] EXCEPT !.pc = "rules"]
      OBVIOUS
    <3>2. n \in Memory /\ n.pc = "rules" /\ n.left = task[w].left
      BY <1>1, <3>1 DEF Memory, Stages
    <3>3. task' = [task EXCEPT ![w] = n]
      BY <1>6, <2>2, <3>1 DEF LoadMapping, Goto
    <3> QED BY <1>1, <2>1, <3>2, <3>3, LocalStep
  <2>3. CASE clone # Broken
    <3>1. PICK n : n = [task[w] EXCEPT !.pc = "known", !.rules = clone]
      OBVIOUS
    <3>2. n \in Memory /\ n.pc = "known" /\ n.left = task[w].left
      BY <1>1, <1>3, <2>3, <3>1 DEF Memory, Stages
    <3>3. task' = [task EXCEPT ![w] = n]
      BY <1>6, <2>3, <3>1 DEF LoadMapping
    <3> QED BY <1>1, <2>1, <3>2, <3>3, LocalStep
  <2> QED BY <2>2, <2>3
<1>7. ASSUME ReadKnown(w) PROVE RowInv'
  <2>1. UNCHANGED <<people, identity, access>> /\ Counted'
    BY <1>7 DEF ReadKnown, Counted
  <2>2. PICK n : n = [task[w] EXCEPT !.pc = "drop",
                        !.remove = [r \in Roles |-> IF task[w].rules[r] = None
                                                    THEN identity[r] ELSE 0]]
    OBVIOUS
  <2>3. n \in Memory /\ n.pc = "drop" /\ n.left = task[w].left
    BY <1>1, <2>2 DEF Memory, Stages
  <2>4. task' = [task EXCEPT ![w] = n]
    BY <1>7, <2>2 DEF ReadKnown
  <2> QED BY <1>1, <2>1, <2>3, <2>4, LocalStep
<1>8. ASSUME LoadRules(w) PROVE RowInv'
  <2>1. UNCHANGED <<people, identity, access>> /\ Counted'
    BY <1>8 DEF LoadRules, Counted
  <2>2. CASE clone = Broken
    <3>1. task' = [task EXCEPT ![w] = Blank]
      BY <1>8, <2>2 DEF LoadRules
    <3> QED BY <1>4, <2>1, <3>1, LocalStep
  <2>3. CASE clone # Broken
    <3>1. PICK n : n = [task[w] EXCEPT !.pc = "people", !.rules = clone]
      OBVIOUS
    <3>2. n \in Memory /\ n.pc = "people" /\ n.left = task[w].left
      BY <1>1, <1>3, <2>3, <3>1 DEF Memory, Stages
    <3>3. task' = [task EXCEPT ![w] = n]
      BY <1>8, <2>3, <3>1 DEF LoadRules
    <3> QED BY <1>1, <2>1, <3>2, <3>3, LocalStep
  <2> QED BY <2>2, <2>3
<1>9. ASSUME ReadPeople(w) PROVE RowInv'
  <2>1. UNCHANGED <<people, identity, access>> /\ Counted'
    BY <1>9 DEF ReadPeople, Counted
  <2>2. PICK page : task' = [task EXCEPT ![w].pc = "roles",
          ![w].people = [g \in Grantees |-> IF g \in page THEN people[g] ELSE 0]]
    BY <1>9 DEF ReadPeople
  <2>3. PICK n : n = [task[w] EXCEPT !.pc = "roles",
                        !.people = [g \in Grantees |-> IF g \in page THEN people[g] ELSE 0]]
    OBVIOUS
  <2>4. n \in Memory /\ n.pc = "roles" /\ n.left = task[w].left
    BY <1>1, <2>3 DEF Memory, Stages
  <2>5. task' = [task EXCEPT ![w] = n]
    BY <2>2, <2>3
  <2> QED BY <1>1, <2>1, <2>4, <2>5, LocalStep
<1>10. ASSUME ReadRoles(w) PROVE RowInv'
  <2>1. UNCHANGED <<people, identity, access>> /\ Counted'
    BY <1>10 DEF ReadRoles, Counted
  <2>2. PICK n : n = [task[w] EXCEPT !.pc = "list", !.roles = identity]
    OBVIOUS
  <2>3. n \in Memory /\ n.pc = "list" /\ n.left = task[w].left
    BY <1>1, <2>2 DEF Memory, Stages
  <2>4. task' = [task EXCEPT ![w] = n]
    BY <1>10, <2>2 DEF ReadRoles
  <2> QED BY <1>1, <2>1, <2>3, <2>4, LocalStep
<1>11. ASSUME Raise(w) \/ Die(w) PROVE RowInv'
  <2>1. UNCHANGED <<people, identity, access>> /\ Counted'
    BY <1>11, SizesAssumption DEF Raise, Die, Counted
  <2>2. CASE task' = [task EXCEPT ![w] = Blank]
    BY <1>4, <2>1, <2>2, LocalStep
  <2>3. CASE Goto(w, "rules")
    <3>1. PICK n : n = [task[w] EXCEPT !.pc = "rules"]
      OBVIOUS
    <3>2. n \in Memory /\ n.pc = "rules" /\ n.left = task[w].left
      BY <1>1, <3>1 DEF Memory, Stages
    <3>3. task' = [task EXCEPT ![w] = n]
      BY <2>3, <3>1 DEF Goto
    <3> QED BY <1>1, <2>1, <3>2, <3>3, LocalStep
  <2> QED BY <1>11, <2>2, <2>3 DEF Raise, Die
<1> QED BY <1>5, <1>6, <1>7, <1>8, <1>9, <1>10, <1>11

-----------------------------------------------------------------------------
(* The steps that write the tables. *)

(* A role goes with its rows. *)
LEMMA DropRolesStep ==
  ASSUME RowInv, NEW w \in Workers, DropRoles(w)
  PROVE  RowInv'
<1> DEFINE gone == {r \in Roles : identity[r] # 0 /\ identity[r] = task[w].remove[r]}
<1>1. /\ task[w] \in Memory /\ IsFiniteSet(task[w].left) /\ IsFiniteSet(access)
      /\ identity \in [Roles -> Nat] /\ access \subseteq Row
      /\ \A a \in access : a.rid = identity[a.role] /\ identity[a.role] # 0
      /\ \A a, b \in access :
           a.rid = b.rid /\ a.role = b.role /\ a.pid = b.pid /\ a.who = b.who => a = b
  BY DEF RowInv, TypeOK, FiniteInv, RowsInv
<1>2. PICK n : n = [task[w] EXCEPT !.pc = "add"]
  OBVIOUS
<1>3. n \in Memory /\ n.pc = "add" /\ n.left = task[w].left
  BY <1>1, <1>2 DEF Memory, Stages
<1>4. /\ task' = [task EXCEPT ![w] = n] /\ UNCHANGED people
      /\ identity' = [r \in Roles |-> IF r \in gone THEN 0 ELSE identity[r]]
      /\ access' = {a \in access : a.role \notin gone}
      /\ Counted'
  BY <1>2, Counts DEF DropRoles, Goto, Counted
<1>5. /\ task' \in [Workers -> Memory] /\ StruckInv'
      /\ \A v \in Workers : IsFiniteSet(task'[v].left)
  BY <1>1, <1>3, <1>4, TaskStep
<1>6. identity' \in [Roles -> Nat]
  BY <1>1, <1>4
<1>7. access' \subseteq access
  BY <1>4
<1>8. IsFiniteSet(access')
  BY <1>1, <1>7, FS_Subset
<1>9. \A a \in access' : a.rid = identity'[a.role] /\ identity'[a.role] # 0
  BY <1>1, <1>4 DEF Row
<1>10. TypeOK'
  <2>1. people' \in [Grantees -> Nat]
    BY <1>4 DEF RowInv, TypeOK
  <2> QED BY <1>1, <1>4, <1>5, <1>6, <1>7, <1>9, <2>1 DEF TypeOK, Counted
<1> QED BY <1>5, <1>8, <1>9, <1>10 DEF RowInv, RowsInv, FiniteInv

(* A role that is new has no rows yet. *)
LEMMA AddRolesStep ==
  ASSUME RowInv, NEW w \in Workers, AddRoles(w)
  PROVE  RowInv'
<1>1. /\ task[w] \in Memory /\ IsFiniteSet(task[w].left) /\ IsFiniteSet(access)
      /\ identity \in [Roles -> Nat] /\ access \subseteq Row
      /\ \A a \in access : a.rid = identity[a.role] /\ identity[a.role] # 0
  BY DEF RowInv, TypeOK, FiniteInv, RowsInv
<1>2. PICK n : n = [task[w] EXCEPT !.pc = "rules"]
  OBVIOUS
<1>3. n \in Memory /\ n.pc = "rules" /\ n.left = task[w].left
  BY <1>1, <1>2 DEF Memory, Stages
<1>4. /\ task' = [task EXCEPT ![w] = n] /\ UNCHANGED <<people, access>>
      /\ identity' = [r \in Roles |-> IF task[w].rules[r] # None /\ identity[r] = 0
                                      THEN Fresh(Held(r)) ELSE identity[r]]
      /\ Counted'
  BY <1>2, Counts DEF AddRoles, Goto, Counted
<1>5. /\ task' \in [Workers -> Memory] /\ StruckInv'
      /\ \A v \in Workers : IsFiniteSet(task'[v].left)
  BY <1>1, <1>3, <1>4, TaskStep
<1>6. \A r \in Roles : Fresh(Held(r)) \in Nat
  BY HeldIsFinite, FreshIsNew DEF RowInv
<1>7. identity' \in [Roles -> Nat]
  BY <1>1, <1>4, <1>6
<1>8. \A a \in access : identity'[a.role] = identity[a.role]
  BY <1>1, <1>4 DEF Row
<1>9. TypeOK'
  BY <1>1, <1>4, <1>5, <1>7, <1>8 DEF RowInv, TypeOK, Counted
<1>10. RowsInv' /\ FiniteInv'
  BY <1>1, <1>4, <1>5, <1>8 DEF RowsInv, FiniteInv
<1> QED BY <1>5, <1>9, <1>10 DEF RowInv

(* All rows are listed, and nothing is struck yet. *)
LEMMA ListAccessStep ==
  ASSUME RowInv, NEW w \in Workers, ListAccess(w)
  PROVE  RowInv'
<1> DEFINE todo == {r \in Roles : task[w].rules[r] # None}
<1>1. task \in [Workers -> Memory] /\ IsFiniteSet(access) /\ access \subseteq Row
      /\ \A v \in Workers : IsFiniteSet(task[v].left)
  BY DEF RowInv, TypeOK, FiniteInv
<1>2. PICK n : n = [task[w] EXCEPT !.pc = "upsert", !.left = access, !.todo = todo]
  OBVIOUS
<1>3. /\ n \in Memory /\ n.rules = task[w].rules
      /\ n.left = access /\ n.todo = todo
  BY <1>1, <1>2 DEF Memory, Stages
<1>4. /\ task' = [task EXCEPT ![w] = n]
      /\ UNCHANGED <<people, identity, access>> /\ Counted'
  BY <1>2, Counts DEF ListAccess, Counted
<1>5. task' \in [Workers -> Memory] /\ task'[w] = n
      /\ \A v \in Workers \ {w} : task'[v] = task[v]
  BY <1>1, <1>3, <1>4
<1>6. StruckInv'
  <2> SUFFICES ASSUME NEW v \in Workers, task'[v].pc = "upsert"
               PROVE  /\ \A r \in task'[v].todo : task'[v].rules[r] # None
                      /\ \A r \in Roles \ task'[v].todo : task'[v].rules[r] # None =>
                           \A g \in Named(v, r)' : Pairs(task[v].left, v, r, g)' = {}
    BY DEF StruckInv, At
  <2>1. CASE v = w
    BY <1>3, <1>5, <2>1
  <2>2. CASE v # w
    <3>1. task'[v] = task[v]
      BY <1>5, <2>2
    <3> QED BY <3>1 DEF RowInv, StruckInv, At, Named, Pairs
  <2> QED BY <2>1, <2>2
<1>7. TypeOK'
  BY <1>4, <1>5 DEF RowInv, TypeOK, Counted
<1>8. RowsInv' /\ FiniteInv'
  BY <1>1, <1>3, <1>4, <1>5 DEF RowInv, RowsInv, FiniteInv
<1> QED BY <1>6, <1>7, <1>8 DEF RowInv

(* What is left on the list is deleted. *)
LEMMA DropAccessStep ==
  ASSUME RowInv, NEW w \in Workers, DropAccess(w)
  PROVE  RowInv'
<1>1. access' \subseteq access /\ task' = [task EXCEPT ![w] = Blank]
      /\ UNCHANGED <<people, identity>> /\ Counted'
  BY Counts DEF DropAccess, Counted
<1>2. IsFiniteSet({})
  BY FS_EmptySet
<1>3. /\ task' \in [Workers -> Memory] /\ StruckInv'
      /\ \A v \in Workers : IsFiniteSet(task'[v].left)
  BY <1>1, <1>2, BlankType, TaskStep
<1>4. IsFiniteSet(access')
  BY <1>1, FS_Subset DEF RowInv, FiniteInv
<1>5. TypeOK'
  BY <1>1, <1>3 DEF RowInv, TypeOK, Counted
<1> QED BY <1>1, <1>3, <1>4, <1>5 DEF RowInv, RowsInv, FiniteInv

(* The repository changes, and people come and go. *)
LEMMA AroundStep ==
  ASSUME RowInv,
         \/ \E c \in Contents : Pull(c)
         \/ \E g \in Grantees : Create(g) \/ Delete(g)
  PROVE  RowInv'
<1>1. people \in [Grantees -> Nat] /\ Counted
  BY Counts DEF RowInv, TypeOK
<1>2. ASSUME NEW c \in Contents, Pull(c) PROVE RowInv'
  BY <1>1, <1>2, SizesAssumption, OutsideStep DEF Pull, Counted
<1>3. ASSUME NEW g \in Grantees, Create(g) PROVE RowInv'
  <2>1. Fresh(Known(g)) \in Nat
    BY KnownIsFinite, FreshIsNew DEF RowInv
  <2>2. people' \in [Grantees -> Nat]
    BY <1>1, <1>3, <2>1 DEF Create
  <2>3. UNCHANGED <<task, identity, access>> /\ Counted'
    BY <1>1, <1>3, SizesAssumption DEF Create, Counted
  <2> QED BY <2>2, <2>3, OutsideStep
<1>4. ASSUME NEW g \in Grantees, Delete(g) PROVE RowInv'
  <2>1. people' \in [Grantees -> Nat]
    BY <1>1, <1>4 DEF Delete
  <2>2. UNCHANGED <<task, identity, access>> /\ Counted'
    BY <1>1, <1>4, SizesAssumption DEF Delete, Counted
  <2> QED BY <2>1, <2>2, OutsideStep
<1> QED BY <1>2, <1>3, <1>4

-----------------------------------------------------------------------------
(* The rows of one template. *)

(* Who a rule names is a user or group the task has found, with the role. *)
LEMMA NamedType ==
  ASSUME RowInv, NEW w \in Workers, NEW r \in Roles, task[w].rules[r] # None,
         NEW g \in Named(w, r)
  PROVE  /\ g \in Grantees /\ g \in task[w].rules[r]
         /\ task[w].roles[r] \in Nat \ {0} /\ task[w].people[g] \in Nat \ {0}
<1>1. task[w] \in Memory
  BY DEF RowInv, TypeOK
<1>2. task[w].rules[r] \in SUBSET Grantees
  BY <1>1 DEF Memory, Rules
<1>3. task[w].roles[r] # 0 /\ g \in task[w].rules[r] /\ task[w].people[g] # 0
  BY DEF Named
<1> QED BY <1>1, <1>2, <1>3 DEF Memory

(* The row that is inserted for it. *)
LEMMA NewRowType ==
  ASSUME RowInv, NEW w \in Workers, NEW r \in Roles, task[w].rules[r] # None,
         NEW g \in Named(w, r)
  PROVE  /\ NewRow(w, r, g) \in Row
         /\ NewRow(w, r, g).role = r /\ NewRow(w, r, g).rid = task[w].roles[r]
         /\ NewRow(w, r, g).who = g /\ NewRow(w, r, g).pid = task[w].people[g]
<1> DEFINE pairs == [v \in Workers |-> Pairs(task[v].left, w, r, g)]
           all == UNION {pairs[v] : v \in Workers}
           ids == [a \in all |-> a.id]
<1>1. g \in Grantees /\ task[w].roles[r] \in Nat /\ task[w].people[g] \in Nat
  BY NamedType
<1>2. \A v \in Workers : IsFiniteSet(Pairs(task[v].left, w, r, g))
  BY FS_Subset DEF RowInv, FiniteInv, Pairs
<1>3. IsFiniteSet({pairs[v] : v \in Workers})
  BY FiniteImage, FiniteAssumption
<1>4. \A T \in {pairs[v] : v \in Workers} : IsFiniteSet(T)
  BY <1>2
<1>5. IsFiniteSet(all)
  BY <1>3, <1>4, FS_UNION
<1>6. all = UNION {Pairs(task[v].left, w, r, g) : v \in Workers}
  OBVIOUS
<1> HIDE DEF all
<1>7. IsFiniteSet({ids[a] : a \in all})
  BY <1>5, FiniteImage
<1>8. {ids[a] : a \in all} = {a.id : a \in all}
  OBVIOUS
<1>9. Fresh({a.id : a \in all}) \in Nat
  BY <1>7, <1>8, FreshIsNew
<1>10. NewRow(w, r, g) = [id |-> Fresh({a.id : a \in all}), role |-> r,
                          rid |-> task[w].roles[r], who |-> g, pid |-> task[w].people[g]]
  BY <1>6 DEF NewRow
<1> QED BY <1>1, <1>9, <1>10 DEF Row

(* A template is taken over: its rows are there, and on no list any more. *)
UpsertRows(w, r, n) ==
  /\ n = [task[w] EXCEPT !.todo = @ \ {r},
            !.left = {a \in @ : ~\E g \in Named(w, r) : a \in Pairs({a}, w, r, g)}]
  /\ task' = [task EXCEPT ![w] = n]
  /\ access' = access \cup {NewRow(w, r, g) :
                  g \in {h \in Named(w, r) : Pairs(access, w, r, h) = {}}}

(* What the task holds after it: the rows it has found are struck off. *)
LEMMA UpsertMemory ==
  ASSUME RowInv, NEW w \in Workers, NEW r \in Roles, At(w, "upsert"),
         NEW n, UpsertRows(w, r, n)
  PROVE  /\ n \in Memory /\ n.pc = "upsert" /\ n.rules = task[w].rules
         /\ n.roles = task[w].roles /\ n.people = task[w].people
         /\ n.todo = task[w].todo \ {r} /\ n.left \subseteq task[w].left
         /\ \A g \in Named(w, r), a \in n.left : a \notin Pairs({a}, w, r, g)
         /\ \A a \in task[w].left : a \notin n.left =>
              \E g \in Named(w, r) : a \in Pairs({a}, w, r, g)
<1> DEFINE left == {a \in task[w].left : ~\E g \in Named(w, r) : a \in Pairs({a}, w, r, g)}
<1>1. task[w] \in Memory
  BY DEF RowInv, TypeOK
<1>2. n = [task[w] EXCEPT !.todo = task[w].todo \ {r}, !.left = left]
  BY <1>1 DEF UpsertRows, Memory
<1>3. /\ left \subseteq task[w].left
      /\ \A g \in Named(w, r), a \in left : a \notin Pairs({a}, w, r, g)
      /\ \A a \in task[w].left : a \notin left =>
           \E g \in Named(w, r) : a \in Pairs({a}, w, r, g)
  OBVIOUS
<1> HIDE DEF left
<1>4. /\ n \in Memory /\ n.pc = task[w].pc /\ n.rules = task[w].rules
      /\ n.roles = task[w].roles /\ n.people = task[w].people
      /\ n.todo = task[w].todo \ {r} /\ n.left = left
  BY <1>1, <1>2, <1>3 DEF Memory
<1>5. n.left \subseteq task[w].left
      /\ \A g \in Named(w, r), a \in n.left : a \notin Pairs({a}, w, r, g)
  BY <1>3, <1>4
<1>6. \A a \in task[w].left : a \notin n.left =>
        \E g \in Named(w, r) : a \in Pairs({a}, w, r, g)
  <2> SUFFICES ASSUME NEW a \in task[w].left, a \notin n.left
               PROVE  \E g \in Named(w, r) : a \in Pairs({a}, w, r, g)
    OBVIOUS
  <2> QED BY <1>4 DEF left
<1> QED BY <1>4, <1>5, <1>6 DEF At

(* The rows after it: each role and holder has one. *)
LEMMA UpsertAccess ==
  ASSUME RowInv, NEW w \in Workers, NEW r \in Roles, task[w].rules[r] # None,
         Named(w, r) # {} => identity[r] = task[w].roles[r],
         NEW n, UpsertRows(w, r, n)
  PROVE  /\ access \subseteq access' /\ access' \subseteq Row /\ IsFiniteSet(access')
         /\ \A a \in access' : a.rid = identity[a.role] /\ identity[a.role] # 0
         /\ \A a, b \in access' :
              a.rid = b.rid /\ a.role = b.role /\ a.pid = b.pid /\ a.who = b.who => a = b
         /\ \A a \in access' \ access :
              /\ a.role = r /\ a.rid = task[w].roles[r]
              /\ a.who \in Named(w, r) /\ a.pid = task[w].people[a.who]
         /\ \A g \in Named(w, r) : \E a \in access' : a \in Pairs({a}, w, r, g)
<1> DEFINE H == {h \in Named(w, r) : Pairs(access, w, r, h) = {}}
           new == {NewRow(w, r, g) : g \in H}
           f == [g \in H |-> NewRow(w, r, g)]
<1>1. /\ access \subseteq Row /\ IsFiniteSet(access)
      /\ \A a \in access : a.rid = identity[a.role] /\ identity[a.role] # 0
      /\ \A a, b \in access :
           a.rid = b.rid /\ a.role = b.role /\ a.pid = b.pid /\ a.who = b.who => a = b
  BY DEF RowInv, TypeOK, RowsInv, FiniteInv
<1>2. access' = access \cup new
  BY DEF UpsertRows
<1>3. \A g \in Named(w, r) :
        /\ g \in Grantees /\ task[w].roles[r] # 0
        /\ NewRow(w, r, g) \in Row
        /\ NewRow(w, r, g).role = r /\ NewRow(w, r, g).rid = task[w].roles[r]
        /\ NewRow(w, r, g).who = g /\ NewRow(w, r, g).pid = task[w].people[g]
  BY NamedType, NewRowType
<1>4. IsFiniteSet(new)
  <2>1. IsFiniteSet(H)
    BY <1>3, FS_Subset, FiniteAssumption
  <2>2. {f[g] : g \in H} = new
    OBVIOUS
  <2> HIDE DEF H
  <2>3. IsFiniteSet({f[g] : g \in H})
    BY <2>1, FiniteImage
  <2> QED BY <2>2, <2>3
<1>5. IsFiniteSet(access')
  BY <1>1, <1>2, <1>4, FS_Union
<1>6. \A a \in new : \E g \in Named(w, r) :
        /\ Pairs(access, w, r, g) = {} /\ a = NewRow(w, r, g)
  OBVIOUS
<1>7. \A a \in new :
        /\ a \in Row /\ a.role = r /\ a.rid = task[w].roles[r] /\ a.who \in Named(w, r)
        /\ a.pid = task[w].people[a.who] /\ Pairs(access, w, r, a.who) = {}
        /\ a = NewRow(w, r, a.who) /\ identity[r] = task[w].roles[r]
        /\ task[w].roles[r] # 0
  BY <1>3, <1>6
<1>8. \A g \in H : NewRow(w, r, g) \in new
  OBVIOUS
<1> HIDE DEF new
<1>9. \A a, b \in access' :
        a.rid = b.rid /\ a.role = b.role /\ a.pid = b.pid /\ a.who = b.who => a = b
  <2> SUFFICES ASSUME NEW a \in access', NEW b \in access', a.rid = b.rid,
                      a.role = b.role, a.pid = b.pid, a.who = b.who
               PROVE  a = b
    OBVIOUS
  <2>1. ASSUME NEW x \in access, NEW y \in new,
               x.rid = y.rid, x.role = y.role, x.pid = y.pid, x.who = y.who
        PROVE  FALSE
    <3>1. x \in Pairs(access, w, r, y.who)
      BY <1>7, <2>1 DEF Pairs
    <3> QED BY <1>7, <2>1, <3>1
  <2>2. CASE a \in access /\ b \in access
    BY <1>1, <2>2
  <2>3. CASE a \in new /\ b \in new
    BY <1>7, <2>3
  <2> QED BY <1>2, <2>1, <2>2, <2>3
<1>10. \A g \in Named(w, r) : \E a \in access' : a \in Pairs({a}, w, r, g)
  <2> SUFFICES ASSUME NEW g \in Named(w, r)
               PROVE  \E a \in access' : a \in Pairs({a}, w, r, g)
    OBVIOUS
  <2>1. CASE g \in H
    BY <1>2, <1>3, <1>8, <2>1 DEF Pairs
  <2>2. CASE g \notin H
    BY <1>2, <2>2 DEF Pairs
  <2> QED BY <2>1, <2>2
<1> QED BY <1>1, <1>2, <1>5, <1>7, <1>9, <1>10

(* A template is taken over, or found to name a role that is gone. *)
LEMMA UpsertStep ==
  ASSUME RowInv, NEW w \in Workers, NEW r \in Roles, Upsert(w, r)
  PROVE  RowInv'
<1>1. task \in [Workers -> Memory] /\ At(w, "upsert") /\ task[w].rules[r] # None
  BY DEF RowInv, TypeOK, StruckInv, Upsert
<1>2. UNCHANGED <<people, identity>> /\ Counted'
  BY Counts DEF Upsert, Counted
<1>3. CASE Named(w, r) # {} /\ identity[r] # task[w].roles[r]
  <2>1. task' = [task EXCEPT ![w] = Blank] /\ UNCHANGED access
    BY <1>3 DEF Upsert
  <2>2. IsFiniteSet({})
    BY FS_EmptySet
  <2> QED BY <1>2, <2>1, <2>2, BlankType, LocalStep
<1>4. CASE ~(Named(w, r) # {} /\ identity[r] # task[w].roles[r])
  <2>1. PICK n : n = [task[w] EXCEPT !.todo = @ \ {r},
          !.left = {a \in @ : ~\E g \in Named(w, r) : a \in Pairs({a}, w, r, g)}]
    OBVIOUS
  <2>2. UpsertRows(w, r, n)
    BY <1>4, <2>1 DEF Upsert, UpsertRows
  <2>3. /\ n \in Memory /\ n.pc = "upsert" /\ n.rules = task[w].rules
        /\ n.roles = task[w].roles /\ n.people = task[w].people
        /\ n.todo = task[w].todo \ {r} /\ n.left \subseteq task[w].left
        /\ \A g \in Named(w, r), a \in n.left : a \notin Pairs({a}, w, r, g)
    BY <1>1, <2>2, UpsertMemory
  <2>4. /\ access' \subseteq Row /\ IsFiniteSet(access')
        /\ \A a \in access' : a.rid = identity[a.role] /\ identity[a.role] # 0
        /\ \A a, b \in access' :
             a.rid = b.rid /\ a.role = b.role /\ a.pid = b.pid /\ a.who = b.who => a = b
    BY <1>1, <1>4, <2>2, UpsertAccess
  <2>5. task' \in [Workers -> Memory] /\ task'[w] = n
        /\ \A v \in Workers \ {w} : task'[v] = task[v]
    BY <1>1, <2>2, <2>3 DEF UpsertRows
  <2>6. TypeOK'
    BY <1>2, <2>4, <2>5 DEF RowInv, TypeOK, Counted
  <2>7. \A v \in Workers : IsFiniteSet(task'[v].left)
    BY <2>3, <2>5, FS_Subset DEF RowInv, FiniteInv
  <2>8. StruckInv'
    <3> SUFFICES ASSUME NEW v \in Workers, task'[v].pc = "upsert"
                 PROVE  /\ \A q \in task'[v].todo : task'[v].rules[q] # None
                        /\ \A q \in Roles \ task'[v].todo : task'[v].rules[q] # None =>
                             \A g \in Named(v, q)' : Pairs(task[v].left, v, q, g)' = {}
      BY DEF StruckInv, At
    <3>1. CASE v # w
      <4>1. task'[v] = task[v]
        BY <2>5, <3>1
      <4> QED BY <4>1 DEF RowInv, StruckInv, At, Named, Pairs
    <3>2. CASE v = w
      <4>1. /\ \A q \in task[w].todo : task[w].rules[q] # None
            /\ \A q \in Roles \ task[w].todo : task[w].rules[q] # None =>
                 \A g \in Named(w, q) : Pairs(task[w].left, w, q, g) = {}
        BY <1>1 DEF RowInv, StruckInv
      <4>2. \A q : Named(v, q)' = Named(w, q)
        BY <2>3, <2>5, <3>2 DEF Named
      <4>3. \A q, g : Pairs(task[v].left, v, q, g)' = Pairs(n.left, w, q, g)
        BY <2>3, <2>5, <3>2 DEF Pairs
      <4>4. \A g \in Named(w, r) : Pairs(n.left, w, r, g) = {}
        BY <2>3 DEF Pairs
      <4>5. \A q, g : Pairs(n.left, w, q, g) \subseteq Pairs(task[w].left, w, q, g)
        BY <2>3 DEF Pairs
      <4>6. \A q \in Roles \ n.todo : n.rules[q] # None =>
              \A g \in Named(w, q) : Pairs(n.left, w, q, g) = {}
        BY <2>3, <4>1, <4>4, <4>5
      <4> QED BY <2>3, <2>5, <3>2, <4>1, <4>2, <4>3, <4>6
    <3> QED BY <3>1, <3>2
  <2>9. RowsInv' /\ FiniteInv'
    BY <1>2, <2>4, <2>7 DEF RowsInv, FiniteInv
  <2> QED BY <2>6, <2>8, <2>9 DEF RowInv
<1> QED BY <1>3, <1>4

-----------------------------------------------------------------------------
(* At first there are neither roles nor rows. *)
LEMMA RowInit == Init => RowInv
<1> SUFFICES ASSUME Init PROVE RowInv
  OBVIOUS
<1>1. IsFiniteSet({})
  BY FS_EmptySet
<1>2. TypeOK
  BY BlankType, SizesAssumption DEF Init, TypeOK
<1> QED BY <1>1, <1>2, BlankType DEF Init, RowInv, RowsInv, StruckInv, FiniteInv, At

(* Overlapping tasks, faults, pulls and people preserve the invariant. *)
LEMMA RowStep == RowInv /\ [Next]_vars => RowInv'
<1> SUFFICES ASSUME RowInv, [Next]_vars PROVE RowInv'
  OBVIOUS
<1>1. ASSUME NEW w \in Workers, Start(w) \/ Raise(w) \/ Die(w) PROVE RowInv'
  BY <1>1, ReadStep
<1>2. ASSUME NEW w \in Workers, Step(w) PROVE RowInv'
  BY <1>2, ReadStep, DropRolesStep, AddRolesStep, ListAccessStep, UpsertStep,
     DropAccessStep DEF Step
<1>3. CASE \/ \E c \in Contents : Pull(c)
           \/ \E g \in Grantees : Create(g) \/ Delete(g)
  BY <1>3, AroundStep
<1>4. CASE UNCHANGED vars
  BY <1>4, Counts, OutsideStep DEF vars, Counted, RowInv, TypeOK
<1> QED BY <1>1, <1>2, <1>3, <1>4 DEF Next

(***************************************************************************)
(* The inductive invariant of the tables and the tasks.                    *)
(***************************************************************************)
THEOREM RowInvariant == Spec => []RowInv
BY RowInit, RowStep, PTL DEF Spec

(***************************************************************************)
(* Rows are of roles that are there, and there is at most one for a role   *)
(* and somebody, however many tasks insert, update and delete them.        *)
(***************************************************************************)
THEOREM RowsCorrect == Spec => []TypeOK
<1>1. RowInv => TypeOK
  BY DEF RowInv
<1> QED BY <1>1, RowInvariant, PTL

-----------------------------------------------------------------------------
(***************************************************************************)
(* Who keeps an access: by the kinds of steps, what becomes of a row.      *)
(***************************************************************************)
Knowing(r, g) == \A w \in Workers : Knows(w, r, g)

(* A row that is kept, with its role and its holder, is an access still. *)
LEMMA RowKept ==
  ASSUME NEW g \in Grantees, NEW r \in Eligible(g), people'[g] = people[g],
         identity'[r] = identity[r],
         \A a \in access : a.role = r /\ a.who = g /\ a.rid = identity[r]
                           /\ a.pid = people[g] => a \in access'
  PROVE  r \in Eligible(g)'
BY DEF Eligible

(* The deletion of roles spares a role the task knows to have a template, *)
LEMMA DropRolesKeeps ==
  ASSUME RowInv, NEW w \in Workers, DropRoles(w), NEW g \in Grantees,
         NEW r \in Eligible(g), Knowing(r, g)
  PROVE  r \in Eligible(g)'
<1>1. task[w].remove[r] # identity[r] /\ r \in Roles
  BY DEF Knowing, Knows, DropRoles, Eligible
<1>2. people' = people /\ identity'[r] = identity[r]
  BY <1>1 DEF DropRoles
<1>3. \A a \in access : a.role = r => a \in access'
  BY <1>1 DEF DropRoles
<1> QED BY <1>2, <1>3, RowKept

(* and that of rows an access the task knows to be granted. *)
LEMMA DropAccessKeeps ==
  ASSUME RowInv, NEW w \in Workers, DropAccess(w), NEW g \in Grantees,
         NEW r \in Eligible(g), Knowing(r, g)
  PROVE  r \in Eligible(g)'
<1>1. /\ At(w, "upsert") /\ task[w].todo = {} /\ r \in Roles /\ people[g] # 0
      /\ task[w].rules[r] # None /\ g \in task[w].rules[r]
      /\ task[w].people[g] = people[g] /\ task[w].roles[r] = identity[r]
  BY DEF Knowing, Knows, DropAccess, Eligible
<1>2. identity[r] # 0
  BY DEF RowInv, RowsInv, Eligible
<1>3. g \in Named(w, r)
  BY <1>1, <1>2 DEF Named
<1>4. Pairs(task[w].left, w, r, g) = {}
  BY <1>1, <1>3 DEF RowInv, StruckInv
<1>5. \A a \in access : a.role = r /\ a.who = g /\ a.rid = identity[r]
                        /\ a.pid = people[g] => a \in access'
  BY <1>1, <1>4 DEF Pairs, DropAccess
<1>6. people' = people /\ identity' = identity
  BY DEF DropAccess
<1> QED BY <1>5, <1>6, RowKept

(* Every other step leaves the rows of an access where they are. *)
LEMMA OthersKeep ==
  ASSUME RowInv, NEW g \in Grantees, NEW r \in Eligible(g), [Next]_vars,
         \A w \in Workers : ~DropRoles(w) /\ ~DropAccess(w)
  PROVE  r \in Eligible(g)' \/ people'[g] # people[g]
<1> SUFFICES ASSUME people'[g] = people[g] PROVE r \in Eligible(g)'
  OBVIOUS
<1>1. r \in Roles /\ identity[r] # 0
  BY DEF RowInv, RowsInv, Eligible
<1>2. access \subseteq access' /\ identity'[r] = identity[r]
  <2>1. ASSUME NEW w \in Workers, Start(w) \/ Raise(w) \/ Die(w)
        PROVE  UNCHANGED <<access, identity>>
    BY <2>1 DEF Start, Raise, Die
  <2>2. ASSUME NEW w \in Workers,
               LoadMapping(w) \/ ReadKnown(w) \/ LoadRules(w) \/ ReadPeople(w)
               \/ ReadRoles(w) \/ ListAccess(w)
        PROVE  UNCHANGED <<access, identity>>
    BY <2>2 DEF LoadMapping, ReadKnown, LoadRules, ReadPeople, ReadRoles, ListAccess
  <2>3. ASSUME NEW w \in Workers, AddRoles(w)
        PROVE  access' = access /\ identity'[r] = identity[r]
    BY <1>1, <2>3 DEF AddRoles
  <2>4. ASSUME NEW w \in Workers, NEW q \in Roles, Upsert(w, q)
        PROVE  access \subseteq access' /\ identity' = identity
    BY <2>4 DEF Upsert
  <2>5. CASE \/ \E c \in Contents : Pull(c)
             \/ \E h \in Grantees : Create(h) \/ Delete(h)
    BY <2>5 DEF Pull, Create, Delete
  <2>6. CASE UNCHANGED vars
    BY <2>6 DEF vars
  <2> QED BY <2>1, <2>2, <2>3, <2>4, <2>5, <2>6 DEF Next, Step
<1> QED BY <1>2, RowKept

(***************************************************************************)
(* Nobody loses an access that the repository grants and every task that   *)
(* is about to delete knows of.                                            *)
(***************************************************************************)
THEOREM AccessKept == Spec => KeptWhileGranted
<1>1. ASSUME RowInv, [Next]_vars, NEW g \in Grantees,
             NEW r \in Eligible(g) \cap Granted(g),
             \A w \in Workers : Knows(w, r, g)
      PROVE  r \in Eligible(g)' \/ people'[g] # people[g]
  <2>1. Knowing(r, g) /\ r \in Eligible(g)
    BY <1>1 DEF Knowing
  <2> QED BY <1>1, <2>1, DropRolesKeeps, DropAccessKeeps, OthersKeep
<1>2. RowInv /\ [Next]_vars =>
        [\A g \in Grantees : \A r \in Eligible(g) \cap Granted(g) :
           (\A w \in Workers : Knows(w, r, g)) =>
             r \in Eligible(g)' \/ people'[g] # people[g]]_vars
  BY <1>1
<1> QED BY <1>2, RowInvariant, PTL DEF Spec, KeptWhileGranted

-----------------------------------------------------------------------------
(***************************************************************************)
(* A task that nothing else meets.  Provided that the users and the groups *)
(* fit in a page, the task finds them all.                                 *)
(***************************************************************************)
PageSuffices == Cardinality(Grantees) <= PageSize

(* One page has all the users and groups. *)
LEMMA EverybodyFound ==
  ASSUME PageSuffices, RowInv, NEW w \in Workers, ReadPeople(w)
  PROVE  task' = [task EXCEPT ![w].pc = "roles", ![w].people = people]
<1> DEFINE live == {g \in Grantees : people[g] # 0}
<1>1. people \in [Grantees -> Nat]
  BY DEF RowInv, TypeOK
<1>2. PICK page \in kSubset(Min({PageSize, Cardinality(live)}), live) :
        task' = [task EXCEPT ![w].pc = "roles",
          ![w].people = [g \in Grantees |-> IF g \in page THEN people[g] ELSE 0]]
  BY DEF ReadPeople
<1>3. IsFiniteSet(live) /\ Cardinality(live) <= Cardinality(Grantees)
  BY FS_Subset, FiniteAssumption
<1>4. Cardinality(live) \in Nat /\ Cardinality(Grantees) \in Nat /\ PageSize \in Nat
  BY <1>3, FS_CardinalityType, FiniteAssumption, SizesAssumption
<1>5. Cardinality(live) <= PageSize
  BY <1>3, <1>4 DEF PageSuffices
<1>6. Min({PageSize, Cardinality(live)}) = Cardinality(live)
  <2>1. PICK k \in Nat : k = Cardinality(live)
    BY <1>4
  <2>2. \E x \in {PageSize, k} : \A y \in {PageSize, k} : x =< y
    BY <1>4, <1>5, <2>1
  <2>3. Min({PageSize, k}) \in {PageSize, k}
        /\ \A y \in {PageSize, k} : Min({PageSize, k}) =< y
    BY <2>2 DEF Min
  <2>4. Min({PageSize, k}) = k
    BY <1>4, <1>5, <2>1, <2>3
  <2> QED BY <2>1, <2>4
<1>7. page \in SUBSET live /\ Cardinality(page) = Cardinality(live)
  BY <1>6 DEF kSubset
<1>8. page = live
  BY <1>3, <1>7, FS_Subset
<1>9. [g \in Grantees |-> IF g \in page THEN people[g] ELSE 0] = people
  BY <1>1, <1>8
<1> QED BY <1>2, <1>9

(* What a task alone has read it goes on with. *)
LEMMA AloneReads ==
  ASSUME PageSuffices, RowInv, NEW w \in Workers, Undisturbed(w),
         \/ LoadMapping(w) \/ ReadKnown(w) \/ LoadRules(w) \/ ReadPeople(w)
         \/ ReadRoles(w) \/ ListAccess(w)
  PROVE  At(w, "idle")' \/ Undisturbed(w)'
<1>1. task \in [Workers -> Memory] /\ task[w] \in Memory
      /\ \A v \in Workers \ {w} : task[v].pc = "idle"
  BY DEF RowInv, TypeOK, Undisturbed, At
<1>2. UNCHANGED <<clone, people, identity, access>>
  BY DEF LoadMapping, ReadKnown, LoadRules, ReadPeople, ReadRoles, ListAccess
<1>3. \A v \in Workers \ {w} : task'[v].pc = "idle"
  BY <1>1 DEF LoadMapping, ReadKnown, LoadRules, ReadPeople, ReadRoles, ListAccess, Goto
<1>4. ASSUME LoadMapping(w) PROVE Undisturbed(w)'
  <2>1. CASE clone = Broken
    <3>1. task'[w].pc = "rules"
      BY <1>1, <1>4, <2>1 DEF LoadMapping, Goto, Memory
    <3> QED BY <1>2, <1>3, <2>1, <3>1 DEF Undisturbed, Past, At
  <2>2. CASE clone # Broken
    <3>1. task'[w].pc = "known" /\ task'[w].rules = clone
      BY <1>1, <1>4, <2>2 DEF LoadMapping, Memory
    <3> QED BY <1>2, <1>3, <2>2, <3>1 DEF Undisturbed, Past, At
  <2> QED BY <2>1, <2>2
<1>5. ASSUME ReadKnown(w) PROVE Undisturbed(w)'
  <2>1. clone # Broken /\ task[w].rules = clone
    BY <1>5 DEF ReadKnown, Undisturbed, Past, At
  <2>2. /\ task'[w].pc = "drop" /\ task'[w].rules = clone
        /\ task'[w].remove = [r \in Roles |-> IF clone[r] = None THEN identity[r] ELSE 0]
    BY <1>1, <1>5, <2>1 DEF ReadKnown, Memory
  <2> QED BY <1>2, <1>3, <2>1, <2>2 DEF Undisturbed, Past, At
<1>6. ASSUME LoadRules(w) PROVE At(w, "idle")' \/ Undisturbed(w)'
  <2>1. CASE clone = Broken
    BY <1>1, <1>6, <2>1, BlankType DEF LoadRules, At
  <2>2. CASE clone # Broken
    <3>1. task'[w].pc = "people" /\ task'[w].rules = clone
      BY <1>1, <1>6, <2>2 DEF LoadRules, Memory
    <3>2. Mapped /\ Mapped'
      BY <1>2, <1>6, <2>2 DEF LoadRules, Undisturbed, Past, At, Mapped
    <3> QED BY <1>2, <1>3, <2>2, <3>1, <3>2 DEF Undisturbed, Past, At
  <2> QED BY <2>1, <2>2
<1>7. ASSUME ReadPeople(w) PROVE Undisturbed(w)'
  <2>1. task' = [task EXCEPT ![w].pc = "roles", ![w].people = people]
    BY <1>7, EverybodyFound
  <2>2. clone # Broken /\ task[w].rules = clone /\ Mapped
    BY <1>7 DEF ReadPeople, Undisturbed, Past, At
  <2>3. task'[w].pc = "roles" /\ task'[w].rules = clone /\ task'[w].people = people
    BY <1>1, <2>1, <2>2 DEF Memory
  <2>4. Mapped'
    BY <1>2, <2>2 DEF Mapped
  <2> QED BY <1>2, <1>3, <2>2, <2>3, <2>4 DEF Undisturbed, Past, At
<1>8. ASSUME ReadRoles(w) PROVE Undisturbed(w)'
  <2>1. clone # Broken /\ task[w].rules = clone /\ Mapped /\ task[w].people = people
    BY <1>8 DEF ReadRoles, Undisturbed, Past, At
  <2>2. task'[w].pc = "list" /\ task'[w].rules = clone /\ task'[w].people = people
        /\ task'[w].roles = identity
    BY <1>1, <1>8, <2>1 DEF ReadRoles, Memory
  <2>3. Mapped'
    BY <1>2, <2>1 DEF Mapped
  <2> QED BY <1>2, <1>3, <2>1, <2>2, <2>3 DEF Undisturbed, Past, At
<1>9. ASSUME ListAccess(w) PROVE Undisturbed(w)'
  <2>1. clone # Broken /\ task[w].rules = clone /\ Mapped /\ task[w].people = people
        /\ task[w].roles = identity
    BY <1>9 DEF ListAccess, Undisturbed, Past, At
  <2>2. task'[w].pc = "upsert" /\ task'[w].rules = clone /\ task'[w].people = people
        /\ task'[w].roles = identity /\ task'[w].left = access
        /\ task'[w].todo = {r \in Roles : clone[r] # None}
    BY <1>1, <1>9, <2>1 DEF ListAccess, Memory
  <2>3. Mapped'
    BY <1>2, <2>1 DEF Mapped
  <2>4. Done(w)'
    BY <1>2, <2>2 DEF Done
  <2> QED BY <1>2, <1>3, <2>1, <2>2, <2>3, <2>4 DEF Undisturbed, Past, At
<1> QED BY <1>4, <1>5, <1>6, <1>7, <1>8, <1>9

(* Roles without a template go, and those with one are there. *)
LEMMA AloneMaps ==
  ASSUME RowInv, NEW w \in Workers, Undisturbed(w), DropRoles(w) \/ AddRoles(w)
  PROVE  Undisturbed(w)'
<1>1. task \in [Workers -> Memory] /\ task[w] \in Memory
      /\ \A v \in Workers \ {w} : task[v].pc = "idle"
      /\ identity \in [Roles -> Nat]
  BY DEF RowInv, TypeOK, Undisturbed, At
<1>2. clone' = clone /\ clone # Broken /\ task[w].rules = clone
  BY DEF DropRoles, AddRoles, Undisturbed, Past, At
<1>3. \A v \in Workers \ {w} : task'[v].pc = "idle"
  BY <1>1 DEF DropRoles, AddRoles, Goto
<1>4. ASSUME DropRoles(w) PROVE Undisturbed(w)'
  <2>1. task'[w].pc = "add" /\ task'[w].rules = clone
    BY <1>1, <1>2, <1>4 DEF DropRoles, Goto, Memory
  <2>2. \A r \in Roles : clone[r] = None => task[w].remove[r] = identity[r]
    BY <1>4 DEF DropRoles, Undisturbed
  <2>3. \A r \in Roles : clone[r] = None => identity'[r] = 0
    BY <1>4, <2>2 DEF DropRoles
  <2> QED BY <1>2, <1>3, <2>1, <2>3 DEF Undisturbed, Past, At
<1>5. ASSUME AddRoles(w) PROVE Undisturbed(w)'
  <2>1. task'[w].pc = "rules"
    BY <1>1, <1>5 DEF AddRoles, Goto, Memory
  <2>2. \A r \in Roles : clone[r] = None => identity[r] = 0
    BY <1>5 DEF AddRoles, Undisturbed
  <2>3. \A r \in Roles : Fresh(Held(r)) # 0
    BY HeldIsFinite, FreshIsNew DEF RowInv
  <2>4. \A r \in Roles : (clone[r] = None) = (identity'[r] = 0)
    BY <1>2, <1>5, <2>2, <2>3 DEF AddRoles
  <2>5. Mapped'
    BY <1>2, <2>4 DEF Mapped
  <2> QED BY <1>2, <1>3, <2>1, <2>5 DEF Undisturbed, Past, At
<1> QED BY <1>4, <1>5

(***************************************************************************)
(* A template is taken over: no role is missing, and the rows it names are *)
(* there and not on the list.                                              *)
(***************************************************************************)
LEMMA AloneUpserts ==
  ASSUME RowInv, NEW w \in Workers, Undisturbed(w), NEW r \in Roles, Upsert(w, r)
  PROVE  Undisturbed(w)' /\ ~At(w, "idle")'
<1>1. /\ task \in [Workers -> Memory] /\ At(w, "upsert") /\ r \in task[w].todo
      /\ \A v \in Workers \ {w} : task[v].pc = "idle"
      /\ task[w].rules[r] # None
  BY DEF RowInv, TypeOK, Undisturbed, At, StruckInv, Upsert
<1>2. /\ clone # Broken /\ task[w].rules = clone /\ Mapped
      /\ task[w].people = people /\ task[w].roles = identity /\ Done(w)
  BY <1>1 DEF Undisturbed, Past, At
<1>3. UNCHANGED <<clone, people, identity>>
  BY DEF Upsert
<1>4. PICK n : n = [task[w] EXCEPT !.todo = @ \ {r},
        !.left = {a \in @ : ~\E g \in Named(w, r) : a \in Pairs({a}, w, r, g)}]
  OBVIOUS
<1>5. UpsertRows(w, r, n)
  BY <1>2, <1>4 DEF Upsert, UpsertRows
<1>6. /\ n \in Memory /\ n.pc = "upsert" /\ n.rules = task[w].rules
      /\ n.roles = task[w].roles /\ n.people = task[w].people
      /\ n.todo = task[w].todo \ {r} /\ n.left \subseteq task[w].left
      /\ \A a \in task[w].left : a \notin n.left =>
           \E g \in Named(w, r) : a \in Pairs({a}, w, r, g)
  BY <1>1, <1>5, UpsertMemory
<1>7. /\ access \subseteq access'
      /\ \A a \in access' \ access :
           /\ a.role = r /\ a.rid = task[w].roles[r]
           /\ a.who \in Named(w, r) /\ a.pid = task[w].people[a.who]
      /\ \A g \in Named(w, r) : \E a \in access' : a \in Pairs({a}, w, r, g)
  BY <1>1, <1>2, <1>5, UpsertAccess
<1>8. task' \in [Workers -> Memory] /\ task'[w] = n
      /\ \A v \in Workers \ {w} : task'[v].pc = "idle"
  BY <1>1, <1>5, <1>6 DEF UpsertRows
<1>9. \A g \in Named(w, r) : g \in clone[r] /\ people[g] # 0
  BY <1>2 DEF Named
<1>10. ASSUME NEW a \in access' \ n.left
       PROVE  /\ a.role \notin n.todo /\ clone[a.role] # None
              /\ a.who \in clone[a.role] /\ a.pid = people[a.who] /\ a.pid # 0
  <2>1. CASE a \notin access
    BY <1>1, <1>2, <1>6, <1>7, <1>9, <1>10, <2>1
  <2>2. CASE a \in access /\ a \notin task[w].left
    BY <1>2, <1>6, <2>2 DEF Done
  <2>3. CASE a \in task[w].left
    <3>1. PICK g \in Named(w, r) : a \in Pairs({a}, w, r, g)
      BY <1>6, <1>10, <2>3
    <3>2. a.role = r /\ a.who = g /\ a.pid = task[w].people[g]
      BY <3>1 DEF Pairs
    <3> QED BY <1>1, <1>2, <1>6, <1>9, <3>2
  <2> QED BY <1>10, <2>1, <2>2, <2>3
<1>11. \A q : Named(w, q)' = Named(w, q)
  BY <1>6, <1>8 DEF Named
<1>12. \A q, g : Pairs(access, w, q, g)' = {a \in access' : a \in Pairs({a}, w, q, g)}
  BY <1>6, <1>8 DEF Pairs
<1>13. ASSUME NEW q \in Roles \ n.todo, clone[q] # None, NEW g \in Named(w, q)
       PROVE  \E a \in access' : a \in Pairs({a}, w, q, g)
  <2>1. CASE q = r
    BY <1>7, <1>13, <2>1
  <2>2. CASE q # r
    <3>1. Pairs(access, w, q, g) # {}
      BY <1>2, <1>6, <1>13, <2>2 DEF Done
    <3> QED BY <1>7, <3>1 DEF Pairs
  <2> QED BY <2>1, <2>2
<1>14. Done(w)'
  <2>1. ASSUME NEW q \in Roles \ n.todo, clone[q] # None, NEW g \in Named(w, q)'
        PROVE  Pairs(access, w, q, g)' # {}
    <3>1. g \in Named(w, q)
      BY <1>11, <2>1
    <3>2. \E a \in access' : a \in Pairs({a}, w, q, g)
      BY <1>13, <2>1, <3>1
    <3> QED BY <1>12, <3>2
  <2>2. \A a \in access' \ task'[w].left :
          /\ a.role \notin task'[w].todo /\ clone'[a.role] # None
          /\ a.who \in clone'[a.role] /\ a.pid = people'[a.who] /\ a.pid # 0
    BY <1>3, <1>8, <1>10
  <2>3. \A q \in Roles \ task'[w].todo : clone'[q] # None =>
          \A g \in Named(w, q)' : Pairs(access, w, q, g)' # {}
    BY <1>3, <1>8, <2>1
  <2> QED BY <2>2, <2>3 DEF Done
<1>15. Mapped'
  BY <1>2, <1>3 DEF Mapped
<1> QED BY <1>2, <1>3, <1>6, <1>8, <1>14, <1>15 DEF Undisturbed, Past, At

(* At the end what is left on the list is all that is not granted. *)
LEMMA AloneEnds ==
  ASSUME RowInv, NEW w \in Workers, Undisturbed(w), DropAccess(w)
  PROVE  Exact'
<1>1. /\ At(w, "upsert") /\ task[w].todo = {} /\ access' = access \ task[w].left
      /\ clone' = clone /\ people' = people /\ identity' = identity
  BY DEF DropAccess
<1>2. /\ clone # Broken /\ task[w].rules = clone /\ Mapped
      /\ task[w].people = people /\ task[w].roles = identity
      /\ \A a \in access \ task[w].left :
           /\ clone[a.role] # None /\ a.who \in clone[a.role]
           /\ a.pid = people[a.who] /\ a.pid # 0
      /\ \A r \in Roles : clone[r] # None =>
           \A g \in Named(w, r) : Pairs(access, w, r, g) # {}
  BY <1>1 DEF Undisturbed, Past, At, Done
<1>3. \A r \in Roles : clone[r] # None =>
        \A g \in Named(w, r) : Pairs(task[w].left, w, r, g) = {}
  BY <1>1, <1>2 DEF RowInv, StruckInv
<1>4. ASSUME NEW g \in Grantees, NEW r \in Roles,
             NEW a \in access', a.role = r, a.who = g
      PROVE  clone[r] # None /\ g \in clone[r] /\ people[g] # 0
  BY <1>1, <1>2, <1>4
<1>5. ASSUME NEW g \in Grantees, NEW r \in Roles,
             clone[r] # None, g \in clone[r], people[g] # 0
      PROVE  \E a \in access' : a.role = r /\ a.rid = identity[r] /\ a.who = g
                                /\ a.pid = people[g]
  <2>1. identity[r] # 0
    BY <1>2, <1>5 DEF Mapped
  <2>2. g \in Named(w, r)
    BY <1>2, <1>5, <2>1 DEF Named
  <2>3. PICK a \in access : a \in Pairs(access, w, r, g)
    BY <1>2, <1>5, <2>2 DEF Pairs
  <2>4. a.role = r /\ a.rid = identity[r] /\ a.who = g /\ a.pid = people[g]
    BY <1>2, <2>3 DEF Pairs
  <2>5. a \notin task[w].left
    BY <1>2, <1>3, <1>5, <2>2, <2>4 DEF Pairs
  <2> QED BY <1>1, <2>4, <2>5
<1>6. ASSUME NEW g \in Grantees PROVE Eligible(g)' = Granted(g)'
  <2>1. Eligible(g)' = {r \in Roles : \E a \in access' :
          /\ a.role = r /\ a.rid = identity[r] /\ a.who = g
          /\ people[g] # 0 /\ a.pid = people[g]}
    BY <1>1 DEF Eligible
  <2>2. Granted(g)' = {r \in Roles : /\ clone # Broken /\ clone[r] # None
                                     /\ g \in clone[r] /\ people[g] # 0}
    BY <1>1 DEF Granted
  <2> QED BY <1>2, <1>4, <1>5, <1>6, <2>1, <2>2
<1> QED BY <1>6 DEF Exact

(***************************************************************************)
(* A task stays alone until it ends, or else it is not said to be.         *)
(***************************************************************************)
LEMMA AloneStep ==
  ASSUME PageSuffices, RowInv, AloneInv, [Next]_vars
  PROVE  AloneInv'
<1>1. task \in [Workers -> Memory] /\ alone \subseteq Workers
  BY DEF RowInv, TypeOK
<1>2. ASSUME NEW v \in Workers, Start(v) PROVE AloneInv'
  <2>1. task' = [task EXCEPT ![v] = [Blank EXCEPT !.pc = "mapping"]]
        /\ alone' = IF \A x \in Workers : At(x, "idle") THEN {v} ELSE {}
    BY <1>2 DEF Start
  <2>2. CASE \A x \in Workers : At(x, "idle")
    <3>1. task'[v].pc = "mapping" /\ \A x \in Workers \ {v} : task'[x].pc = "idle"
      BY <1>1, <2>1, <2>2, BlankType DEF At, Memory
    <3>2. Undisturbed(v)'
      BY <3>1 DEF Undisturbed, At, Past
    <3> QED BY <2>1, <2>2, <3>2 DEF AloneInv
  <2>3. CASE ~\A x \in Workers : At(x, "idle")
    BY <2>1, <2>3 DEF AloneInv
  <2> QED BY <2>2, <2>3
<1>3. ASSUME NEW v \in Workers, Raise(v) \/ Die(v) PROVE AloneInv'
  BY <1>3 DEF Raise, Die, AloneInv
<1>4. CASE \/ \E c \in Contents : Pull(c)
           \/ \E g \in Grantees : Create(g) \/ Delete(g)
  BY <1>4 DEF Pull, Create, Delete, AloneInv
<1>5. ASSUME NEW v \in Workers, Step(v) PROVE AloneInv'
  <2>1. /\ task[v].pc # "idle" /\ alone' = alone
        /\ \A x \in Workers \ {v} : task'[x] = task[x]
    BY <1>1, <1>5 DEF Step, LoadMapping, ReadKnown, DropRoles, AddRoles, LoadRules,
       ReadPeople, ReadRoles, ListAccess, Upsert, DropAccess, At, Goto
  <2>2. ASSUME NEW w \in alone PROVE At(w, "idle")' \/ Undisturbed(w)'
    <3>1. CASE At(w, "idle")
      BY <1>1, <2>1, <3>1 DEF At
    <3>2. CASE ~At(w, "idle")
      <4>1. Undisturbed(w) /\ w \in Workers
        BY <1>1, <2>2, <3>2 DEF AloneInv
      <4>2. v = w
        BY <2>1, <4>1 DEF Undisturbed, At
      <4>3. ASSUME DropAccess(w) PROVE At(w, "idle")'
        BY <1>1, <4>1, <4>3, BlankType DEF DropAccess, At
      <4> QED BY <1>5, <4>1, <4>2, <4>3, AloneReads, AloneMaps, AloneUpserts DEF Step
    <3> QED BY <3>1, <3>2
  <2> QED BY <2>1, <2>2 DEF AloneInv
<1>6. CASE UNCHANGED vars
  BY <1>6 DEF vars, AloneInv, Undisturbed, At, Past, Mapped, Done, Named, Pairs
<1> QED BY <1>2, <1>3, <1>4, <1>5, <1>6 DEF Next

(***************************************************************************)
(* Where the users and the groups fit in a page, a task that met nothing   *)
(* else leaves everybody with exactly the accesses the templates grant,    *)
(* from whatever roles and rows it found.                                  *)
(***************************************************************************)
THEOREM SyncIsExact ==
  ASSUME PageSuffices
  PROVE  Spec => UndisturbedSyncIsExact
<1>1. Init => AloneInv
  BY DEF Init, AloneInv
<1>2. ASSUME RowInv, AloneInv, [Next]_vars, NEW w \in alone \cap alone',
             ~At(w, "idle"), At(w, "idle")', clone # Broken
      PROVE  Exact'
  <2>1. task \in [Workers -> Memory] /\ w \in Workers
    BY <1>2 DEF RowInv, TypeOK
  <2>2. Undisturbed(w)
    BY <1>2 DEF AloneInv
  <2>3. task'[w] # task[w]
    BY <1>2 DEF At
  <2>4. ASSUME NEW v \in Workers, Step(v) PROVE v = w
    BY <2>1, <2>3, <2>4 DEF Step, LoadMapping, ReadKnown, DropRoles, AddRoles,
       LoadRules, ReadPeople, ReadRoles, ListAccess, Upsert, DropAccess, Goto
  <2>5. Step(w)
    <3>1. ASSUME NEW v \in Workers, Start(v) PROVE FALSE
      <4>1. v = w
        BY <2>1, <2>3, <3>1 DEF Start
      <4> QED BY <1>2, <3>1, <4>1 DEF Start
    <3>2. \A v \in Workers : Raise(v) \/ Die(v) => w \notin alone'
      BY DEF Raise, Die
    <3>3. CASE \/ \E c \in Contents : Pull(c)
               \/ \E g \in Grantees : Create(g) \/ Delete(g)
      BY <1>2, <3>3 DEF Pull, Create, Delete
    <3>4. CASE UNCHANGED vars
      BY <2>3, <3>4 DEF vars
    <3> QED BY <1>2, <2>4, <3>1, <3>2, <3>3, <3>4 DEF Next
  <2>6. ASSUME LoadMapping(w) \/ ReadKnown(w) \/ DropRoles(w) \/ AddRoles(w)
               \/ LoadRules(w) \/ ReadPeople(w) \/ ReadRoles(w) \/ ListAccess(w)
        PROVE  FALSE
    <3>1. task[w] \in Memory
      BY <2>1
    <3>2. LoadMapping(w) \/ ReadKnown(w) => task'[w].pc # "idle"
      BY <2>1, <3>1 DEF LoadMapping, ReadKnown, Goto, Memory
    <3>3. DropRoles(w) \/ AddRoles(w) => task'[w].pc # "idle"
      BY <2>1, <3>1 DEF DropRoles, AddRoles, Goto, Memory
    <3>4. LoadRules(w) => task'[w].pc # "idle"
      BY <1>2, <2>1, <3>1 DEF LoadRules, Memory
    <3>5. ReadPeople(w) => task'[w].pc # "idle"
      BY <2>1, <3>1 DEF ReadPeople, Memory
    <3>6. ReadRoles(w) \/ ListAccess(w) => task'[w].pc # "idle"
      BY <2>1, <3>1 DEF ReadRoles, ListAccess, Memory
    <3> QED BY <1>2, <2>6, <3>2, <3>3, <3>4, <3>5, <3>6 DEF At
  <2> QED BY <1>2, <2>2, <2>1, <2>5, <2>6, AloneUpserts, AloneEnds DEF Step
<1>3. RowInv /\ AloneInv /\ [Next]_vars => AloneInv'
  BY AloneStep
<1>4. RowInv /\ AloneInv /\ [Next]_vars =>
        [\A w \in alone \cap alone' :
           ~At(w, "idle") /\ At(w, "idle")' /\ clone # Broken => Exact']_vars
  BY <1>2
<1> QED BY <1>1, <1>3, <1>4, RowInvariant, PTL DEF Spec, UndisturbedSyncIsExact
=============================================================================
