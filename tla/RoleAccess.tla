----------------------------- MODULE RoleAccess -----------------------------
(***************************************************************************)
(* Who may get credentials of which role.                                  *)
(*                                                                         *)
(* The access rules of the role templates in a tenant's repository name    *)
(* users and groups.  A Celery task, which beat sends every half hour and  *)
(* the template sync sends when it has changed something, takes them over  *)
(* into the database (common/aws/role_access/celery_tasks.py): it makes    *)
(* the table of roles agree with the templates, then goes through the      *)
(* templates, writes a row for every user and group a rule names, and in   *)
(* the end deletes the rows it has listed and no rule has asked for.       *)
(* Nothing keeps two of these tasks apart, each await lets others change   *)
(* what was read, and either half may raise without stopping the other.    *)
(* A handler that hands out credentials joins the rows                     *)
(* (common/aws/role_access/utils.py).                                      *)
(***************************************************************************)
EXTENDS Naturals, FiniteSets, FiniteSetsExt

CONSTANTS
  Roles,      \* ARNs of roles
  Grantees,   \* names of users and groups
  Workers,    \* Celery processes that take these tasks
  None,       \* there is no template for a role
  Broken,     \* a clone that has a template that cannot be parsed
  Contents,   \* what the clone may come to hold
  PageSize,   \* DEFAULT_SIZE of a query that is not told a size
  MaxPulls,   \* bound: how often the clone changes
  MaxPeople,  \* bound: how often a user or group is added or deleted
  MaxFaults   \* bound: errors of the database, time limits and deaths

Rules == [Roles -> (SUBSET Grantees) \cup {None}]

ASSUME ContentsAssumption == Broken \notin Rules /\ Contents \subseteq Rules \cup {Broken}
ASSUME FiniteAssumption == IsFiniteSet(Roles) /\ IsFiniteSet(Grantees) /\ IsFiniteSet(Workers)
ASSUME SizesAssumption == PageSize \in Nat \ {0} /\ {MaxPulls, MaxPeople, MaxFaults} \subseteq Nat

VARIABLES
  clone,     \* the repository on disk, as far as roles and access rules go
  people,    \* the users and groups: the id of each name, 0 for none
  identity,  \* the table identity_role: the id of each role, 0 for none
  access,    \* the table role_access
  task,      \* what each worker holds in memory
  alone,     \* history: the worker whose task nothing else has met so far
  pulls, moves, faults

vars == <<clone, people, identity, access, task, alone, pulls, moves, faults>>

(***************************************************************************)
(* A row refers to a role and to a user or group by their ids.  Ids are    *)
(* never used again by the database; here the smallest is taken that       *)
(* nobody has in a table or in memory, which nobody can tell from that.    *)
(***************************************************************************)
Row == [id : Nat, role : Roles, rid : Nat, who : Grantees, pid : Nat]

Stages == {"idle", "mapping", "known", "drop", "add",
           "rules", "people", "roles", "list", "upsert"}

Blank == [pc |-> "idle", rules |-> [r \in Roles |-> None],
          remove |-> [r \in Roles |-> 0], people |-> [g \in Grantees |-> 0],
          roles |-> [r \in Roles |-> 0], todo |-> {}, left |-> {}]

Memory == [pc : Stages, rules : Rules, remove : [Roles -> Nat],
           people : [Grantees -> Nat], roles : [Roles -> Nat],
           todo : SUBSET Roles, left : SUBSET Row]

TypeOK ==
  /\ clone \in Contents
  /\ people \in [Grantees -> Nat]
  /\ identity \in [Roles -> Nat]
  /\ access \subseteq Row
  /\ task \in [Workers -> Memory]
  /\ alone \subseteq Workers
  /\ pulls \in 0..MaxPulls /\ moves \in 0..MaxPeople /\ faults \in 0..MaxFaults
  /\ \A a, b \in access : (a.rid = b.rid /\ a.role = b.role /\ a.pid = b.pid /\ a.who = b.who) => a = b
  /\ \A a \in access : a.rid = identity[a.role]

Init ==
  /\ clone \in Contents \ {Broken}
  /\ people \in [Grantees -> {0, 1}]
  /\ identity = [r \in Roles |-> 0]
  /\ access = {}
  /\ task = [w \in Workers |-> Blank]
  /\ alone = {}
  /\ pulls = 0 /\ moves = 0 /\ faults = 0

-----------------------------------------------------------------------------
(* What a name may do, and what it should be able to do. *)

(* get_user_eligible_roles: the roles a live user or group has a row for. *)
Eligible(g) ==
  {r \in Roles : \E a \in access : /\ a.role = r /\ a.rid = identity[r] /\ a.who = g
                                   /\ people[g] # 0 /\ a.pid = people[g]}

(* What the clone grants to those who exist. *)
Granted(g) ==
  {r \in Roles : /\ clone # Broken /\ clone[r] # None
                 /\ g \in clone[r] /\ people[g] # 0}

Exact == \A g \in Grantees : Eligible(g) = Granted(g)

(* An id that is not in use. *)
Fresh(used) == CHOOSE n \in 1..Cardinality(used) + 1 : n \notin used

At(w, pc) == task[w].pc = pc
Goto(w, pc) == task' = [task EXCEPT ![w].pc = pc]

-----------------------------------------------------------------------------
(* sync_identity_roles, the first half that matters here. *)

(***************************************************************************)
(* A task is taken.  sync_aws_accounts comes first; nobody in these        *)
(* modules reads the table it writes.                                      *)
(***************************************************************************)
Start(w) ==
  /\ At(w, "idle")
  /\ task' = [task EXCEPT ![w] = [Blank EXCEPT !.pc = "mapping"]]
  /\ alone' = IF \A v \in Workers : At(v, "idle") THEN {w} ELSE {}
  /\ UNCHANGED <<clone, people, identity, access, pulls, moves, faults>>

(* The templates are parsed; one that cannot be ends this half. *)
LoadMapping(w) ==
  /\ At(w, "mapping")
  /\ IF clone = Broken
     THEN Goto(w, "rules")
     ELSE task' = [task EXCEPT ![w].pc = "known", ![w].rules = clone]
  /\ UNCHANGED <<clone, people, identity, access, alone, pulls, moves, faults>>

(* The roles known are listed, and those without a template remembered. *)
ReadKnown(w) ==
  /\ At(w, "known")
  /\ task' = [task EXCEPT ![w].pc = "drop",
                          ![w].remove = [r \in Roles |-> IF task[w].rules[r] = None
                                                         THEN identity[r] ELSE 0]]
  /\ UNCHANGED <<clone, people, identity, access, alone, pulls, moves, faults>>

DropRolesOnly(w) ==  \* a mistake: the foreign key does not cascade
  LET gone == {r \in Roles : identity[r] # 0 /\ identity[r] = task[w].remove[r]}
  IN /\ At(w, "drop")
     /\ identity' = [r \in Roles |-> IF r \in gone THEN 0 ELSE identity[r]]
     /\ Goto(w, "add")
     /\ UNCHANGED <<clone, people, access, alone, pulls, moves, faults>>

(* They are deleted by their ids, and their access rows with them. *)
DropRoles(w) ==
  LET gone == {r \in Roles : identity[r] # 0 /\ identity[r] = task[w].remove[r]}
  IN /\ At(w, "drop")
     /\ identity' = [r \in Roles |-> IF r \in gone THEN 0 ELSE identity[r]]
     /\ access' = {a \in access : a.role \notin gone}
     /\ Goto(w, "add")
     /\ UNCHANGED <<clone, people, alone, pulls, moves, faults>>

(* The ids of a role that somebody may still hold. *)
Held(r) ==
  {identity[r]} \cup {task[w].remove[r] : w \in Workers} \cup {task[w].roles[r] : w \in Workers}
    \cup UNION {{a.rid : a \in {b \in task[w].left : b.role = r}} : w \in Workers}

AddRolesOnce(w) ==  \* a mistake: roles are added to an empty table only
  /\ At(w, "add")
  /\ identity' = [r \in Roles |->
       IF task[w].rules[r] # None /\ \A q \in Roles : identity[q] = 0
       THEN Fresh(Held(r)) ELSE identity[r]]
  /\ Goto(w, "rules")
  /\ UNCHANGED <<clone, people, access, alone, pulls, moves, faults>>

(* Those with a template are inserted, unless they are there. *)
AddRoles(w) ==
  /\ At(w, "add")
  /\ identity' = [r \in Roles |-> IF task[w].rules[r] # None /\ identity[r] = 0
                                  THEN Fresh(Held(r)) ELSE identity[r]]
  /\ Goto(w, "rules")
  /\ UNCHANGED <<clone, people, access, alone, pulls, moves, faults>>

-----------------------------------------------------------------------------
(* sync_role_access. *)

(* The templates are parsed once more. *)
LoadRules(w) ==
  /\ At(w, "rules")
  /\ IF clone = Broken
     THEN task' = [task EXCEPT ![w] = Blank]
     ELSE task' = [task EXCEPT ![w].pc = "people", ![w].rules = clone]
  /\ UNCHANGED <<clone, people, identity, access, alone, pulls, moves, faults>>

(***************************************************************************)
(* User.get_all and Group.get_all return the live ones, but at most a page *)
(* of them, and in no order.                                               *)
(***************************************************************************)
ReadPeople(w) ==
  LET live == {g \in Grantees : people[g] # 0}
  IN /\ At(w, "people")
     /\ \E page \in kSubset(Min({PageSize, Cardinality(live)}), live) :
          task' = [task EXCEPT ![w].pc = "roles",
                               ![w].people = [g \in Grantees |-> IF g \in page THEN people[g] ELSE 0]]
     /\ UNCHANGED <<clone, people, identity, access, alone, pulls, moves, faults>>

ReadRoles(w) ==
  /\ At(w, "roles")
  /\ task' = [task EXCEPT ![w].pc = "list", ![w].roles = identity]
  /\ UNCHANGED <<clone, people, identity, access, alone, pulls, moves, faults>>

(* All rows are listed; what is not asked for by a rule will be deleted. *)
ListAccess(w) ==
  /\ At(w, "list")
  /\ task' = [task EXCEPT ![w].pc = "upsert", ![w].left = access,
                          ![w].todo = {r \in Roles : task[w].rules[r] # None}]
  /\ UNCHANGED <<clone, people, identity, access, alone, pulls, moves, faults>>

(* The row of a grantee and a role, or an id for it. *)
Pairs(rows, w, r, g) ==
  {a \in rows : a.role = r /\ a.rid = task[w].roles[r] /\ a.who = g /\ a.pid = task[w].people[g]}
NewRow(w, r, g) ==
  [id |-> Fresh({a.id : a \in UNION {Pairs(task[v].left, w, r, g) : v \in Workers}}),
   role |-> r, rid |-> task[w].roles[r], who |-> g, pid |-> task[w].people[g]]

NamedForThoseKnown(w, r) ==  \* a mistake: who has a row is passed over
  IF task[w].roles[r] = 0 THEN {}
  ELSE {g \in task[w].rules[r] : task[w].people[g] # 0 /\ Pairs(task[w].left, w, r, g) = {}}

(* Those of a rule the task has found, if it has found the role. *)
Named(w, r) ==
  IF task[w].roles[r] = 0 THEN {}
  ELSE {g \in task[w].rules[r] : task[w].people[g] # 0}

(***************************************************************************)
(* One template: the grantees of its rules are struck off the list, and    *)
(* their rows are inserted or updated in one transaction.  A role that was *)
(* deleted after it was read violates the foreign key, which ends the task *)
(* before anything is deleted.                                             *)
(***************************************************************************)
Upsert(w, r) ==
  /\ At(w, "upsert") /\ r \in task[w].todo
  /\ IF Named(w, r) # {} /\ identity[r] # task[w].roles[r]
     THEN /\ task' = [task EXCEPT ![w] = Blank]
          /\ UNCHANGED access
     ELSE /\ task' = [task EXCEPT
               ![w].todo = @ \ {r},
               ![w].left = {a \in @ : ~\E g \in Named(w, r) : a \in Pairs({a}, w, r, g)}]
          /\ access' = access \cup {NewRow(w, r, g) :
                         g \in {h \in Named(w, r) : Pairs(access, w, r, h) = {}}}
  /\ UNCHANGED <<clone, people, identity, alone, pulls, moves, faults>>

DropAccessOfRoles(w) ==  \* a mistake: only roles without any rule are cleaned up
  /\ At(w, "upsert") /\ task[w].todo = {}
  /\ access' = access \ {a \in task[w].left : task[w].rules[a.role] \in {None, {}}}
  /\ task' = [task EXCEPT ![w] = Blank]
  /\ UNCHANGED <<clone, people, identity, alone, pulls, moves, faults>>

(* When all templates are done, what is left on the list is deleted by id. *)
DropAccess(w) ==
  /\ At(w, "upsert") /\ task[w].todo = {}
  /\ access' = access \ task[w].left
  /\ task' = [task EXCEPT ![w] = Blank]
  /\ UNCHANGED <<clone, people, identity, alone, pulls, moves, faults>>

Step(w) ==
  \/ LoadMapping(w) \/ ReadKnown(w) \/ DropRoles(w) \/ AddRoles(w)
  \/ LoadRules(w) \/ ReadPeople(w) \/ ReadRoles(w) \/ ListAccess(w)
  \/ \E r \in Roles : Upsert(w, r)
  \/ DropAccess(w)

-----------------------------------------------------------------------------
(* What happens around the tasks. *)

(***************************************************************************)
(* Something raises inside a half, or the soft time limit ends it: the     *)
(* exception is caught, a failed first half is followed by the second.     *)
(***************************************************************************)
FirstHalf == {"mapping", "known", "drop", "add"}
Raise(w) ==
  /\ ~At(w, "idle") /\ faults < MaxFaults
  /\ IF task[w].pc \in FirstHalf THEN Goto(w, "rules")
     ELSE task' = [task EXCEPT ![w] = Blank]
  /\ alone' = {}
  /\ faults' = faults + 1
  /\ UNCHANGED <<clone, people, identity, access, pulls, moves>>

(* The worker dies; a second delivery of the task is another start. *)
Die(w) ==
  /\ ~At(w, "idle") /\ faults < MaxFaults
  /\ task' = [task EXCEPT ![w] = Blank]
  /\ alone' = {}
  /\ faults' = faults + 1
  /\ UNCHANGED <<clone, people, identity, access, pulls, moves>>

(* The template sync pulls: this task only reads what is on disk. *)
Pull(c) ==
  /\ pulls < MaxPulls /\ c # clone
  /\ clone' = c
  /\ pulls' = pulls + 1
  /\ alone' = {}
  /\ UNCHANGED <<people, identity, access, task, moves, faults>>

(* The ids of a name that somebody may still hold. *)
Known(g) ==
  {people[g]} \cup {task[w].people[g] : w \in Workers}
    \cup {a.pid : a \in {b \in access \cup UNION {task[w].left : w \in Workers} : b.who = g}}

(* A user or group is created. *)
Create(g) ==
  /\ moves < MaxPeople /\ people[g] = 0
  /\ people' = [people EXCEPT ![g] = Fresh(Known(g))]
  /\ moves' = moves + 1
  /\ alone' = {}
  /\ UNCHANGED <<clone, identity, access, task, pulls, faults>>

(* It is deleted: marked and renamed, so that its rows stay. *)
Delete(g) ==
  /\ moves < MaxPeople /\ people[g] # 0
  /\ people' = [people EXCEPT ![g] = 0]
  /\ moves' = moves + 1
  /\ alone' = {}
  /\ UNCHANGED <<clone, identity, access, task, pulls, faults>>

Next ==
  \/ \E w \in Workers : Start(w) \/ Step(w) \/ Raise(w) \/ Die(w)
  \/ \E c \in Contents : Pull(c)
  \/ \E g \in Grantees : Create(g) \/ Delete(g)

Spec == Init /\ [][Next]_vars

(***************************************************************************)
(* Beat sends the task every half hour, so that one is started again and   *)
(* again, and a task that is running goes on.                              *)
(***************************************************************************)
Fairness ==
  /\ WF_vars(\E w \in Workers : Start(w))
  /\ \A w \in Workers : WF_vars(Step(w))

FairSpec == Spec /\ Fairness

-----------------------------------------------------------------------------
(* Properties. *)

(* What w would delete next, it knows not to be the access of g to r. *)
Knows(w, r, g) ==
  /\ At(w, "drop") => task[w].remove[r] # identity[r]
  /\ At(w, "upsert") => /\ task[w].rules[r] # None /\ g \in task[w].rules[r]
                        /\ task[w].people[g] = people[g]
                        /\ task[w].roles[r] = identity[r]

(***************************************************************************)
(* Nobody loses an access the repository grants, unless a task that runs   *)
(* goes by other templates, or has not seen the grantee or the role as     *)
(* they are now.  The rows are deleted by ids that were listed much        *)
(* earlier, while other tasks insert and delete the same ones.             *)
(***************************************************************************)
KeptWhileGranted ==
  [][\A g \in Grantees : \A r \in Eligible(g) \cap Granted(g) :
       (\A w \in Workers : Knows(w, r, g)) => r \in Eligible(g)' \/ people'[g] # people[g]]_vars

(***************************************************************************)
(* A task that has met nothing else leaves everybody with the accesses     *)
(* the templates grant, whatever earlier tasks have left behind: both      *)
(* halves together, starting from rows a fault or a race has spoiled.      *)
(***************************************************************************)
UndisturbedSyncIsExact ==
  [][\A w \in alone \cap alone' : ~At(w, "idle") /\ At(w, "idle")' /\ clone # Broken => Exact']_vars

(***************************************************************************)
(* The inductive invariants behind the two.  A row always belongs to a     *)
(* role that is there, and what a task will delete has, of the templates   *)
(* it is done with, none of those it is to keep.                           *)
(***************************************************************************)
RowsInv == \A a \in access : identity[a.role] # 0

StruckInv ==
  \A w \in Workers : At(w, "upsert") =>
    /\ \A r \in task[w].todo : task[w].rules[r] # None
    /\ \A r \in Roles \ task[w].todo : task[w].rules[r] # None =>
         \A g \in Named(w, r) : Pairs(task[w].left, w, r, g) = {}

FiniteInv ==
  IsFiniteSet(access) /\ \A w \in Workers : IsFiniteSet(task[w].left)

RowInv == TypeOK /\ RowsInv /\ StruckInv /\ FiniteInv

(***************************************************************************)
(* What a task that meets nothing else has achieved at each of its awaits: *)
(* what it holds is what there is, there is a role for every template and  *)
(* no other, and a row for whomever the templates it is done with name.    *)
(* A row it has not listed for deletion is one of those.                   *)
(***************************************************************************)
Mapped == \A r \in Roles : (clone[r] = None) = (identity[r] = 0)

Done(w) ==
  /\ \A a \in access \ task[w].left :
       /\ a.role \notin task[w].todo /\ clone[a.role] # None
       /\ a.who \in clone[a.role] /\ a.pid = people[a.who] /\ a.pid # 0
  /\ \A r \in Roles \ task[w].todo : clone[r] # None =>
       \A g \in Named(w, r) : Pairs(access, w, r, g) # {}

Past(w, stages) == task[w].pc \in stages

Undisturbed(w) ==
  /\ \A v \in Workers \ {w} : At(v, "idle")
  /\ Past(w, {"known", "drop", "add", "people", "roles", "list", "upsert"})
       => clone # Broken /\ task[w].rules = clone
  /\ At(w, "drop") => \A r \in Roles :
       task[w].remove[r] = IF clone[r] = None THEN identity[r] ELSE 0
  /\ At(w, "add") => \A r \in Roles : clone[r] = None => identity[r] = 0
  /\ Past(w, {"rules", "people", "roles", "list", "upsert"}) /\ clone # Broken => Mapped
  /\ Past(w, {"roles", "list", "upsert"}) => task[w].people = people
  /\ Past(w, {"list", "upsert"}) => task[w].roles = identity
  /\ At(w, "upsert") => Done(w)

AloneInv == \A w \in alone : At(w, "idle") \/ Undisturbed(w)

(***************************************************************************)
(* Once the repository and the people stay as they are, access does too,   *)
(* and is what the templates grant, though tasks go on overlapping.        *)
(***************************************************************************)
AccessSettles == <>[](clone = Broken \/ Exact)
=============================================================================
