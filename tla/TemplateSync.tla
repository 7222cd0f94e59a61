---------------------------- MODULE TemplateSync ----------------------------
(***************************************************************************)
(* How the IAMbic templates of a tenant get from its git repository into   *)
(* the database (common/iambic/templates/tasks.py).                        *)
(*                                                                         *)
(* A Celery task, started every few minutes and after every push, pulls    *)
(* the repository, stamps the tenant with the time it did so, works out    *)
(* the commits made since the stamp it had read, and creates, updates and  *)
(* deletes the rows of the templates those commits changed.  A tenant that *)
(* was never stamped gets a full create.  Each database call is a          *)
(* transaction of its own and the tasks of a tenant take no lock: a worker *)
(* is one running task, and one action of a worker is one transaction.     *)
(*                                                                         *)
(* The repository is external: a linear branch to which people push, and   *)
(* the diff between two commits, which the IAMbic library computes.  Time  *)
(* is counted in commits: a stamp is the number of commits made before it. *)
(* A file holds one template and keeps its path, and its version is the    *)
(* commit that wrote it.                                                   *)
(***************************************************************************)
EXTENDS Naturals, Sequences

CONSTANTS
  Files,       \* the template files of the repository
  Workers,     \* tasks that run at the same time
  Scopes,      \* the scopes considered, among AllScopes
  Never,       \* iambic_templates_last_parsed of a new tenant
  MaxCommits,  \* bound: commits
  MaxFaults    \* bound: exceptions of other code, missing data, dead tasks

(* The provider definitions a template applies to: none, only some that    *)
(* IAMbic merely imports, or some that it manages.                         *)
AllScopes == {"none", "import_only", "managed"}

ASSUME ScopesAssumption == Scopes \subseteq AllScopes
ASSUME BoundsAssumption == MaxCommits \in Nat /\ MaxFaults \in Nat
ASSUME NeverAssumption == Never \notin Nat

VARIABLES
  history,     \* the commits of the default branch, oldest first
  clone,       \* how many of them the clone on disk has, shared by all tasks
  lastParsed,  \* Tenant.iambic_templates_last_parsed
  table,       \* the iambic_template tables, a row at most per file
  worker,      \* what each running task holds in memory
  faults,      \* how many things went wrong so far
  seen,        \* history: the commits whose changes some task carried through
  overlapped   \* history: a task was started while another one ran

vars == <<history, clone, lastParsed, table, worker, faults, seen, overlapped>>

Commit == [file : Files, kind : {"write", "delete"}, scope : AllScopes]
Count == 0 .. MaxCommits
Stamps == Count \cup {Never}

(* The versions whose content and whose references to provider definitions *)
(* a row holds; 0 is no row, or no references.                             *)
Row == [content : Count, refs : Count]
NoRow == [content |-> 0, refs |-> 0]

Steps == {"idle", "pull", "stamp", "plan",
          "create", "add", "clear", "again",     \* create_tenant_templates
          "upsert", "look", "gather",            \* upsert_tenant_templates
          "delete", "done", "forget", "wipe", "restore"}

(* Where a modified file is on its way through update_tenant_template. *)
Progress == {"none", "look", "write", "unref"}

Memory == [pc : Steps,
           since : Stamps,                \* the stamp it read
           calling : {"full", "create", "upsert"},  \* who called the create
           creating : SUBSET Files,       \* files to create rows for
           modified : SUBSET Files,
           deleted : SUBSET Files,
           progress : [Files -> Progress],
           loaded : [Files -> Count],     \* the version it read from disk
           old : [Files -> Count],        \* the references it found
           linking : SUBSET Files,        \* files to add references for
           taken : SUBSET (1 .. MaxCommits)]  \* history: see seen

Idle == [pc |-> "idle", since |-> Never, calling |-> "create",
         creating |-> {}, modified |-> {}, deleted |-> {},
         progress |-> [f \in Files |-> "none"],
         loaded |-> [f \in Files |-> 0], old |-> [f \in Files |-> 0],
         linking |-> {}, taken |-> {}]

TypeOK ==
  /\ history \in Seq(Commit) /\ Len(history) \in Count
  /\ clone \in 0 .. Len(history)
  /\ lastParsed \in Stamps
  /\ table \in [Files -> Row]
  /\ \A f \in Files : table[f].content = 0 => table[f].refs = 0
  /\ worker \in [Workers -> Memory]
  /\ faults \in 0 .. MaxFaults
  /\ seen \subseteq 1 .. Len(history)
  /\ overlapped \in BOOLEAN

Init ==
  /\ history = <<>>
  /\ clone = 0
  /\ lastParsed = Never
  /\ table = [f \in Files |-> NoRow]
  /\ worker = [w \in Workers |-> Idle]
  /\ faults = 0
  /\ seen = {}
  /\ overlapped = FALSE

-----------------------------------------------------------------------------
(* The repository: LastTouch(n, f) holds the last of the first n commits   *)
(* that touched f, and Version(n, f) is 0 if f is not in their tree.       *)
LastTouch(n, f) ==
  {i \in 1 .. n : /\ history[i].file = f
                  /\ \A j \in i + 1 .. n : history[j].file # f}

Version(n, f) ==
  IF \E i \in LastTouch(n, f) : history[i].kind = "write"
  THEN CHOOSE i \in LastTouch(n, f) : TRUE
  ELSE 0

Tree(n) == {f \in Files : Version(n, f) # 0}

Push(f, kind, scope) ==
  /\ Len(history) < MaxCommits
  /\ \/ kind = "write" /\ scope \in Scopes
     \/ kind = "delete" /\ scope = "none" /\ f \in Tree(Len(history))
  /\ history' = Append(history, [file |-> f, kind |-> kind, scope |-> scope])
  /\ UNCHANGED <<clone, lastParsed, table, worker, faults, seen, overlapped>>

(* Which references the rows of a version get: a create leaves out the     *)
(* definitions that are only imported, an update does not.                 *)
RefsOnCreate(v) == IF history[v].scope = "managed" THEN v ELSE 0
HasRefs(v) == history[v].scope # "none"

-----------------------------------------------------------------------------
(* What other code or a user does to a run; the bound on it is MaxFaults. *)
Fault == faults < MaxFaults /\ faults' = faults + 1

Running(w) == worker[w].pc # "idle"

(* sync_tenant_templates_and_definitions: the tenant is read first of all. *)
Begin(w) ==
  /\ worker[w].pc = "idle"
  /\ worker' = [worker EXCEPT ![w] =
                  [Idle EXCEPT !.pc = "pull", !.since = lastParsed]]
  /\ overlapped' = (overlapped \/ \E v \in Workers : Running(v))
  /\ UNCHANGED <<history, clone, lastParsed, table, faults, seen>>

(* A tenant that has disconnected its repository loses its templates. *)
Disconnected(w) ==
  /\ worker[w].pc = "pull"
  /\ Fault
  /\ lastParsed' = Never
  /\ worker' = [worker EXCEPT ![w].pc = "wipe"]
  /\ UNCHANGED <<history, clone, table, seen, overlapped>>

Pull(w) ==
  /\ worker[w].pc = "pull"
  /\ clone' = Len(history)
  /\ worker' = [worker EXCEPT ![w].pc = "stamp"]
  /\ UNCHANGED <<history, lastParsed, table, faults, seen, overlapped>>

Stamp(w) ==
  /\ worker[w].pc = "stamp"
  /\ lastParsed' = Len(history)
  /\ worker' = [worker EXCEPT ![w].pc = "plan"]
  /\ UNCHANGED <<history, clone, table, faults, seen, overlapped>>

(* Without provider definitions the task returns, the stamp stays. *)
NoDefinitions(w) ==
  /\ worker[w].pc = "plan"
  /\ Fault
  /\ worker' = [worker EXCEPT ![w] = Idle]
  /\ UNCHANGED <<history, clone, lastParsed, table, seen, overlapped>>

(* What a create goes on with once it has its paths. *)
Creating(me, files, calling) ==
  [me EXCEPT !.pc = "create", !.calling = calling, !.creating = files]

PlanFull(w) ==
  /\ worker[w].pc = "plan"
  /\ worker[w].since = Never
  /\ worker' = [worker EXCEPT ![w] =
       [Creating(@, Tree(clone), "full") EXCEPT !.taken = 1 .. clone]]
  /\ UNCHANGED <<history, clone, lastParsed, table, faults, seen, overlapped>>

AfterUpsert(me) ==
  [me EXCEPT !.pc = IF me.deleted # {} THEN "delete" ELSE "done"]

AfterCreate(me) ==
  IF me.calling = "create" /\ me.modified # {}
  THEN [me EXCEPT !.pc = "upsert"]
  ELSE AfterUpsert(me)

(***************************************************************************)
(* The commit the changes are counted from.  The loop over the commits     *)
(* stops at the first that is older than the stamp; of those it passes,    *)
(* the newest is to_sha and the oldest from_sha.  With fewer than two a    *)
(* sha is missing, and the library finds what HEAD changed or nothing.     *)
(***************************************************************************)
Bases(since) ==
  IF since + 2 <= clone THEN {since + 1}
  ELSE {clone, IF clone = 0 THEN 0 ELSE clone - 1}

PlanChanges(w) ==
  /\ worker[w].pc = "plan"
  /\ worker[w].since # Never
  /\ \E base \in Bases(worker[w].since) :
       LET new == Tree(clone) \ Tree(base)
           me == [worker[w] EXCEPT
                   !.modified = {f \in Tree(base) \cap Tree(clone) :
                                   Version(base, f) # Version(clone, f)},
                   !.deleted = Tree(base) \ Tree(clone),
                   !.taken = base + 1 .. clone]
       IN worker' = [worker EXCEPT ![w] =
            IF new # {} THEN Creating(me, new, "create") ELSE AfterCreate(me)]
  /\ UNCHANGED <<history, clone, lastParsed, table, faults, seen, overlapped>>

(* The steps of a create; one that the upsert has called goes on beside    *)
(* the adding of references.                                               *)
CreateSteps == {"create", "add", "clear", "again"}

(* What an exception leads to: the handler of a full create, or the one    *)
(* around the whole task.                                                  *)
Raised(me) ==
  [me EXCEPT
     !.linking = IF me.pc \in CreateSteps THEN @ ELSE {},
     !.pc = IF me.calling = "full" /\ me.pc \notin {"done", "forget", "wipe"}
            THEN "forget" ELSE "restore"]

-----------------------------------------------------------------------------
(***************************************************************************)
(* create_tenant_templates_and_definitions: the templates are loaded from  *)
(* disk, then added with their content and references in one transaction.  *)
(***************************************************************************)
OnDisk(files) == files \cap Tree(clone)

Loaded(me, files) ==
  [f \in Files |-> IF f \in files THEN Version(clone, f) ELSE me.loaded[f]]

Create(w) ==
  LET files == OnDisk(worker[w].creating)
      me == [worker[w] EXCEPT !.creating = files,
                              !.loaded = Loaded(worker[w], files)]
  IN /\ me.pc = "create"
     /\ worker' = [worker EXCEPT ![w] = [me EXCEPT !.pc = "add"]]
     /\ UNCHANGED <<history, clone, lastParsed, table, faults, seen, overlapped>>

HasRow(f) == table[f].content # 0

Created(me) ==
  [f \in Files |->
     IF f \in me.creating
     THEN [content |-> me.loaded[f], refs |-> RefsOnCreate(me.loaded[f])]
     ELSE table[f]]

(* A mistake: a run that has created rows updates none. *)
EndCreateAndUpsert(me) ==
  IF me.calling = "upsert" THEN [me EXCEPT !.pc = "gather"]
  ELSE AfterUpsert(me)

(* A create returns to its caller. *)
EndCreate(me) ==
  IF me.calling = "upsert" THEN [me EXCEPT !.pc = "gather"]
  ELSE AfterCreate(me)

Add(w) ==
  LET me == worker[w]
  IN /\ me.pc \in {"add", "again"}
     /\ ~\E f \in me.creating : HasRow(f)
     /\ table' = Created(me)
     /\ worker' = [worker EXCEPT ![w] = EndCreate(me)]
     /\ UNCHANGED <<history, clone, lastParsed, faults, seen, overlapped>>

(* The first IntegrityError is caught, the second is not. *)
AddRefused(w) ==
  LET me == worker[w]
  IN /\ me.pc \in {"add", "again"}
     /\ \E f \in me.creating : HasRow(f)
     /\ worker' = [worker EXCEPT ![w] =
          IF me.pc = "add" THEN [me EXCEPT !.pc = "clear"] ELSE Raised(me)]
     /\ UNCHANGED <<history, clone, lastParsed, table, faults, seen, overlapped>>

WithoutJoined(files) ==  \* a mistake: rows without references are kept
  [f \in Files |-> IF f \in files /\ table[f].refs # 0 THEN NoRow ELSE table[f]]

Without(files) == [f \in Files |-> IF f \in files THEN NoRow ELSE table[f]]

ClearAll(w) ==
  /\ worker[w].pc = "clear"
  /\ worker[w].calling = "full"
  /\ table' = Without(Files)
  /\ worker' = [worker EXCEPT ![w].pc = "again"]
  /\ UNCHANGED <<history, clone, lastParsed, faults, seen, overlapped>>

(* The rows that stand in the way are selected by an inner join with their *)
(* references: one without references stays, and if there is no other,     *)
(* bulk_delete raises on the empty list.                                   *)
Joined(files) == {f \in files : HasRow(f) /\ table[f].refs # 0}

ClearSome(w) ==
  LET found == Joined(worker[w].creating)
  IN /\ worker[w].pc = "clear"
     /\ worker[w].calling # "full"
     /\ table' = Without(found)
     /\ seen' = seen \ {table[f].content : f \in found}
     /\ worker' = [worker EXCEPT ![w] =
          IF found = {} THEN Raised(@) ELSE [@ EXCEPT !.pc = "again"]]
     /\ UNCHANGED <<history, clone, lastParsed, faults, overlapped>>

-----------------------------------------------------------------------------
(***************************************************************************)
(* upsert_tenant_templates_and_definitions: update_tenant_template for the *)
(* modified files, up to 30 at a time, then what these could not do.       *)
(***************************************************************************)
Upsert(w) ==
  LET files == OnDisk(worker[w].modified)
  IN /\ worker[w].pc = "upsert"
     /\ worker' = [worker EXCEPT ![w] =
          [@ EXCEPT !.pc = "look", !.creating = {},
             !.loaded = Loaded(worker[w], files),
             !.progress = [f \in Files |->
                             IF f \in files THEN "look" ELSE "none"]]]
     /\ UNCHANGED <<history, clone, lastParsed, table, faults, seen, overlapped>>

(* A file without a row is left to a create. *)
Look(w, f) ==
  /\ worker[w].pc = "look"
  /\ worker[w].progress[f] = "look"
  /\ worker' = [worker EXCEPT ![w] =
       IF HasRow(f)
       THEN [@ EXCEPT !.progress[f] = "write", !.old[f] = table[f].refs]
       ELSE [@ EXCEPT !.progress[f] = "none",
                      !.creating = worker[w].creating \cup {f}]]
  /\ UNCHANGED <<history, clone, lastParsed, table, faults, seen, overlapped>>

WriteContent(w, f) ==
  /\ worker[w].pc = "look"
  /\ worker[w].progress[f] = "write"
  /\ table' = IF HasRow(f)
              THEN [table EXCEPT ![f].content = worker[w].loaded[f]]
              ELSE table
  /\ worker' = [worker EXCEPT ![w].progress[f] = "unref"]
  /\ UNCHANGED <<history, clone, lastParsed, faults, seen, overlapped>>

(* A mistake: references that were there before are not added again. *)
UnrefForGood(w, f) ==
  /\ worker[w].pc = "look"
  /\ worker[w].progress[f] = "unref"
  /\ table' = [table EXCEPT ![f].refs = 0]
  /\ worker' = [worker EXCEPT ![w] =
       [@ EXCEPT !.progress[f] = "none",
          !.linking = IF HasRefs(worker[w].loaded[f]) /\ worker[w].old[f] = 0
                      THEN @ \cup {f} ELSE @]]
  /\ UNCHANGED <<history, clone, lastParsed, faults, seen, overlapped>>

(* The references are looked up under ids of another table, so all of them *)
(* are deleted, and all that apply are added again later.                  *)
Unref(w, f) ==
  /\ worker[w].pc = "look"
  /\ worker[w].progress[f] = "unref"
  /\ table' = IF table[f].refs = worker[w].old[f]
              THEN [table EXCEPT ![f].refs = 0]
              ELSE table
  /\ worker' = [worker EXCEPT ![w] =
       [@ EXCEPT !.progress[f] = "none",
          !.linking = worker[w].linking
                        \cup (IF HasRefs(worker[w].loaded[f]) THEN {f} ELSE {})]]
  /\ UNCHANGED <<history, clone, lastParsed, faults, seen, overlapped>>

Gather(w) ==
  LET me == worker[w]
  IN /\ me.pc = "look"
     /\ \A f \in Files : me.progress[f] = "none"
     /\ worker' = [worker EXCEPT ![w] =
          IF me.creating # {} THEN Creating(me, me.creating, "upsert")
          ELSE [me EXCEPT !.pc = "gather"]]
     /\ UNCHANGED <<history, clone, lastParsed, table, faults, seen, overlapped>>

(* The references that are still to be added go in one transaction, even   *)
(* if the create beside it has raised meanwhile.                           *)
Link(w) ==
  LET me == worker[w]
      fits == \A f \in me.linking : HasRow(f) /\ table[f].refs = 0
  IN /\ me.linking # {}
     /\ me.pc \in CreateSteps \cup {"gather", "restore"}
     /\ table' = IF fits
                 THEN [f \in Files |-> IF f \in me.linking
                                       THEN [table[f] EXCEPT !.refs = me.loaded[f]]
                                       ELSE table[f]]
                 ELSE table
     /\ worker' = [worker EXCEPT ![w] =
          [(IF fits THEN me ELSE Raised(me)) EXCEPT !.linking = {}]]
     /\ UNCHANGED <<history, clone, lastParsed, faults, seen, overlapped>>

EndUpsert(w) ==
  /\ worker[w].pc = "gather"
  /\ worker[w].linking = {}
  /\ worker' = [worker EXCEPT ![w] = AfterUpsert(@)]
  /\ UNCHANGED <<history, clone, lastParsed, table, faults, seen, overlapped>>

-----------------------------------------------------------------------------
(* A mistake: the references of a deleted template are left behind. *)
DeleteTemplateOnly(w) ==
  /\ worker[w].pc = "delete"
  /\ table' = [f \in Files |-> IF f \in Joined(worker[w].deleted)
                              THEN [table[f] EXCEPT !.content = 0]
                              ELSE table[f]]
  /\ worker' = [worker EXCEPT ![w].pc = "done"]
  /\ UNCHANGED <<history, clone, lastParsed, faults, seen, overlapped>>

(* delete_tenant_templates_and_definitions, with the same inner join.      *)
Delete(w) ==
  /\ worker[w].pc = "delete"
  /\ table' = Without(Joined(worker[w].deleted))
  /\ worker' = [worker EXCEPT ![w].pc = "done"]
  /\ UNCHANGED <<history, clone, lastParsed, faults, seen, overlapped>>

(* invoke_dependent_tasks *)
Finish(w) ==
  /\ worker[w].pc = "done"
  /\ worker' = [worker EXCEPT ![w] = Idle]
  /\ seen' = seen \cup worker[w].taken
  /\ UNCHANGED <<history, clone, lastParsed, table, faults, overlapped>>

(* The handlers of exceptions. *)
Forget(w) ==
  /\ worker[w].pc = "forget"
  /\ lastParsed' = Never
  /\ worker' = [worker EXCEPT ![w].pc = "wipe"]
  /\ UNCHANGED <<history, clone, table, faults, seen, overlapped>>

Wipe(w) ==
  /\ worker[w].pc = "wipe"
  /\ table' = Without(Files)
  /\ worker' = [worker EXCEPT ![w] = Idle]
  /\ UNCHANGED <<history, clone, lastParsed, faults, seen, overlapped>>

Restore(w) ==
  /\ worker[w].pc = "restore"
  /\ lastParsed' = worker[w].since
  /\ worker' = [worker EXCEPT ![w] = Idle]
  /\ UNCHANGED <<history, clone, table, faults, seen, overlapped>>

(* A call of this code raises inside the try. *)
Fail(w) ==
  /\ worker[w].pc \notin {"idle", "pull", "stamp", "restore"}
  /\ worker[w].pc = "wipe" => worker[w].calling = "full"
  /\ Fault
  /\ worker' = [worker EXCEPT ![w] = Raised(@)]
  /\ UNCHANGED <<history, clone, lastParsed, table, seen, overlapped>>

(* It raises elsewhere, or the worker process dies. *)
Crash(w) ==
  /\ worker[w].pc # "idle"
  /\ Fault
  /\ worker' = [worker EXCEPT ![w] = Idle]
  /\ UNCHANGED <<history, clone, lastParsed, table, seen, overlapped>>

-----------------------------------------------------------------------------
Continue(w) ==
  \/ Pull(w) \/ Stamp(w) \/ PlanFull(w) \/ PlanChanges(w)
  \/ Create(w) \/ Add(w) \/ AddRefused(w) \/ ClearAll(w) \/ ClearSome(w)
  \/ Upsert(w)
  \/ \E f \in Files : Look(w, f) \/ WriteContent(w, f) \/ Unref(w, f)
  \/ Gather(w) \/ Link(w) \/ EndUpsert(w)
  \/ Delete(w) \/ Finish(w)
  \/ Forget(w) \/ Wipe(w) \/ Restore(w)

Next ==
  \/ \E w \in Workers :
       \/ Begin(w) \/ Continue(w)
       \/ Disconnected(w) \/ NoDefinitions(w) \/ Fail(w) \/ Crash(w)
  \/ \E f \in Files, kind \in {"write", "delete"}, scope \in Scopes \cup {"none"} :
       Push(f, kind, scope)

Spec == Init /\ [][Next]_vars

-----------------------------------------------------------------------------
Undisturbed ==
  faults = 0 /\ ~overlapped /\ ~\E w \in Workers : Running(w)

(***************************************************************************)
(* Between runs that did not overlap and in which nothing else failed, the *)
(* rows of a tenant are what its repository held when it was stamped, with *)
(* two exceptions.  The last commit to the file was carried through by no  *)
(* run: it fell out of the window of sync_tenant_templates_and_definitions *)
(* or came between the pull and the stamp, or its run raised.  Or the file *)
(* is gone, and its row was left because it has no references or because   *)
(* an earlier commit was missed.  Nothing else goes wrong.                 *)
(***************************************************************************)
Missed(f) ==
  {i \in 1 .. lastParsed : history[i].file = f /\ i \notin seen}

StaleIsExplained ==
  Undisturbed /\ lastParsed # Never =>
    \A f \in Files :
      \/ table[f].content = Version(lastParsed, f)
      \/ LastTouch(lastParsed, f) \cap Missed(f) # {}
      \/ Version(lastParsed, f) = 0 /\ (table[f].refs = 0 \/ Missed(f) # {})

(***************************************************************************)
(* Between such runs, a row whose template applies to managed provider     *)
(* definitions refers to them and one that applies to none refers to none, *)
(* although update_tenant_template always takes the old references away in *)
(* one transaction and upsert_tenant_templates_and_definitions adds the    *)
(* new ones in another.                                                    *)
(***************************************************************************)
RefsFollowContent ==
  Undisturbed =>
    \A f \in Files : HasRow(f) =>
      LET scope == history[table[f].content].scope
      IN /\ scope = "managed" => table[f].refs # 0
         /\ scope = "none" => table[f].refs = 0

(***************************************************************************)
(* Celery goes on with a task it has started, and starts one every few     *)
(* minutes.                                                                *)
(***************************************************************************)
Fairness == \A w \in Workers : WF_vars(Continue(w)) /\ WF_vars(Begin(w))

FairSpec == Spec /\ Fairness

(***************************************************************************)
(* A tenant whose full create failed gets another one, and this one gets   *)
(* through, whatever rows the failed one, its rollback or a dead worker    *)
(* left behind: once the faults and the pushes are over, a tenant without  *)
(* a stamp ends up with a current row for every file of its repository.    *)
(* A row left behind of a file that is gone since may stay.                *)
(***************************************************************************)
FullCreateIsRetried ==
  (/\ lastParsed = Never /\ ~\E w \in Workers : Running(w)
   /\ faults = MaxFaults /\ Len(history) = MaxCommits) ~>
    (/\ lastParsed # Never
     /\ \A f \in Tree(Len(history)) :
          table[f].content = Version(Len(history), f))
=============================================================================
