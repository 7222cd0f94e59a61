------------------------ MODULE RequestBranchProofs ------------------------
(***************************************************************************)
(* Proofs about RequestBranch, for any files, bodies and changes, any      *)
(* number of handlers and every value of the bounds.                       *)
(***************************************************************************)
EXTENDS RequestBranch, TLAPS

-----------------------------------------------------------------------------
(* TypeOK by its parts, and what the types of a step rest on.              *)

CommitsInv ==
  /\ commits \in Seq([tree : Tree, past : SUBSET Commit])
  /\ Len(commits) \in Commit
  /\ \A c \in DOMAIN commits : \A p \in commits[c].past : p < c

(* What main means in the directory is a commit, too. *)
RefsInv ==
  /\ main \in DOMAIN commits
  /\ branch \in DOMAIN commits \cup {0}
  /\ clone \in Clone
  /\ clone.at \in DOMAIN commits \cup {0}

DirectoryInv ==
  /\ dir \in Directory
  /\ dir.base \in DOMAIN commits \cup {0}
  /\ dir.has => dir.at \in DOMAIN commits
  /\ dir.has /\ dir.base = 0 => clone.at # 0 /\ clone.named

BoundsInv ==
  /\ disturbed \in BOOLEAN
  /\ calls \in 0 .. MaxCalls /\ edits \in 0 .. MaxEdits
  /\ faults \in 0 .. MaxFaults

(* The stages that a handler of each kind goes through. *)
HandlersInv ==
  /\ handler \in [Handlers -> Memory]
  /\ \A h \in Handlers :
       /\ handler[h].pc = "idle" => handler[h] = Idle
       /\ handler[h].op = "none" => handler[h].pc = "idle"
       /\ handler[h].op \in {"create", "update"} => handler[h].change \in Changes
       /\ handler[h].op \in {"update", "view", "merge"} => branch # 0
       /\ handler[h].op = "create" =>
            /\ branch = 0
            /\ \A k \in Handlers \ {h} : handler[k] = Idle
       /\ handler[h].pc \in {"pull", "reset"} => handler[h].op = "update"
       /\ handler[h].pc \in Writing => handler[h].op \in {"create", "update"}

TypeInv ==
  /\ CommitsInv
  /\ RefsInv
  /\ DirectoryInv
  /\ BoundsInv
  /\ HandlersInv

(* The parts are all of TypeOK. *)
LEMMA TypeInvIsTypeOK ==
  TypeInv => TypeOK
BY DEF TypeInv, CommitsInv, RefsInv, DirectoryInv, BoundsInv, HandlersInv, TypeOK

(***************************************************************************)
(* What a handler that nobody has disturbed knows of the directory: it is  *)
(* the only one that writes there, and what it has pulled is among the     *)
(* commits before the one that is checked out.                             *)
(***************************************************************************)
OneWriter ==
  \A h, k \in Handlers :
    handler[h].pc \in Writing /\ handler[k].pc \in Writing => h = k

SawInv ==
  \A h \in Handlers :
    handler[h].pc \in Writing /\ handler[h].op = "update"
    => handler[h].saw \in Past(dir.at)

(***************************************************************************)
(* What is staged is what the file is or what main has, so that `git diff` *)
(* finds all of it; and what each step of an update leaves to the next.    *)
(***************************************************************************)
StagedInv ==
  \A f \in Files : dir.index[f] \in {dir.files[f], TreeOf(Base)[f]}

Holds(m) ==
  /\ m.pc \in {"write", "stage"} =>
       /\ m.base = Base
       /\ dir.index = TreeOf(m.base)
  /\ m.pc = "stage" =>
       \A f \in DOMAIN m.change : dir.files[f] = m.change[f]
  /\ m.pc \in {"write", "stage", "commit", "push"} => m.base \in DOMAIN commits
  /\ m.pc = "commit" => dir.index = Over(TreeOf(m.base), m.change)
  /\ m.pc = "push" => TreeOf(dir.at) = Over(TreeOf(m.base), m.change)

WriterInv == \A h \in Handlers : Holds(handler[h])

DirInv ==
  ~disturbed => OneWriter /\ (dir.has => SawInv /\ StagedInv /\ WriterInv)

Inv == TypeInv /\ DirInv

-----------------------------------------------------------------------------
(* Commits and trees. *)

(* A tree with some of its files exchanged is a tree. *)
LEMMA TreesType ==
  /\ Empty \in Tree
  /\ \A t \in Tree, s \in Tree : \A names : With(t, s, names) \in Tree
  /\ \A t \in Tree : \A change \in Changes :
       Over(t, change) \in Tree /\ DOMAIN change \subseteq Files
BY ChangesAssumption DEF Empty, Tree, With, Over

(* What is before a commit, and the commit, are commits no later than it. *)
LEMMA PastType ==
  ASSUME CommitsInv, NEW c \in DOMAIN commits \cup {0}
  PROVE  /\ Past(c) \subseteq 1 .. Len(commits)
         /\ c # 0 => c \in Past(c) /\ TreeOf(c) \in Tree
<1>1. /\ Len(commits) \in Nat /\ DOMAIN commits = 1 .. Len(commits)
      /\ 1 .. Len(commits) \subseteq Commit
  BY BoundsAssumption DEF CommitsInv, Commit
<1>2. CASE c = 0
  BY <1>2 DEF Past
<1>3. CASE c # 0
  <2> DEFINE R == [tree : Tree, past : SUBSET Commit]
  <2>0. c \in 1 .. Len(commits) /\ commits \in Seq(R)
    BY <1>1, <1>3 DEF CommitsInv
  <2>1. c \in 1 .. Len(commits) /\ commits[c] \in R
    <3> HIDE DEF R
    <3> QED BY <2>0
  <2>2. \A p \in commits[c].past : p \in Nat /\ p > 0 /\ p < c
    BY <1>1, <2>1 DEF CommitsInv, Commit
  <2>3. commits[c].past \subseteq 1 .. Len(commits)
    BY <1>1, <2>1, <2>2
  <2> QED BY <1>3, <2>1, <2>3 DEF Past, TreeOf
<1> QED BY <1>2, <1>3

(* No commit is changed or taken away by a step. *)
Grows ==
  /\ DOMAIN commits \subseteq DOMAIN commits'
  /\ \A c \in DOMAIN commits : commits'[c] = commits[c]

(* A new commit comes after all there are. *)
LEMMA CommittedType ==
  ASSUME CommitsInv, NEW tree \in Tree, NEW past \in SUBSET (1 .. Len(commits)),
         Committed(tree, past)
  PROVE  /\ CommitsInv' /\ Grows
         /\ DOMAIN commits' = DOMAIN commits \cup {Latest}
         /\ commits'[Latest] = [tree |-> tree, past |-> past]
         /\ Latest \in Commit
<1> DEFINE n == Len(commits)
           new == [tree |-> tree, past |-> past]
<1>1. /\ n \in Nat /\ MaxCommits \in Nat /\ n < MaxCommits
      /\ commits \in Seq([tree : Tree, past : SUBSET Commit])
      /\ commits' = Append(commits, new)
      /\ \A c \in 1 .. n : \A p \in commits[c].past : p < c
  BY BoundsAssumption DEF CommitsInv, Commit, Committed
<1>2. n + 1 \in Commit /\ 1 .. n \subseteq Commit
  BY <1>1 DEF Commit
<1>3. new \in [tree : Tree, past : SUBSET Commit]
  BY <1>2
<1>4. commits' \in Seq([tree : Tree, past : SUBSET Commit]) /\ Len(commits') = n + 1
  BY <1>1, <1>3
<1>5. DOMAIN commits = 1 .. n /\ DOMAIN commits' = 1 .. n + 1
  BY <1>1, <1>4
<1>6. /\ \A c \in 1 .. n : commits'[c] = commits[c]
      /\ commits'[n + 1] = new
  BY <1>1
<1>7. 1 .. n + 1 = (1 .. n) \cup {n + 1}
  BY <1>1
<1>8. \A c \in 1 .. n + 1 : \A p \in commits'[c].past : p < c
  <2>1. \A p \in past : p < n + 1
    BY <1>1
  <2> QED BY <1>1, <1>6, <1>7, <2>1
<1> HIDE DEF new
<1>9. CommitsInv'
  BY <1>2, <1>4, <1>5, <1>8 DEF CommitsInv, Commit
<1> QED BY <1>2, <1>5, <1>6, <1>7, <1>9 DEF Grows, Latest, new

(* What main means in a directory that is there is a commit. *)
LEMMA BaseType ==
  ASSUME TypeInv, dir.has
  PROVE  /\ Base \in DOMAIN commits /\ Base \in Commit
         /\ TreeOf(Base) \in Tree
         /\ dir.at \in DOMAIN commits /\ TreeOf(dir.at) \in Tree
         /\ dir.index \in Tree /\ dir.files \in Tree
<1>1. Base \in DOMAIN commits /\ dir.at \in DOMAIN commits
  BY DEF TypeInv, DirectoryInv, RefsInv, Base
<1>2. DOMAIN commits \subseteq Commit /\ 0 \notin DOMAIN commits
  BY BoundsAssumption DEF TypeInv, CommitsInv, Commit
<1>3. TreeOf(Base) \in Tree /\ TreeOf(dir.at) \in Tree
  BY <1>1, <1>2, PastType DEF TypeInv
<1> QED BY <1>1, <1>2, <1>3 DEF TypeInv, DirectoryInv, Directory

-----------------------------------------------------------------------------
(* Types. *)

(* A handler that goes on to a stage of its kind, or stops. *)
LEMMA HandlerStep ==
  ASSUME HandlersInv, NEW h \in Handlers, handler[h].pc # "idle",
         NEW n \in Memory, handler' = [handler EXCEPT ![h] = n],
         \/ n = Idle /\ (branch' = branch \/ branch' # 0)
         \/ /\ branch' = branch
            /\ n.pc # "idle" /\ n.op = handler[h].op /\ n.change = handler[h].change
            /\ n.pc \in {"pull", "reset"} => n.op = "update"
            /\ n.pc \in Writing => n.op \in {"create", "update"}
  PROVE  HandlersInv'
<1>1. /\ handler \in [Handlers -> Memory] /\ handler'[h] = n
      /\ \A k \in Handlers \ {h} : handler'[k] = handler[k]
      /\ handler' \in [Handlers -> Memory]
  BY DEF HandlersInv
<1>2. handler[h] # Idle /\ handler[h].op # "none"
  BY DEF HandlersInv, Idle
<1>3. \A k \in Handlers \ {h} : handler[k].op # "create"
  BY <1>2 DEF HandlersInv
<1>4. Idle.pc = "idle" /\ Idle.op = "none"
  BY DEF Idle
<1>5. /\ n.pc = "idle" => n = Idle
      /\ n.op = "none" => n.pc = "idle"
      /\ n.op \in {"create", "update"} => n.change \in Changes
      /\ n.op \in {"update", "view", "merge"} => branch' # 0
      /\ n.op = "create" =>
           /\ branch' = 0
           /\ \A k \in Handlers \ {h} : handler[k] = Idle
      /\ n.pc \in {"pull", "reset"} => n.op = "update"
      /\ n.pc \in Writing => n.op \in {"create", "update"}
  BY <1>2, <1>4 DEF HandlersInv, Writing
<1>6. ASSUME NEW k \in Handlers \ {h}
      PROVE  /\ handler[k].pc = "idle" => handler[k] = Idle
             /\ handler[k].op = "none" => handler[k].pc = "idle"
             /\ handler[k].op \in {"create", "update"} => handler[k].change \in Changes
             /\ handler[k].op \in {"update", "view", "merge"} => branch' # 0
             /\ handler[k].pc \in {"pull", "reset"} => handler[k].op = "update"
             /\ handler[k].pc \in Writing => handler[k].op \in {"create", "update"}
  BY DEF HandlersInv
<1> QED BY <1>1, <1>3, <1>5, <1>6 DEF HandlersInv

(* What a handler may have in memory after a step. *)
LEMMA MemoryType ==
  /\ Idle \in Memory
  /\ \A m \in Memory : \A pc \in Writing \cup
       {"idle", "setup", "rebuild", "pull", "load", "post"} :
         [m EXCEPT !.pc = pc] \in Memory
  /\ \A m \in Memory : \A pc \in Writing \cup {"pull", "load", "post"}, c \in Commit \cup {0} :
         /\ [m EXCEPT !.pc = pc, !.saw = c] \in Memory
         /\ [m EXCEPT !.pc = pc, !.base = c] \in Memory
<1>1. Idle \in Memory
  BY DEF Memory, Idle
<1>2. \A m \in Memory : \A pc \in Writing \cup
        {"idle", "setup", "rebuild", "pull", "load", "post"} :
          [m EXCEPT !.pc = pc] \in Memory
  BY DEF Memory
<1>3. \A m \in Memory : \A pc \in Writing \cup {"pull", "load", "post"}, c \in Commit \cup {0} :
        [m EXCEPT !.pc = pc, !.saw = c] \in Memory
  BY DEF Memory
<1>4. \A m \in Memory : \A pc \in Writing \cup {"pull", "load", "post"}, c \in Commit \cup {0} :
        [m EXCEPT !.pc = pc, !.base = c] \in Memory
  BY DEF Memory
<1> QED BY <1>1, <1>2, <1>3, <1>4

(* A handler that raises. *)
LEMMA RaisesType ==
  ASSUME TypeInv, NEW h \in Handlers, Raises(h), handler[h].pc # "idle"
  PROVE  HandlersInv' /\ CommitsInv' /\ RefsInv' /\ BoundsInv'
<1>1. HandlersInv'
  BY HandlerStep, MemoryType DEF TypeInv, Raises, remote
<1> QED BY <1>1 DEF TypeInv, CommitsInv, RefsInv, BoundsInv, Raises, remote, counters

(* A handler that goes on to a stage. *)
LEMMA GoesType ==
  ASSUME HandlersInv, NEW h \in Handlers, NEW pc, Goes(h, pc), handler[h].pc # "idle",
         branch' = branch,
         pc \in Writing \cup {"setup", "rebuild", "pull", "load", "post"},
         pc \in {"pull", "reset"} => handler[h].op = "update",
         pc \in Writing => handler[h].op \in {"create", "update"}
  PROVE  HandlersInv'
<1> DEFINE n == [handler[h] EXCEPT !.pc = pc]
<1>1. handler \in [Handlers -> Memory]
  BY DEF HandlersInv
<1>2. n \in Memory
  BY <1>1, MemoryType
<1>3. n.pc = pc /\ n.op = handler[h].op /\ n.change = handler[h].change
  BY <1>1 DEF Memory
<1>4. handler' = [handler EXCEPT ![h] = n]
  BY DEF Goes
<1>5. pc # "idle"
  BY DEF Writing
<1> HIDE DEF n
<1> QED BY <1>2, <1>3, <1>4, <1>5, HandlerStep

(* A step that leaves alone what is not named here. *)
LEMMA RestType ==
  ASSUME TypeInv, UNCHANGED commits
  PROVE  /\ CommitsInv'
         /\ UNCHANGED <<main, branch, clone>> => RefsInv'
         /\ UNCHANGED <<clone, dir>> => DirectoryInv'
         /\ UNCHANGED <<handler, branch>> => HandlersInv'
         /\ UNCHANGED <<disturbed, calls, edits, faults>> => BoundsInv'
<1>1. CommitsInv'
  BY DEF TypeInv, CommitsInv
<1>2. UNCHANGED <<main, branch, clone>> => RefsInv'
  BY DEF TypeInv, RefsInv
<1>3. UNCHANGED <<clone, dir>> => DirectoryInv'
  BY DEF TypeInv, DirectoryInv
<1>4. UNCHANGED <<handler, branch>> => HandlersInv'
  BY DEF TypeInv, HandlersInv
<1>5. UNCHANGED <<disturbed, calls, edits, faults>> => BoundsInv'
  BY DEF TypeInv, BoundsInv
<1> QED BY <1>1, <1>2, <1>3, <1>4, <1>5

(* A commit of a branch is a commit. *)
LEMMA CommitType ==
  ASSUME TypeInv
  PROVE  /\ DOMAIN commits \subseteq Commit /\ 0 \notin DOMAIN commits
         /\ main \in DOMAIN commits /\ main \in Commit
         /\ branch \in Commit \cup {0}
         /\ TreeOf(main) \in Tree
         /\ branch # 0 => TreeOf(branch) \in Tree
<1>1. DOMAIN commits \subseteq Commit /\ 0 \notin DOMAIN commits
  BY BoundsAssumption DEF TypeInv, CommitsInv, Commit
<1>2. main \in DOMAIN commits /\ branch \in DOMAIN commits \cup {0}
  BY DEF TypeInv, RefsInv
<1>3. main # 0 => TreeOf(main) \in Tree
  BY <1>2, PastType DEF TypeInv
<1>4. branch # 0 => TreeOf(branch) \in Tree
  BY <1>2, PastType DEF TypeInv
<1> QED BY <1>1, <1>2, <1>3, <1>4

(* What a worktree is made of. *)
LEMMA WorktreeType ==
  ASSUME TypeInv, NEW c \in DOMAIN commits, NEW b \in DOMAIN commits \cup {0}
  PROVE  /\ NoDir \in Directory
         /\ [Worktree(c) EXCEPT !.base = b] \in Directory
         /\ Worktree(c) \in Directory
         /\ Worktree(c).has /\ Worktree(c).at = c /\ Worktree(c).base = 0
         /\ Worktree(c).index = TreeOf(c) /\ Worktree(c).files = TreeOf(c)
<1>1. c \in Commit /\ b \in Commit \cup {0} /\ c # 0
  BY CommitType
<1>2. TreeOf(c) \in Tree /\ Empty \in Tree
  BY <1>1, PastType, TreesType DEF TypeInv
<1> HIDE DEF Tree
<1> QED BY <1>1, <1>2 DEF Worktree, NoDir, Directory

(* The beginning of a call. *)
LEMMA BeginType ==
  ASSUME TypeInv, NEW h \in Handlers,
         \/ \E change \in Changes : BeginCreate(h, change) \/ Begin(h, "update", change)
         \/ \E op \in {"view", "merge"} : Begin(h, op, <<>>)
  PROVE  TypeInv'
<1>1. UNCHANGED commits
  BY DEF BeginCreate, Begin, remote
<1>2. PICK op \in {"create", "update", "view", "merge"}, change \in Changes \cup {<<>>} :
        /\ handler' = [handler EXCEPT ![h] = [Idle EXCEPT
             !.pc = "setup", !.op = op, !.change = change]]
        /\ op \in {"create", "update"} => change \in Changes
        /\ op = "create" => branch = 0 /\ \A k \in Handlers : handler[k] = Idle
        /\ op # "create" => branch # 0
        /\ UNCHANGED branch
  BY DEF BeginCreate, Begin, remote
<1>3. DEFINE n == [Idle EXCEPT !.pc = "setup", !.op = op, !.change = change]
<1>4. /\ n \in Memory /\ n.pc = "setup" /\ n.op = op /\ n.change = change
  BY DEF Idle, Memory
<1> HIDE DEF n
<1>5. /\ handler \in [Handlers -> Memory]
      /\ handler' = [handler EXCEPT ![h] = n]
  BY <1>2 DEF TypeInv, HandlersInv, n
<1>6. /\ handler' \in [Handlers -> Memory] /\ handler'[h] = n
      /\ \A k \in Handlers \ {h} : handler'[k] = handler[k]
  BY <1>4, <1>5
<1>7. HandlersInv'
  <2>1. ASSUME NEW k \in Handlers
        PROVE  /\ handler'[k].pc = "idle" => handler'[k] = Idle
               /\ handler'[k].op = "none" => handler'[k].pc = "idle"
               /\ handler'[k].op \in {"create", "update"} => handler'[k].change \in Changes
               /\ handler'[k].op \in {"update", "view", "merge"} => branch' # 0
               /\ handler'[k].pc \in {"pull", "reset"} => handler'[k].op = "update"
               /\ handler'[k].pc \in Writing => handler'[k].op \in {"create", "update"}
    <3>1. CASE k = h
      BY <3>1, <1>2, <1>4, <1>6 DEF Writing
    <3>2. CASE k # h
      BY <3>2, <1>2, <1>6 DEF TypeInv, HandlersInv
    <3> QED BY <3>1, <3>2
  <2>2. ASSUME NEW k \in Handlers, handler'[k].op = "create"
        PROVE  branch' = 0 /\ \A j \in Handlers \ {k} : handler'[j] = Idle
    <3>1. CASE op = "create"
      <4>1. k = h
        BY <3>1, <2>2, <1>2, <1>6 DEF Idle
      <4> QED BY <3>1, <4>1, <1>2, <1>6
    <3>2. CASE op # "create"
      BY <3>2, <2>2, <1>2, <1>4, <1>6 DEF TypeInv, HandlersInv
    <3> QED BY <3>1, <3>2
  <2> QED BY <1>6, <2>1, <2>2 DEF HandlersInv
<1>8. UNCHANGED <<main, branch, clone>>
  BY DEF BeginCreate, Begin, remote
<1>9. BoundsInv'
  <2>1. Call /\ UNCHANGED <<disturbed, edits, faults>>
    BY DEF BeginCreate, Begin
  <2> QED BY <2>1, BoundsAssumption DEF Call, TypeInv, BoundsInv
<1>10. DirectoryInv'
  <2>1. dir' = dir \/ dir' = NoDir
    BY DEF BeginCreate, Begin
  <2>2. NoDir \in Directory /\ ~NoDir.has /\ NoDir.base = 0
    BY TreesType DEF NoDir, Directory
  <2> QED BY <1>1, <1>8, <2>1, <2>2 DEF TypeInv, DirectoryInv
<1> QED BY <1>1, <1>7, <1>8, <1>9, <1>10, RestType DEF TypeInv

(* Setting up the directory. *)
LEMMA SetupType ==
  ASSUME TypeInv, NEW h \in Handlers,
         \/ FindDir(h) \/ CloneDefault(h) \/ MissDir(h) \/ Rebuild(h)
         \/ RebuildRaises(h) \/ SparseClone(h) \/ NotListed(h)
  PROVE  TypeInv'
<1>1. /\ UNCHANGED commits /\ UNCHANGED <<main, branch>> /\ UNCHANGED <<calls, edits, faults>>
      /\ handler[h].pc # "idle"
  BY DEF FindDir, CloneDefault, MissDir, Rebuild, RebuildRaises, SparseClone, NotListed,
         Raises, remote, counters
<1>2. handler \in [Handlers -> Memory] /\ HandlersInv
  BY DEF TypeInv, HandlersInv
<1>3. /\ main \in DOMAIN commits /\ main \in Commit /\ main # 0
      /\ NoDir \in Directory /\ ~NoDir.has /\ NoDir.base = 0
  <2>1. main \in DOMAIN commits /\ main \in Commit /\ main # 0
    BY CommitType
  <2> QED BY <2>1, WorktreeType DEF NoDir
<1>4. CASE FindDir(h) \/ MissDir(h)
  <2>1. HandlersInv'
    <3>1. CASE handler[h].op = "update"
      BY <1>1, <1>2, <1>4, <3>1, GoesType DEF FindDir, MissDir
    <3>2. CASE handler[h].op # "update"
      BY <1>1, <1>2, <1>4, <3>2, GoesType DEF FindDir, MissDir, Writing
    <3> QED BY <3>1, <3>2
  <2> QED BY <1>1, <1>4, <2>1, RestType DEF FindDir, MissDir, remote, counters, TypeInv
<1>5. CASE NotListed(h)
  BY <1>1, <1>5, RaisesType, RestType DEF NotListed, Raises, TypeInv
<1>6. CASE CloneDefault(h)
  <2>1. HandlersInv'
    <3>1. CASE handler' = handler
      BY <1>1, <3>1, RestType
    <3>2. CASE handler' = [handler EXCEPT ![h] = Idle]
      BY <1>1, <1>2, <3>2, HandlerStep, MemoryType
    <3> QED BY <1>6, <3>1, <3>2 DEF CloneDefault
  <2>2. RefsInv' /\ DirectoryInv'
    BY <1>1, <1>3, <1>6 DEF CloneDefault, TypeInv, RefsInv, DirectoryInv, Clone
  <2> QED BY <1>1, <1>6, <2>1, <2>2, RestType DEF CloneDefault, TypeInv
<1>7. CASE Rebuild(h)
  <2>1. HandlersInv'
    <3>1. CASE handler[h].op = "update"
      BY <1>1, <1>2, <1>7, <3>1, GoesType DEF Rebuild
    <3>2. CASE handler[h].op # "update"
      BY <1>1, <1>2, <1>7, <3>2, GoesType DEF Rebuild, Writing
    <3> QED BY <3>1, <3>2
  <2>2. RefsInv'
    BY <1>1, <1>3, <1>7 DEF Rebuild, TypeInv, RefsInv, Clone
  <2>3. DirectoryInv'
    <3>1. /\ dir' = Worktree(main) /\ clone'.at = main /\ clone'.named
      BY <1>7 DEF Rebuild
    <3>2. /\ dir' \in Directory /\ dir'.has /\ dir'.at = main /\ dir'.base = 0
      BY <1>3, <3>1, WorktreeType
    <3> QED BY <1>1, <1>3, <3>1, <3>2 DEF DirectoryInv
  <2>4. BoundsInv'
    BY <1>1, <1>7 DEF Rebuild, Meets, TypeInv, BoundsInv
  <2> QED BY <1>1, <2>1, <2>2, <2>3, <2>4, RestType DEF TypeInv
<1>8. CASE RebuildRaises(h)
  <2>1. HandlersInv'
    BY <1>1, <1>2, <1>8, HandlerStep, MemoryType DEF RebuildRaises
  <2>2. RefsInv' /\ DirectoryInv'
    BY <1>1, <1>3, <1>8 DEF RebuildRaises, TypeInv, RefsInv, DirectoryInv, Clone
  <2>3. BoundsInv'
    BY <1>1, <1>8 DEF RebuildRaises, Meets, TypeInv, BoundsInv
  <2> QED BY <1>1, <2>1, <2>2, <2>3, RestType DEF TypeInv
<1>9. CASE SparseClone(h)
  <2> DEFINE n == [handler[h] EXCEPT !.pc = "write", !.base = main]
  <2>1. /\ n \in Memory /\ n.pc = "write" /\ n.op = "create" /\ n.change = handler[h].change
        /\ handler' = [handler EXCEPT ![h] = n]
    <3>1. n \in Memory
      BY <1>2, <1>3, MemoryType DEF Writing
    <3>2. handler[h] \in Memory /\ handler[h].op = "create"
      BY <1>2, <1>9 DEF SparseClone
    <3>3. n.pc = "write" /\ n.op = "create" /\ n.change = handler[h].change
      BY <3>2 DEF Memory
    <3> QED BY <3>1, <3>3, <1>9 DEF SparseClone
  <2> HIDE DEF n
  <2>2. HandlersInv'
    <3>1. handler[h].op = "create" /\ branch' = branch /\ handler[h].pc # "idle"
      BY <1>1, <1>9 DEF SparseClone
    <3>2. n.pc # "idle" /\ n.pc \notin {"pull", "reset"} /\ n.op \in {"create", "update"}
      BY <2>1
    <3> QED BY <1>2, <2>1, <3>1, <3>2, HandlerStep
  <2>3. DirectoryInv'
    <3>1. dir' = [Worktree(main) EXCEPT !.base = main] /\ clone' = clone
      BY <1>9 DEF SparseClone
    <3>2. /\ dir' \in Directory /\ dir'.at = main /\ dir'.base = main
      BY <1>3, <3>1, WorktreeType DEF Directory
    <3> QED BY <1>1, <1>3, <3>1, <3>2 DEF DirectoryInv
  <2> QED BY <1>1, <1>9, <2>2, <2>3, RestType DEF SparseClone, TypeInv
<1> QED BY <1>4, <1>5, <1>6, <1>7, <1>8, <1>9

(* Pulling the branch of the request. *)
LEMMA PullType ==
  ASSUME TypeInv, NEW h \in Handlers,
         PullNothing(h) \/ PullForward(h) \/ PullMerge(h)
  PROVE  TypeInv' /\ Grows
<1>1. /\ handler[h].pc = "pull" /\ handler[h].op = "update" /\ dir.has /\ branch # 0
      /\ Pulled(h)
  BY DEF PullNothing, PullForward, PullMerge, Pulls, TypeInv, HandlersInv
<1>2. HandlersInv'
  <2> DEFINE n == [handler[h] EXCEPT !.pc = "reset", !.saw = branch]
  <2>1. handler[h] \in Memory /\ branch \in Commit \cup {0}
    BY CommitType DEF TypeInv, HandlersInv
  <2>2. n \in Memory
    BY <2>1, MemoryType DEF Writing
  <2>3. n.pc = "reset" /\ n.op = handler[h].op /\ n.change = handler[h].change
    BY <2>1 DEF Memory
  <2>4. handler' = [handler EXCEPT ![h] = n] /\ UNCHANGED branch
    BY <1>1 DEF Pulled
  <2> HIDE DEF n
  <2> QED BY <1>1, <2>2, <2>3, <2>4, HandlerStep DEF TypeInv
<1>3. BoundsInv'
  BY <1>1 DEF Pulled, Meets, counters, TypeInv, BoundsInv
<1>4. /\ dir \in Directory /\ dir.at \in DOMAIN commits /\ dir.index \in Tree /\ dir.files \in Tree
      /\ TreeOf(branch) \in Tree /\ TreeOf(dir.at) \in Tree
  BY <1>1, BaseType, CommitType DEF TypeInv, DirectoryInv
<1>5. /\ With(dir.index, TreeOf(branch), Incoming) \in Tree
      /\ With(dir.files, TreeOf(branch), Incoming) \in Tree
      /\ With(TreeOf(dir.at), TreeOf(branch), Incoming) \in Tree
  BY <1>4, TreesType
<1>6. UNCHANGED <<main, branch, clone>>
  BY <1>1 DEF Pulled
<1>7. CASE PullNothing(h)
  BY <1>2, <1>3, <1>6, <1>7, RestType DEF PullNothing, TypeInv, Grows
<1>8. CASE PullForward(h)
  <2>1. /\ UNCHANGED commits
        /\ dir' \in Directory /\ dir'.at = branch /\ dir'.base = dir.base /\ dir'.has = dir.has
    <3>1. UNCHANGED commits /\ branch \in Commit
      BY <1>1, <1>8, CommitType DEF PullForward
    <3> QED BY <1>4, <1>5, <1>8, <3>1 DEF PullForward, Directory
  <2>2. branch \in DOMAIN commits
    BY <1>1 DEF TypeInv, RefsInv
  <2>3. DirectoryInv'
    BY <1>6, <2>1, <2>2 DEF TypeInv, DirectoryInv
  <2> QED BY <1>2, <1>3, <1>6, <2>1, <2>3, RestType DEF TypeInv, Grows
<1>9. CASE PullMerge(h)
  <2> DEFINE tree == With(TreeOf(dir.at), TreeOf(branch), Incoming)
             past == Past(dir.at) \cup Past(branch)
  <2>1. past \in SUBSET (1 .. Len(commits))
    BY <1>4, PastType DEF TypeInv, RefsInv
  <2>2. Committed(tree, past)
    BY <1>9 DEF PullMerge
  <2>3. tree \in Tree
    BY <1>5
  <2> HIDE DEF past, tree
  <2>4. /\ CommitsInv' /\ Grows /\ DOMAIN commits' = DOMAIN commits \cup {Latest}
        /\ Latest \in Commit
    BY <2>1, <2>2, <2>3, CommittedType DEF TypeInv
  <2>5. /\ dir' \in Directory /\ dir'.at = Latest /\ dir'.base = dir.base
        /\ dir'.has = dir.has
    BY <1>4, <1>5, <1>9, <2>3, <2>4 DEF PullMerge, Directory, tree
  <2>6. RefsInv' /\ DirectoryInv'
    BY <1>6, <2>4, <2>5 DEF TypeInv, RefsInv, DirectoryInv
  <2> QED BY <1>2, <1>3, <2>4, <2>6 DEF TypeInv
<1> QED BY <1>7, <1>8, <1>9

(* Taking some files of main back. *)
LEMMA TakesType ==
  ASSUME TypeInv, dir.has, NEW h, NEW names, Takes(h, names)
  PROVE  /\ dir' \in Directory
         /\ dir' = [dir EXCEPT !.index = With(dir.index, TreeOf(Base), names),
                               !.files = With(dir.files, TreeOf(Base), names)]
         /\ dir'.has /\ dir'.at = dir.at /\ dir'.base = dir.base
         /\ dir'.index = With(dir.index, TreeOf(Base), names)
         /\ dir'.files = With(dir.files, TreeOf(Base), names)
<1>1. dir \in Directory
  BY DEF TypeInv, DirectoryInv
<1>2. /\ With(dir.index, TreeOf(Base), names) \in Tree
      /\ With(dir.files, TreeOf(Base), names) \in Tree
  BY BaseType, TreesType
<1> QED BY <1>1, <1>2 DEF Takes, Directory

(* A handler that raises, in whatever state it leaves the files. *)
LEMMA FailType ==
  ASSUME TypeInv, NEW h \in Handlers,
         \/ PullRaises(h) \/ PullConflicts(h) \/ ResetRaises(h) \/ StageRaises(h)
         \/ NothingStaged(h) \/ NoDirRaises(h) \/ Post(h)
  PROVE  /\ TypeInv' /\ Grows /\ Raises(h)
         /\ dir'.has = dir.has /\ dir'.at = dir.at /\ dir'.base = dir.base
<1>1. Raises(h) /\ handler[h].pc # "idle"
  BY DEF PullRaises, PullConflicts, Pulls, ResetRaises, StageRaises, NothingStaged,
         NoDirRaises, Post, Writing
<1>2. UNCHANGED <<commits, main, branch, clone>>
  BY <1>1 DEF Raises, remote
<1>3. dir \in Directory
  BY DEF TypeInv, DirectoryInv
<1>4. /\ dir' \in Directory
      /\ dir'.has = dir.has /\ dir'.at = dir.at /\ dir'.base = dir.base
  <2>1. CASE dir' = dir
    BY <1>3, <2>1
  <2>2. CASE PullConflicts(h)
    BY <1>3, <2>2 DEF PullConflicts, Directory
  <2>3. CASE ResetRaises(h)
    <3>1. dir.has /\ \E names : Takes(h, names)
      BY <2>3 DEF ResetRaises
    <3> QED BY <3>1, TakesType
  <2> QED BY <2>1, <2>2, <2>3 DEF PullRaises, StageRaises, NothingStaged, NoDirRaises, Post
<1>5. DirectoryInv'
  BY <1>2, <1>4 DEF TypeInv, DirectoryInv
<1> QED BY <1>1, <1>2, <1>4, <1>5, RaisesType DEF TypeInv, Grows

(* The steps of an update. *)
LEMMA UpdateType ==
  ASSUME TypeInv, NEW h \in Handlers,
         Reset(h) \/ Write(h) \/ Stage(h) \/ CommitStaged(h) \/ Push(h) \/ Load(h)
  PROVE  TypeInv' /\ Grows
<1>1. /\ handler[h].pc # "idle" /\ dir.has
      /\ UNCHANGED <<main, clone, disturbed, calls, edits, faults>>
  BY DEF Reset, Write, Stage, CommitStaged, Push, Load, remote, counters
<1>2. BoundsInv'
  BY <1>1 DEF TypeInv, BoundsInv
<1>3. /\ handler[h] \in Memory /\ HandlersInv
      /\ handler[h].pc \in Writing => handler[h].op \in {"create", "update"}
  BY DEF TypeInv, HandlersInv
<1>4. dir \in Directory /\ dir.index \in Tree /\ dir.files \in Tree /\ dir.at \in DOMAIN commits
  BY <1>1, BaseType DEF TypeInv, DirectoryInv
<1>5. CASE Reset(h)
  <2> DEFINE n == [handler[h] EXCEPT !.pc = "write", !.base = Base]
  <2>1. Base \in Commit \cup {0} /\ handler[h].op = "update"
    BY <1>1, <1>3, <1>5, BaseType DEF Reset, HandlersInv
  <2>2. n \in Memory
    BY <1>3, <2>1, MemoryType DEF Writing
  <2>3. n.pc = "write" /\ n.op = "update" /\ n.change = handler[h].change
    BY <1>3, <2>1 DEF Memory
  <2>4. handler' = [handler EXCEPT ![h] = n] /\ UNCHANGED <<commits, branch>>
    BY <1>5 DEF Reset, remote
  <2> HIDE DEF n
  <2>5. HandlersInv'
    BY <1>1, <1>3, <2>1, <2>2, <2>3, <2>4, HandlerStep
  <2>6. DirectoryInv'
    <3>1. Takes(h, Changed)
      BY <1>5 DEF Reset
    <3>2. dir' \in Directory /\ dir'.has /\ dir'.at = dir.at /\ dir'.base = dir.base
      BY <1>1, <3>1, TakesType
    <3> QED BY <1>1, <2>4, <3>2 DEF TypeInv, DirectoryInv
  <2> QED BY <1>1, <1>2, <2>4, <2>5, <2>6, RestType DEF TypeInv, Grows
<1>6. CASE Write(h) \/ Stage(h)
  <2>1. UNCHANGED <<commits, branch>> /\ handler[h].pc \in {"write", "stage"}
    BY <1>6 DEF Write, Stage, remote
  <2>2. handler[h].change \in Changes
    BY <1>3, <2>1 DEF HandlersInv, Writing
  <2>3. HandlersInv'
    <3>1. Goes(h, "stage") \/ Goes(h, "commit")
      BY <1>6 DEF Write, Stage
    <3>2. handler[h].op \in {"create", "update"}
      BY <1>3, <2>1 DEF Writing
    <3>3. ASSUME NEW pc \in {"stage", "commit"}, Goes(h, pc) PROVE HandlersInv'
      BY <1>1, <1>3, <2>1, <3>2, <3>3, GoesType DEF Writing
    <3> QED BY <3>1, <3>3
  <2>4. /\ Over(dir.files, handler[h].change) \in Tree
        /\ With(dir.index, dir.files, DOMAIN handler[h].change) \in Tree
    BY <1>4, <2>2, TreesType
  <2>5. dir' \in Directory /\ dir'.has /\ dir'.at = dir.at /\ dir'.base = dir.base
    BY <1>1, <1>4, <1>6, <2>4 DEF Write, Stage, Directory
  <2>6. DirectoryInv'
    BY <1>1, <2>1, <2>5 DEF TypeInv, DirectoryInv
  <2> QED BY <1>1, <1>2, <2>1, <2>3, <2>6, RestType DEF TypeInv, Grows
<1>7. CASE CommitStaged(h)
  <2> DEFINE past == Past(dir.at)
  <2>1. past \in SUBSET (1 .. Len(commits)) /\ Committed(dir.index, past)
    BY <1>4, <1>7, PastType DEF TypeInv, CommitStaged
  <2> HIDE DEF past
  <2>2. /\ CommitsInv' /\ Grows /\ DOMAIN commits' = DOMAIN commits \cup {Latest}
        /\ Latest \in Commit
    BY <1>4, <2>1, CommittedType DEF TypeInv
  <2>3. /\ dir' \in Directory /\ dir'.at = Latest /\ dir'.base = dir.base
        /\ dir'.has = dir.has
    BY <1>4, <1>7, <2>2 DEF CommitStaged, Directory
  <2>4. UNCHANGED branch /\ Goes(h, "push") /\ handler[h].pc \in Writing
    BY <1>7 DEF CommitStaged, Writing
  <2>5. RefsInv' /\ DirectoryInv'
    BY <1>1, <2>2, <2>3, <2>4 DEF TypeInv, RefsInv, DirectoryInv
  <2>6. HandlersInv'
    BY <1>1, <1>3, <2>4, GoesType DEF Writing
  <2> QED BY <1>2, <2>2, <2>5, <2>6 DEF TypeInv
<1>8. CASE Push(h)
  <2>1. UNCHANGED <<commits, dir>> /\ branch' = dir.at /\ branch' # 0
        /\ handler' = [handler EXCEPT ![h] = Idle]
    BY <1>4, <1>8, CommitType DEF Push
  <2>2. HandlersInv'
    BY <1>1, <1>3, <2>1, HandlerStep, MemoryType
  <2>3. RefsInv'
    BY <1>1, <1>4, <2>1 DEF TypeInv, RefsInv
  <2> QED BY <1>1, <1>2, <2>1, <2>2, <2>3, RestType DEF TypeInv, Grows
<1>9. CASE Load(h)
  <2>1. UNCHANGED <<commits, branch, dir>>
    BY <1>9 DEF Load, remote
  <2>2. HandlersInv'
    <3>1. CASE handler[h].op = "view"
      <4>1. handler' = [handler EXCEPT ![h] = Idle]
        BY <1>3, <1>9, <3>1 DEF Load, HandlersInv
      <4> QED BY <1>1, <1>3, <2>1, <4>1, HandlerStep, MemoryType
    <3>2. CASE handler[h].op # "view"
      <4> DEFINE n == [handler[h] EXCEPT !.pc = "post", !.saw = branch]
      <4>1. handler' = [handler EXCEPT ![h] = n]
        BY <1>3, <1>9, <3>2 DEF Load, HandlersInv
      <4>2. n \in Memory
        BY <1>3, MemoryType, CommitType
      <4>3. n.pc = "post" /\ n.op = handler[h].op /\ n.change = handler[h].change
        BY <1>3 DEF Memory
      <4> HIDE DEF n
      <4> QED BY <1>1, <1>3, <2>1, <4>1, <4>2, <4>3, HandlerStep DEF Writing
    <3> QED BY <3>1, <3>2
  <2> QED BY <1>1, <1>2, <2>1, <2>2, RestType DEF TypeInv, Grows
<1> QED BY <1>5, <1>6, <1>7, <1>8, <1>9

(* What goes on around the handlers. *)
LEMMA ElsewhereType ==
  ASSUME TypeInv, Elsewhere \/ \E h \in Handlers : Die(h)
  PROVE  TypeInv' /\ Grows
<1>1. CASE PullDefault
  <2>1. /\ UNCHANGED <<commits, main, branch, dir, handler, calls, edits, faults>>
        /\ disturbed' \in BOOLEAN /\ clone' = [clone EXCEPT !.at = main]
    BY <1>1 DEF PullDefault, remote, counters, TypeInv, BoundsInv
  <2>2. RefsInv' /\ clone'.at = main /\ clone'.named = clone.named
    BY <2>1, CommitType DEF TypeInv, RefsInv, Clone
  <2>3. DirectoryInv'
    BY <2>1, <2>2, CommitType DEF TypeInv, DirectoryInv
  <2> QED BY <2>1, <2>2, <2>3, RestType DEF TypeInv, BoundsInv, Grows
<1>2. ASSUME NEW f \in Files, NEW body \in Bodies \cup {Gone},
             EditBranch(f, body) \/ EditMain(f, body)
      PROVE  TypeInv' /\ Grows
  <2> DEFINE ontoBranch == [TreeOf(branch) EXCEPT ![f] = body]
             ontoMain == [TreeOf(main) EXCEPT ![f] = body]
  <2>1. /\ Edit /\ UNCHANGED <<clone, dir, handler, disturbed, calls, faults>>
        /\ \/ branch # 0 /\ branch' = Latest /\ main' = main
           \/ main' = Latest /\ branch' = branch
    BY <1>2 DEF EditBranch, EditMain, Edit
  <2>2. BoundsInv'
    BY <2>1, BoundsAssumption DEF Edit, TypeInv, BoundsInv
  <2>3. /\ CommitsInv' /\ Grows /\ DOMAIN commits' = DOMAIN commits \cup {Latest}
        /\ Latest \in Commit
    <3>1. CASE EditBranch(f, body)
      <4>1. ontoBranch \in Tree
        BY <3>1, CommitType DEF EditBranch, Tree
      <4>2. Past(branch) \in SUBSET (1 .. Len(commits))
        BY PastType DEF TypeInv, RefsInv
      <4>3. Committed(ontoBranch, Past(branch))
        BY <3>1 DEF EditBranch
      <4> HIDE DEF ontoBranch
      <4> QED BY <4>1, <4>2, <4>3, CommittedType DEF TypeInv
    <3>2. CASE EditMain(f, body)
      <4>1. ontoMain \in Tree
        BY <3>2, CommitType DEF EditMain, Tree
      <4>2. Past(main) \in SUBSET (1 .. Len(commits))
        BY PastType DEF TypeInv, RefsInv
      <4>3. Committed(ontoMain, Past(main))
        BY <3>2 DEF EditMain
      <4> HIDE DEF ontoMain
      <4> QED BY <4>1, <4>2, <4>3, CommittedType DEF TypeInv
    <3> QED BY <1>2, <3>1, <3>2
  <2>4. RefsInv' /\ DirectoryInv'
    BY <2>1, <2>3 DEF TypeInv, RefsInv, DirectoryInv
  <2>5. HandlersInv'
    <3>1. branch # 0 => branch' # 0
      BY <2>1, <2>3, BoundsAssumption DEF Commit
    <3>2. branch = 0 => branch' = 0
      BY <2>1
    <3> QED BY <2>1, <3>1, <3>2 DEF TypeInv, HandlersInv
  <2> QED BY <2>2, <2>3, <2>4, <2>5 DEF TypeInv
<1>3. CASE Lose
  <2>1. /\ UNCHANGED <<commits, main, branch, handler, disturbed, calls, edits>>
        /\ dir' = NoDir /\ clone' \in {clone, [at |-> 0, named |-> FALSE]}
        /\ faults < MaxFaults /\ faults' = faults + 1
    BY <1>3 DEF Lose, Fault, remote
  <2>2. BoundsInv'
    BY <2>1, BoundsAssumption DEF TypeInv, BoundsInv
  <2>3. NoDir \in Directory /\ ~NoDir.has /\ NoDir.base = 0
    BY WorktreeType, CommitType DEF NoDir
  <2>4. RefsInv'
    <3>1. clone' \in Clone /\ clone'.at \in {clone.at, 0}
      <4>1. CASE clone' = clone
        BY <4>1 DEF TypeInv, RefsInv
      <4>2. CASE clone' = [at |-> 0, named |-> FALSE]
        BY <4>2 DEF Clone
      <4> QED BY <2>1, <4>1, <4>2
    <3> QED BY <2>1, <3>1 DEF TypeInv, RefsInv
  <2>5. DirectoryInv'
    BY <2>1, <2>3 DEF DirectoryInv
  <2> QED BY <2>1, <2>2, <2>4, <2>5, RestType DEF TypeInv, Grows
<1>4. ASSUME NEW h \in Handlers, Die(h) PROVE TypeInv' /\ Grows
  <2>1. /\ UNCHANGED <<commits, main, branch, clone, dir, disturbed, calls, edits>>
        /\ faults < MaxFaults /\ faults' = faults + 1
        /\ handler[h].pc # "idle" /\ handler' = [handler EXCEPT ![h] = Idle]
    BY <1>4 DEF Die, Fault, remote
  <2>2. BoundsInv'
    BY <2>1, BoundsAssumption DEF TypeInv, BoundsInv
  <2>3. HandlersInv'
    BY <2>1, HandlerStep, MemoryType DEF TypeInv
  <2> QED BY <2>1, <2>2, <2>3, RestType DEF TypeInv, Grows
<1> QED BY <1>1, <1>2, <1>3, <1>4 DEF Elsewhere

(* Every step keeps the types. *)
LEMMA TypeInvStep ==
  ASSUME TypeInv, [Next]_vars
  PROVE  TypeInv'
<1>1. CASE UNCHANGED vars
  BY <1>1, RestType DEF vars, TypeInv
<1>2. ASSUME NEW h \in Handlers, Start(h) PROVE TypeInv'
  BY <1>2, BeginType DEF Start
<1>3. ASSUME NEW h \in Handlers, Continue(h) PROVE TypeInv'
  BY <1>3, SetupType, PullType, FailType, UpdateType DEF Continue
<1>4. CASE Elsewhere \/ \E h \in Handlers : Die(h)
  BY <1>4, ElsewhereType
<1> QED BY <1>1, <1>2, <1>3, <1>4 DEF Next

(* It holds to begin with. *)
LEMMA TypeInvInit ==
  Init => TypeInv
<1> SUFFICES ASSUME Init PROVE TypeInv
  OBVIOUS
<1>1. PICK tree \in Tree : commits = <<[tree |-> tree, past |-> {}]>>
  BY DEF Init
<1> DEFINE first == [tree |-> tree, past |-> {}]
<1>2. 1 \in Commit /\ first \in [tree : Tree, past : SUBSET Commit]
  BY BoundsAssumption DEF Commit
<1>3. /\ commits \in Seq([tree : Tree, past : SUBSET Commit])
      /\ Len(commits) = 1 /\ DOMAIN commits = {1} /\ commits[1] = first
  <2> HIDE DEF first
  <2> QED BY <1>1, <1>2 DEF first
<1>4. CommitsInv
  BY <1>2, <1>3 DEF CommitsInv
<1>5. RefsInv
  BY <1>2, <1>3 DEF Init, RefsInv, Clone
<1>6. DirectoryInv
  BY TreesType DEF Init, DirectoryInv, NoDir, Directory
<1>7. HandlersInv
  BY MemoryType DEF Init, HandlersInv, Idle, Writing
<1>8. BoundsInv
  <2>1. disturbed = FALSE /\ calls = 0 /\ edits = 0 /\ faults = 0
    BY DEF Init
  <2>2. 0 \in 0 .. MaxCalls /\ 0 \in 0 .. MaxEdits /\ 0 \in 0 .. MaxFaults
    BY BoundsAssumption
  <2> QED BY <2>1, <2>2 DEF BoundsInv
<1> QED BY <1>4, <1>5, <1>6, <1>7, <1>8 DEF TypeInv

(***************************************************************************)
(* Types, and the stages of each kind of handler, for whatever commands    *)
(* of different handlers run between one another.                          *)
(***************************************************************************)
THEOREM TypeCorrect ==
  Spec => []TypeOK
<1>1. Init => TypeInv
  BY TypeInvInit
<1>2. TypeInv /\ [Next]_vars => TypeInv'
  BY TypeInvStep
<1> QED BY <1>1, <1>2, TypeInvIsTypeOK, PTL DEF Spec

-----------------------------------------------------------------------------
(* The directory of an update that nobody has disturbed. *)

(* A step that leaves the directory to whoever is writing in it. *)
LEMMA DirStays ==
  ASSUME TypeInv, DirInv, Grows, disturbed' = disturbed,
         dir'.has = dir.has, dir'.at = dir.at, dir'.base = dir.base,
         dir'.index = dir.index, dir'.files = dir.files,
         dir.has /\ dir.base = 0 => clone'.at = clone.at,
         \A h \in Handlers : handler'[h] = handler[h] \/ handler'[h].pc \notin Writing
  PROVE  DirInv'
<1> SUFFICES ASSUME ~disturbed PROVE OneWriter' /\ (dir'.has => (SawInv /\ StagedInv /\ WriterInv)')
  BY DEF DirInv
<1>1. OneWriter'
  BY DEF DirInv, OneWriter
<1> SUFFICES ASSUME dir.has PROVE SawInv' /\ StagedInv' /\ WriterInv'
  BY <1>1
<1>2. SawInv /\ StagedInv /\ WriterInv
  BY DEF DirInv
<1>3. /\ Base' = Base /\ Base \in DOMAIN commits /\ dir.at \in DOMAIN commits
      /\ TreeOf(Base)' = TreeOf(Base) /\ TreeOf(dir.at)' = TreeOf(dir.at)
      /\ Past(dir.at)' = Past(dir.at)
  BY BaseType DEF Base, TreeOf, Past, Grows
<1>4. SawInv'
  BY <1>2, <1>3 DEF SawInv
<1>5. StagedInv'
  BY <1>2, <1>3 DEF StagedInv
<1>6. ASSUME NEW h \in Handlers PROVE Holds(handler[h])'
  <2>1. CASE handler'[h].pc \notin Writing
    BY <2>1 DEF Holds, Writing
  <2>2. CASE handler'[h] = handler[h] /\ handler[h].pc \in Writing
    <3> DEFINE m == handler[h]
    <3>1. Holds(m)
      BY <1>2 DEF WriterInv
    <3>2. m.base \in DOMAIN commits => commits'[m.base] = commits[m.base] /\ m.base \in DOMAIN commits'
      BY DEF Grows
    <3> QED BY <1>3, <2>2, <3>1, <3>2 DEF Holds, TreeOf, Over
  <2> QED BY <2>1, <2>2
<1> QED BY <1>4, <1>5, <1>6 DEF WriterInv

(* A step after which there is no directory. *)
LEMMA DirGone ==
  ASSUME DirInv, disturbed => disturbed', ~dir'.has,
         \A h \in Handlers : handler'[h] = handler[h] \/ handler'[h].pc \notin Writing
  PROVE  DirInv'
BY DEF DirInv, OneWriter

(* What a step of one handler leaves to the others. *)
LEMMA OthersStay ==
  ASSUME TypeInv, NEW h \in Handlers, NEW n, handler' = [handler EXCEPT ![h] = n]
  PROVE  handler'[h] = n /\ \A k \in Handlers \ {h} : handler'[k] = handler[k]
BY DEF TypeInv, HandlersInv

(* Where a handler comes to after Goes. *)
LEMMA GoesPlace ==
  ASSUME TypeInv, NEW h \in Handlers, NEW pc, Goes(h, pc)
  PROVE  /\ handler'[h].pc = pc
         /\ handler'[h].op = handler[h].op /\ handler'[h].change = handler[h].change
         /\ handler'[h].base = handler[h].base /\ handler'[h].saw = handler[h].saw
         /\ \A k \in Handlers \ {h} : handler'[k] = handler[k]
BY DEF TypeInv, HandlersInv, Memory, Goes

(* The beginning of a call, and setting up the directory. *)
LEMMA SetupDir ==
  ASSUME Inv, NEW h \in Handlers,
         \/ Start(h) \/ FindDir(h) \/ CloneDefault(h) \/ MissDir(h) \/ Rebuild(h)
         \/ RebuildRaises(h) \/ SparseClone(h) \/ NotListed(h)
  PROVE  DirInv'
<1>1. TypeInv /\ DirInv /\ NoDir.has = FALSE /\ Idle.pc \notin Writing
  BY DEF Inv, NoDir, Idle, Writing
<1>2. CASE Start(h)
  <2>1. /\ UNCHANGED <<commits, clone, disturbed>> /\ (dir' = dir \/ dir' = NoDir)
        /\ \E op, change : handler' = [handler EXCEPT ![h] = [Idle EXCEPT
             !.pc = "setup", !.op = op, !.change = change]]
    BY <1>2 DEF Start, BeginCreate, Begin, remote
  <2>2. \A k \in Handlers : handler'[k] = handler[k] \/ handler'[k].pc \notin Writing
    BY <1>1, <2>1, OthersStay DEF Idle, Writing
  <2>3. CASE dir' = dir
    BY <1>1, <2>1, <2>2, <2>3, DirStays DEF Grows
  <2>4. CASE dir' = NoDir
    BY <1>1, <2>1, <2>2, <2>4, DirGone
  <2> QED BY <2>1, <2>3, <2>4
<1>3. CASE FindDir(h) \/ MissDir(h)
  <2>1. /\ UNCHANGED <<commits, clone, dir, disturbed>>
        /\ \E pc \in {"pull", "load", "rebuild"} : Goes(h, pc)
    BY <1>3 DEF FindDir, MissDir, remote
  <2>2. \A k \in Handlers : handler'[k] = handler[k] \/ handler'[k].pc \notin Writing
    BY <1>1, <2>1, GoesPlace DEF Writing
  <2> QED BY <1>1, <2>1, <2>2, DirStays DEF Grows
<1>4. CASE NotListed(h)
  <2>1. /\ UNCHANGED <<commits, clone, dir, disturbed>>
        /\ handler' = [handler EXCEPT ![h] = Idle]
    BY <1>4 DEF NotListed, Raises, remote
  <2> QED BY <1>1, <2>1, OthersStay, DirStays DEF Grows
<1>5. CASE CloneDefault(h)
  <2>1. ~dir'.has /\ disturbed' = disturbed
        /\ (handler' = handler \/ handler' = [handler EXCEPT ![h] = Idle])
    BY <1>5 DEF CloneDefault
  <2>2. \A k \in Handlers : handler'[k] = handler[k] \/ handler'[k].pc \notin Writing
    BY <1>1, <2>1, OthersStay
  <2> QED BY <1>1, <2>1, <2>2, DirGone
<1>6. CASE RebuildRaises(h)
  <2>1. /\ dir' = NoDir /\ (disturbed => disturbed')
        /\ handler' = [handler EXCEPT ![h] = Idle]
    BY <1>6 DEF RebuildRaises, Meets
  <2>2. \A k \in Handlers : handler'[k] = handler[k] \/ handler'[k].pc \notin Writing
    BY <1>1, <2>1, OthersStay
  <2> QED BY <1>1, <2>1, <2>2, DirGone
<1>7. CASE Rebuild(h)
  <2> SUFFICES ASSUME ~disturbed'
               PROVE  OneWriter' /\ SawInv' /\ StagedInv' /\ WriterInv'
    BY DEF DirInv
  <2>1. /\ \A k \in Handlers \ {h} : handler[k].pc \notin Writing
        /\ \E pc \in {"pull", "load"} : Goes(h, pc)
        /\ dir' = Worktree(main)
    BY <1>7 DEF Rebuild, Meets
  <2>2. \A k \in Handlers : handler'[k].pc \notin Writing
    BY <1>1, <2>1, GoesPlace DEF Writing
  <2>3. dir'.index = dir'.files
    BY <1>1, <2>1, WorktreeType, CommitType
  <2> QED BY <2>2, <2>3 DEF OneWriter, SawInv, StagedInv, WriterInv, Holds, Writing
<1>8. CASE SparseClone(h)
  <2> SUFFICES ASSUME ~disturbed'
               PROVE  OneWriter' /\ SawInv' /\ StagedInv' /\ WriterInv'
    BY DEF DirInv
  <2>1. /\ handler[h].op = "create" /\ UNCHANGED <<commits, main>>
        /\ handler' = [handler EXCEPT ![h].pc = "write", ![h].base = main]
        /\ dir' = [Worktree(main) EXCEPT !.base = main]
    BY <1>8 DEF SparseClone, remote
  <2>2. /\ handler'[h].pc = "write" /\ handler'[h].op = "create" /\ handler'[h].base = main
        /\ \A k \in Handlers \ {h} : handler'[k] = handler[k]
    BY <1>1, <2>1 DEF TypeInv, HandlersInv, Memory
  <2>3. \A k \in Handlers \ {h} : handler'[k].pc \notin Writing
    BY <1>1, <2>1, <2>2 DEF TypeInv, HandlersInv
  <2>4. /\ dir'.index = TreeOf(main) /\ dir'.files = TreeOf(main) /\ dir'.base = main
        /\ main \in DOMAIN commits /\ main # 0
    <3>1. main \in DOMAIN commits /\ main # 0
      BY <1>1, CommitType
    <3>2. /\ Worktree(main) \in Directory
          /\ Worktree(main).index = TreeOf(main) /\ Worktree(main).files = TreeOf(main)
      BY <1>1, <3>1, WorktreeType
    <3> QED BY <2>1, <3>1, <3>2 DEF Directory
  <2>5. Base' = main /\ TreeOf(main)' = TreeOf(main)
    BY <2>1, <2>4 DEF Base, TreeOf
  <2>6. OneWriter' /\ SawInv'
    BY <2>2, <2>3 DEF OneWriter, SawInv
  <2>7. StagedInv'
    BY <2>4 DEF StagedInv
  <2>8. ASSUME NEW k \in Handlers PROVE Holds(handler[k])'
    <3>1. CASE k = h
      <4>1. handler'[k].base = Base'
        BY <2>2, <2>5, <3>1
      <4>2. dir'.index = TreeOf(handler[k].base)'
        BY <2>1, <2>2, <2>4, <3>1 DEF TreeOf
      <4> QED BY <2>1, <2>2, <2>4, <3>1, <4>1, <4>2 DEF Holds
    <3>2. CASE k # h
      BY <2>3, <3>2 DEF Holds, Writing
    <3> QED BY <3>1, <3>2
  <2> QED BY <2>6, <2>7, <2>8 DEF WriterInv
<1> QED BY <1>2, <1>3, <1>4, <1>5, <1>6, <1>7, <1>8

(* A pull brings what the branch has without touching what differs. *)
LEMMA PullDir ==
  ASSUME Inv, NEW h \in Handlers,
         PullNothing(h) \/ PullForward(h) \/ PullMerge(h)
  PROVE  DirInv'
<1>1. /\ TypeInv /\ DirInv /\ TypeInv' /\ Grows
      /\ Pulled(h) /\ dir.has /\ ~dir.stuck /\ branch # 0 /\ branch \in DOMAIN commits
  <2>1. TypeInv /\ handler[h].pc = "pull"
    BY DEF Inv, PullNothing, PullForward, PullMerge, Pulls
  <2>2. branch # 0 /\ branch \in DOMAIN commits
    BY <2>1 DEF TypeInv, HandlersInv, RefsInv
  <2> QED BY <2>1, <2>2, PullType DEF Inv, PullNothing, PullForward, PullMerge, Pulls
<1> SUFFICES ASSUME ~disturbed'
             PROVE  OneWriter' /\ SawInv' /\ StagedInv' /\ WriterInv'
  BY DEF DirInv
<1>2. /\ ~disturbed /\ \A k \in Handlers \ {h} : handler[k].pc \notin Writing
      /\ UNCHANGED <<main, branch, clone>>
      /\ handler' = [handler EXCEPT ![h].pc = "reset", ![h].saw = branch]
  BY <1>1 DEF Pulled, Meets
<1>3. /\ handler'[h].pc = "reset" /\ handler'[h].saw = branch
      /\ \A k \in Handlers \ {h} : handler'[k] = handler[k]
  <2>1. handler \in [Handlers -> Memory] /\ handler[h] \in Memory
    BY <1>1 DEF TypeInv, HandlersInv
  <2>2. /\ handler'[h] = [handler[h] EXCEPT !.pc = "reset", !.saw = branch]
        /\ \A k \in Handlers \ {h} : handler'[k] = handler[k]
    BY <1>2, <2>1
  <2> QED BY <2>1, <2>2 DEF Memory
<1>4. OneWriter' /\ WriterInv'
  <2>1. ASSUME NEW k \in Handlers, handler'[k].pc \in Writing
        PROVE  k = h /\ handler'[k].pc = "reset"
    BY <1>2, <1>3, <2>1
  <2>2. OneWriter'
    BY <2>1 DEF OneWriter
  <2>3. ASSUME NEW k \in Handlers PROVE Holds(handler[k])'
    BY <2>1 DEF Holds, Writing
  <2> QED BY <2>2, <2>3 DEF WriterInv
<1>5. /\ StagedInv /\ Base \in DOMAIN commits /\ dir.at \in DOMAIN commits
      /\ branch \in Past(branch) /\ dir \in Directory
      /\ dir.index \in Tree /\ dir.files \in Tree /\ TreeOf(dir.at) \in Tree
  BY <1>1, <1>2, BaseType, PastType DEF DirInv, TypeInv, DirectoryInv
<1>6. CASE PullNothing(h)
  <2>1. UNCHANGED <<commits, dir>> /\ branch \in Past(dir.at)
    BY <1>6 DEF PullNothing, IsNew
  <2>2. SawInv'
    BY <1>2, <1>3, <2>1 DEF SawInv, Past
  <2>3. StagedInv'
    BY <1>2, <1>5, <2>1 DEF StagedInv, TreeOf, Base
  <2> QED BY <1>4, <2>2, <2>3
<1>7. CASE PullForward(h)
  <2>1. /\ UNCHANGED commits /\ dir'.at = branch /\ dir'.base = dir.base
        /\ dir'.index = With(dir.index, TreeOf(branch), Incoming)
        /\ dir'.files = With(dir.files, TreeOf(branch), Incoming)
    <3>1. dir \in Directory
      BY <1>5
    <3> QED BY <1>7, <3>1 DEF PullForward, Directory
  <2>2. SawInv'
    BY <1>2, <1>3, <1>5, <2>1 DEF SawInv, Past
  <2>3. Base' = Base /\ TreeOf(Base)' = TreeOf(Base)
    BY <1>2, <2>1 DEF Base, TreeOf
  <2>4. StagedInv'
    BY <1>5, <2>1, <2>3 DEF StagedInv, With
  <2> QED BY <1>4, <2>2, <2>4
<1>8. CASE PullMerge(h)
  <2> DEFINE tree == With(TreeOf(dir.at), TreeOf(branch), Incoming)
             past == Past(dir.at) \cup Past(branch)
  <2>1. /\ Committed(tree, past) /\ dir.index = TreeOf(dir.at)
        /\ dir'.at = Latest /\ dir'.base = dir.base /\ dir'.index = tree
        /\ dir'.files = With(dir.files, TreeOf(branch), Incoming)
    <3>1. dir \in Directory
      BY <1>5
    <3> QED BY <1>8, <3>1 DEF PullMerge, Mixed, Directory
  <2>2. past \in SUBSET (1 .. Len(commits)) /\ tree \in Tree
    <3>1. branch \in Commit /\ TreeOf(branch) \in Tree
      BY <1>1, CommitType
    <3> QED BY <1>1, <1>5, <3>1, PastType, TreesType DEF TypeInv
  <2> HIDE DEF past
  <2>3. commits'[Latest] = [tree |-> tree, past |-> past] /\ Latest # 0
    <3> HIDE DEF tree
    <3>1. commits'[Latest] = [tree |-> tree, past |-> past] /\ Latest \in Commit
      BY <1>1, <2>1, <2>2, CommittedType DEF TypeInv
    <3> QED BY <3>1, BoundsAssumption DEF Commit
  <2>4. branch \in past
    BY <1>5 DEF past
  <2>5. SawInv'
    <3>1. Past(dir.at)' = past \cup {Latest}
      BY <2>1, <2>3 DEF Past
    <3> QED BY <1>2, <1>3, <2>4, <3>1 DEF SawInv
  <2>6. Base' = Base /\ TreeOf(Base)' = TreeOf(Base)
    BY <1>1, <1>2, <1>5, <2>1 DEF Base, TreeOf, Grows
  <2>7. StagedInv'
    BY <1>5, <2>1, <2>6 DEF StagedInv, With
  <2> QED BY <1>4, <2>5, <2>7
<1> QED BY <1>6, <1>7, <1>8

(***************************************************************************)
(* The reset of an update: whatever was staged, written or committed, what *)
(* is staged afterwards is main.  A file that `git diff` passes over is as *)
(* main has it, and so is what is staged of it.                            *)
(***************************************************************************)
LEMMA ResetTakesAll ==
  ASSUME TypeInv, dir.has, StagedInv, NEW h, Takes(h, Changed)
  PROVE  dir'.index = TreeOf(Base)
<1>1. /\ TreeOf(Base) \in Tree /\ dir.index \in Tree /\ dir.files \in Tree
      /\ dir'.index = With(dir.index, TreeOf(Base), Changed)
  BY BaseType, TakesType
<1>2. dir'.index \in Tree
  BY <1>1, TreesType
<1>3. ASSUME NEW f \in Files PROVE dir'.index[f] = TreeOf(Base)[f]
  <2>1. CASE f \in Changed
    BY <1>1, <2>1 DEF With
  <2>2. CASE f \notin Changed
    <3>1. dir'.index[f] = dir.index[f]
      BY <1>1, <2>2 DEF With
    <3>2. \/ dir.index[f] = Gone /\ TreeOf(Base)[f] = Gone
          \/ dir.files[f] = TreeOf(Base)[f]
      BY <2>2 DEF Changed, Tracked, Differ
    <3> QED BY <3>1, <3>2 DEF StagedInv
  <2> QED BY <2>1, <2>2
<1> QED BY <1>1, <1>2, <1>3 DEF Tree

(* A handler that raises leaves no more than it has found. *)
LEMMA FailDir ==
  ASSUME Inv, NEW h \in Handlers,
         \/ PullRaises(h) \/ PullConflicts(h) \/ ResetRaises(h) \/ StageRaises(h)
         \/ NothingStaged(h) \/ NoDirRaises(h) \/ Post(h)
  PROVE  DirInv'
<1>1. /\ TypeInv /\ DirInv /\ TypeInv' /\ Grows /\ Raises(h)
      /\ dir'.has = dir.has /\ dir'.at = dir.at /\ dir'.base = dir.base
  BY FailType DEF Inv
<1>2. /\ UNCHANGED <<commits, clone, disturbed>>
      /\ handler'[h].pc \notin Writing
      /\ \A k \in Handlers \ {h} : handler'[k] = handler[k]
  <2>1. UNCHANGED <<commits, clone, disturbed>> /\ handler' = [handler EXCEPT ![h] = Idle]
    BY <1>1 DEF Raises, remote
  <2>2. handler'[h] = Idle /\ \A k \in Handlers \ {h} : handler'[k] = handler[k]
    BY <1>1, <2>1, OthersStay
  <2> QED BY <2>1, <2>2 DEF Idle, Writing
<1>3. CASE ResetRaises(h)
  <2> SUFFICES ASSUME ~disturbed
               PROVE  OneWriter' /\ SawInv' /\ StagedInv' /\ WriterInv'
    BY <1>2 DEF DirInv
  <2>1. /\ dir.has /\ handler[h].pc = "reset"
        /\ \E names : Takes(h, names)
    BY <1>3 DEF ResetRaises
  <2>2. PICK names : Takes(h, names)
    BY <2>1
  <2>3. /\ dir'.index = With(dir.index, TreeOf(Base), names)
        /\ dir'.files = With(dir.files, TreeOf(Base), names)
    BY <1>1, <2>1, <2>2, TakesType
  <2>4. StagedInv /\ OneWriter
    BY <1>1, <2>1 DEF DirInv
  <2>5. \A k \in Handlers : handler'[k].pc \notin Writing
    BY <1>2, <2>1, <2>4 DEF OneWriter, Writing
  <2>6. Base' = Base /\ TreeOf(Base)' = TreeOf(Base)
    BY <1>1, <1>2 DEF Base, TreeOf
  <2>7. StagedInv'
    BY <2>3, <2>4, <2>6 DEF StagedInv, With
  <2> QED BY <2>5, <2>7 DEF OneWriter, SawInv, WriterInv, Holds, Writing
<1>4. CASE dir'.index = dir.index /\ dir'.files = dir.files
  <2>1. dir.has /\ dir.base = 0 => clone'.at = clone.at
    BY <1>2
  <2>2. \A k \in Handlers : handler'[k] = handler[k] \/ handler'[k].pc \notin Writing
    BY <1>2
  <2> QED BY <1>1, <1>2, <1>4, <2>1, <2>2, DirStays
<1>5. ~ResetRaises(h) => dir'.index = dir.index /\ dir'.files = dir.files
  <2>1. dir \in Directory
    BY <1>1 DEF TypeInv, DirectoryInv
  <2> QED BY <2>1 DEF PullRaises, PullConflicts, StageRaises, NothingStaged, NoDirRaises, Post,
                     Directory
<1> QED BY <1>3, <1>4, <1>5

(* What the steps of an update leave to one another. *)
LEMMA UpdateDir ==
  ASSUME Inv, NEW h \in Handlers,
         Reset(h) \/ Write(h) \/ Stage(h) \/ CommitStaged(h) \/ Push(h) \/ Load(h)
  PROVE  DirInv'
<1>1. /\ TypeInv /\ DirInv /\ TypeInv' /\ Grows /\ dir.has
      /\ UNCHANGED <<main, clone, disturbed>>
  <2>1. dir.has /\ UNCHANGED <<main, clone, disturbed>>
    BY DEF Reset, Write, Stage, CommitStaged, Push, Load, remote
  <2> QED BY <2>1, UpdateType DEF Inv
<1>2. /\ Base \in DOMAIN commits /\ dir.at \in DOMAIN commits /\ dir \in Directory
      /\ dir.index \in Tree /\ dir.files \in Tree /\ TreeOf(Base) \in Tree
  BY <1>1, BaseType DEF TypeInv, DirectoryInv
<1>3. CASE Push(h) \/ Load(h)
  <2>1. UNCHANGED <<commits, dir>>
    BY <1>3 DEF Push, Load, remote
  <2>2. handler' = [handler EXCEPT ![h] = Idle]
        \/ handler' = [handler EXCEPT ![h] = [handler[h] EXCEPT !.pc = "post", !.saw = branch]]
    <3>1. h \in DOMAIN handler
      BY <1>1 DEF TypeInv, HandlersInv
    <3> QED BY <1>3, <3>1 DEF Push, Load
  <2>3. /\ handler'[h] = Idle \/ handler'[h] = [handler[h] EXCEPT !.pc = "post", !.saw = branch]
        /\ \A k \in Handlers \ {h} : handler'[k] = handler[k]
    BY <1>1, <2>2, OthersStay
  <2>4. handler'[h].pc \in {"idle", "post"}
    <3>1. handler[h] \in Memory
      BY <1>1 DEF TypeInv, HandlersInv
    <3>2. CASE handler'[h] = Idle
      BY <3>2 DEF Idle
    <3>3. CASE handler'[h] = [handler[h] EXCEPT !.pc = "post", !.saw = branch]
      BY <3>1, <3>3 DEF Memory
    <3> QED BY <2>3, <3>2, <3>3
  <2>5. \A k \in Handlers : handler'[k] = handler[k] \/ handler'[k].pc \notin Writing
    BY <2>3, <2>4 DEF Writing
  <2> QED BY <1>1, <2>1, <2>5, DirStays
<1>4. CASE Reset(h) \/ Write(h) \/ Stage(h) \/ CommitStaged(h)
  <2> SUFFICES ASSUME ~disturbed
               PROVE  OneWriter' /\ SawInv' /\ StagedInv' /\ WriterInv'
    BY <1>1 DEF DirInv
  <2>1. /\ OneWriter /\ SawInv /\ StagedInv /\ WriterInv
        /\ handler[h].pc \in Writing
    BY <1>1, <1>4 DEF DirInv, Reset, Write, Stage, CommitStaged, Writing
  <2>2. /\ Holds(handler[h])
        /\ handler[h].op = "update" => handler[h].saw \in Past(dir.at)
        /\ handler[h].change \in Changes
    BY <1>1, <2>1 DEF WriterInv, SawInv, TypeInv, HandlersInv
  <2>3. \A k \in Handlers \ {h} : handler[k].pc \notin Writing
    BY <2>1 DEF OneWriter
  <2>4. /\ handler'[h].op = handler[h].op /\ handler'[h].change = handler[h].change
        /\ handler'[h].saw = handler[h].saw
        /\ \A k \in Handlers \ {h} : handler'[k] = handler[k]
    <3>1. CASE Reset(h)
      BY <1>1, <3>1 DEF Reset, TypeInv, HandlersInv, Memory
    <3>2. CASE Write(h) \/ Stage(h) \/ CommitStaged(h)
      <4>1. PICK pc : Goes(h, pc)
        BY <3>2 DEF Write, Stage, CommitStaged
      <4> QED BY <1>1, <4>1, GoesPlace
    <3> QED BY <1>4, <3>1, <3>2
  <2>5. OneWriter'
    BY <2>3, <2>4 DEF OneWriter
  <2>6. ASSUME Holds(handler[h])' PROVE WriterInv'
    BY <2>3, <2>4, <2>6 DEF WriterInv, Holds, Writing
  <2>7. ASSUME handler[h].op = "update" => (handler[h].saw \in Past(dir.at)') PROVE SawInv'
    BY <2>3, <2>4, <2>7 DEF SawInv
  <2>8. CASE Reset(h)
    <3>1. /\ UNCHANGED commits /\ Takes(h, Changed)
          /\ handler'[h].pc = "write" /\ handler'[h].base = Base
      BY <1>1, <2>8 DEF Reset, remote, TypeInv, HandlersInv, Memory
    <3>2. /\ dir'.at = dir.at /\ dir'.base = dir.base /\ dir'.index = TreeOf(Base)
      BY <1>1, <2>1, <3>1, TakesType, ResetTakesAll
    <3>3. Base' = Base /\ TreeOf(Base)' = TreeOf(Base) /\ Past(dir.at)' = Past(dir.at)
      BY <1>1, <3>1, <3>2 DEF Base, TreeOf, Past
    <3>4. StagedInv'
      BY <3>2, <3>3 DEF StagedInv
    <3>5. Holds(handler[h])'
      BY <1>2, <3>1, <3>2, <3>3 DEF Holds, TreeOf
    <3> QED BY <2>2, <2>5, <2>6, <2>7, <3>3, <3>4, <3>5
  <2>9. CASE Write(h)
    <3>1. /\ UNCHANGED commits /\ handler[h].pc = "write" /\ Goes(h, "stage")
          /\ dir' = [dir EXCEPT !.files = Over(dir.files, handler[h].change)]
      BY <2>9 DEF Write, remote
    <3>2. /\ dir'.at = dir.at /\ dir'.base = dir.base /\ dir'.index = dir.index
          /\ dir'.files = Over(dir.files, handler[h].change)
      BY <1>2, <3>1 DEF Directory
    <3>3. Base' = Base /\ TreeOf(Base)' = TreeOf(Base) /\ Past(dir.at)' = Past(dir.at)
      BY <1>1, <3>1, <3>2 DEF Base, TreeOf, Past
    <3>4. /\ handler'[h].pc = "stage" /\ handler'[h].base = handler[h].base
      BY <1>1, <3>1, GoesPlace
    <3>5. handler[h].base = Base /\ dir.index = TreeOf(Base)
      BY <2>2, <3>1 DEF Holds
    <3>6. StagedInv'
      BY <3>2, <3>3, <3>5 DEF StagedInv
    <3>7. \A f \in DOMAIN handler[h].change : dir'.files[f] = handler[h].change[f]
      <4>1. DOMAIN handler[h].change \subseteq Files
        BY <2>2, ChangesAssumption
      <4> QED BY <3>2, <4>1 DEF Over
    <3>8. Holds(handler[h])'
      <4>1. TreeOf(handler[h].base)' = TreeOf(Base)
        BY <3>1, <3>4, <3>5 DEF TreeOf
      <4> QED BY <1>2, <2>4, <3>1, <3>2, <3>3, <3>4, <3>5, <3>7, <4>1 DEF Holds
    <3> QED BY <2>2, <2>5, <2>6, <2>7, <3>3, <3>6, <3>8
  <2>10. CASE Stage(h)
    <3> DEFINE m == handler[h]
    <3>1. /\ UNCHANGED commits /\ m.pc = "stage" /\ Goes(h, "commit")
          /\ dir' = [dir EXCEPT !.index = With(dir.index, dir.files, DOMAIN m.change)]
      BY <2>10 DEF Stage, remote
    <3>2. /\ dir'.at = dir.at /\ dir'.base = dir.base /\ dir'.files = dir.files
          /\ dir'.index = With(dir.index, dir.files, DOMAIN m.change)
      BY <1>2, <3>1 DEF Directory
    <3>3. Base' = Base /\ TreeOf(Base)' = TreeOf(Base) /\ Past(dir.at)' = Past(dir.at)
      BY <1>1, <3>1, <3>2 DEF Base, TreeOf, Past
    <3>4. /\ handler'[h].pc = "commit" /\ handler'[h].base = m.base
      BY <1>1, <3>1, GoesPlace
    <3>5. /\ m.base = Base /\ dir.index = TreeOf(Base) /\ m.base \in DOMAIN commits
          /\ \A f \in DOMAIN m.change : dir.files[f] = m.change[f]
      BY <2>2, <3>1 DEF Holds
    <3>6. StagedInv'
      BY <3>2, <3>3, <3>5 DEF StagedInv, With
    <3>7. dir'.index = Over(TreeOf(m.base), m.change)
      BY <3>2, <3>5 DEF With, Over
    <3>8. Holds(handler[h])'
      <4>1. Over(TreeOf(handler[h].base), handler[h].change)' = Over(TreeOf(m.base), m.change)
        BY <2>4, <3>1, <3>4 DEF TreeOf, Over
      <4> QED BY <3>1, <3>4, <3>5, <3>7, <4>1 DEF Holds
    <3> QED BY <2>2, <2>5, <2>6, <2>7, <3>3, <3>6, <3>8
  <2>11. CASE CommitStaged(h)
    <3> DEFINE m == handler[h]
               past == Past(dir.at)
    <3>1. /\ m.pc = "commit" /\ Goes(h, "push")
          /\ Committed(dir.index, past) /\ dir' = [dir EXCEPT !.at = Latest]
      BY <2>11 DEF CommitStaged
    <3>2. /\ dir'.at = Latest /\ dir'.base = dir.base /\ dir'.files = dir.files
          /\ dir'.index = dir.index
      BY <1>2, <3>1 DEF Directory
    <3>3. past \in SUBSET (1 .. Len(commits))
      BY <1>1, <1>2, PastType DEF TypeInv
    <3> HIDE DEF past
    <3>4. /\ commits'[Latest] = [tree |-> dir.index, past |-> past] /\ Latest # 0
      <4>1. commits'[Latest] = [tree |-> dir.index, past |-> past] /\ Latest \in Commit
        BY <1>1, <1>2, <3>1, <3>3, CommittedType DEF TypeInv
      <4> QED BY <4>1, BoundsAssumption DEF Commit
    <3>5. /\ handler'[h].pc = "push" /\ handler'[h].base = m.base
      BY <1>1, <3>1, GoesPlace
    <3>6. m.base \in DOMAIN commits /\ dir.index = Over(TreeOf(m.base), m.change)
      BY <2>2, <3>1 DEF Holds
    <3>7. Base' = Base /\ TreeOf(Base)' = TreeOf(Base)
      BY <1>1, <1>2, <3>2 DEF Base, TreeOf, Grows
    <3>8. StagedInv'
      BY <2>1, <3>2, <3>7 DEF StagedInv
    <3>9. handler[h].op = "update" => (handler[h].saw \in Past(dir.at)')
      <4>1. Past(dir.at)' = past \cup {Latest}
        BY <3>2, <3>4 DEF Past
      <4> QED BY <2>2, <4>1 DEF past
    <3>10. Holds(handler[h])'
      <4>1. Over(TreeOf(handler[h].base), handler[h].change)' = Over(TreeOf(m.base), m.change)
        BY <1>1, <2>4, <3>5, <3>6 DEF TreeOf, Over, Grows
      <4>2. TreeOf(dir.at)' = dir.index
        BY <3>2, <3>4 DEF TreeOf
      <4>3. m.base \in DOMAIN commits'
        BY <1>1, <3>6 DEF Grows
      <4> QED BY <3>5, <3>6, <4>1, <4>2, <4>3 DEF Holds
    <3> QED BY <2>5, <2>6, <2>7, <3>8, <3>9, <3>10
  <2> QED BY <1>4, <2>8, <2>9, <2>10, <2>11
<1> QED BY <1>3, <1>4

(* What goes on around the handlers. *)
LEMMA ElsewhereDir ==
  ASSUME Inv, Elsewhere \/ \E h \in Handlers : Die(h)
  PROVE  DirInv'
<1>1. TypeInv /\ DirInv /\ Grows
  BY ElsewhereType DEF Inv
<1>2. CASE PullDefault
  <2>1. /\ UNCHANGED <<commits, dir, handler>>
        /\ disturbed' = (disturbed \/ (dir.has /\ dir.base = 0 /\ Underway))
    BY <1>2 DEF PullDefault, remote
  <2>2. CASE dir.has /\ dir.base = 0
    <3> SUFFICES ASSUME ~disturbed, ~Underway
                 PROVE  OneWriter' /\ SawInv' /\ StagedInv' /\ WriterInv'
      BY <2>1, <2>2 DEF DirInv
    <3>1. /\ \A h \in Handlers : handler'[h].pc \notin Writing
          /\ Differ(dir.files, TreeOf(dir.at)) = {} /\ Differ(dir.index, TreeOf(dir.at)) = {}
      BY <2>1 DEF Underway, Dirty
    <3>2. \A f \in Files : dir'.index[f] = dir'.files[f]
      BY <2>1, <3>1 DEF Differ
    <3> QED BY <3>1, <3>2 DEF OneWriter, SawInv, StagedInv, WriterInv, Holds, Writing
  <2>3. CASE ~(dir.has /\ dir.base = 0)
    <3>1. disturbed' = disturbed
      BY <1>1, <2>1, <2>3 DEF TypeInv, BoundsInv
    <3> QED BY <1>1, <2>1, <2>3, <3>1, DirStays
  <2> QED BY <2>2, <2>3
<1>3. ASSUME NEW f \in Files, NEW body \in Bodies \cup {Gone},
             EditBranch(f, body) \/ EditMain(f, body)
      PROVE  DirInv'
  <2>1. UNCHANGED <<clone, dir, handler, disturbed>>
    BY <1>3 DEF EditBranch, EditMain, Edit
  <2> QED BY <1>1, <2>1, DirStays
<1>4. CASE Lose
  <2>1. UNCHANGED <<handler, disturbed>> /\ dir' = NoDir
    BY <1>4 DEF Lose, Fault
  <2> QED BY <1>1, <2>1, DirGone DEF NoDir
<1>5. ASSUME NEW h \in Handlers, Die(h) PROVE DirInv'
  <2>1. /\ UNCHANGED <<clone, dir, disturbed>>
        /\ handler' = [handler EXCEPT ![h] = Idle]
    BY <1>5 DEF Die, Fault
  <2>2. handler'[h] = Idle /\ \A k \in Handlers \ {h} : handler'[k] = handler[k]
    BY <1>1, <2>1, OthersStay
  <2>3. handler'[h].pc \notin Writing
    BY <2>2 DEF Idle, Writing
  <2> QED BY <1>1, <2>1, <2>2, <2>3, DirStays
<1> QED BY <1>2, <1>3, <1>4, <1>5 DEF Elsewhere

(***************************************************************************)
(* The inductive invariant: types, and what each step of an update that    *)
(* nobody has disturbed leaves in the directory for the next.              *)
(***************************************************************************)
THEOREM BranchInvariant ==
  Spec => []Inv
<1>1. Init => Inv
  <2>1. Init => DirInv
    BY DEF Init, DirInv, OneWriter, NoDir, Idle, Writing
  <2> QED BY <2>1, TypeInvInit DEF Inv
<1>2. Inv /\ [Next]_vars => Inv'
  <2> SUFFICES ASSUME Inv, [Next]_vars PROVE Inv'
    OBVIOUS
  <2>1. TypeInv'
    BY TypeInvStep DEF Inv
  <2>2. CASE UNCHANGED vars
    <3>1. UNCHANGED <<commits, clone, dir, handler, disturbed>>
      BY <2>2 DEF vars
    <3>2. DirInv'
      BY <3>1, DirStays DEF Inv, Grows
    <3> QED BY <2>1, <3>2 DEF Inv
  <2>3. ASSUME NEW h \in Handlers, Start(h) PROVE DirInv'
    BY <2>3, SetupDir
  <2>4. ASSUME NEW h \in Handlers, Continue(h) PROVE DirInv'
    BY <2>4, SetupDir, PullDir, FailDir, UpdateDir DEF Continue
  <2>5. ASSUME Elsewhere \/ \E h \in Handlers : Die(h) PROVE DirInv'
    BY <2>5, ElsewhereDir
  <2> QED BY <2>1, <2>2, <2>3, <2>4, <2>5 DEF Inv, Next
<1> QED BY <1>1, <1>2, PTL DEF Spec

(***************************************************************************)
(* An update pushes main with the changes it was asked for and nothing     *)
(* else, whatever earlier updates have committed, staged or written and    *)
(* whoever died among them, unless two were writing at once or main moved  *)
(* under one or what it left behind.                                       *)
(***************************************************************************)
THEOREM PushCorrect ==
  Spec => []PushedIsWhatWasAsked
<1>1. Inv => PushedIsWhatWasAsked
  BY DEF Inv, DirInv, WriterInv, Holds, PushedIsWhatWasAsked
<1> QED BY <1>1, BranchInvariant, PTL

(***************************************************************************)
(* A forced push takes off the branch only what was pushed after the       *)
(* handler pulled: no update throws away the commits of another, or those  *)
(* of people, under the same condition.                                    *)
(***************************************************************************)
THEOREM HistoryKept ==
  Spec => PushKeepsHistory
<1> DEFINE Keeps == \A h \in Handlers :
             handler[h].pc = "push" /\ handler'[h].pc = "idle" /\ branch \notin {0, branch'}
             => \/ disturbed
                \/ branch \in Past(branch')
                \/ handler[h].saw # branch
<1>1. Inv /\ [Next]_vars => [Keeps]_vars
  <2> SUFFICES ASSUME Inv, Next, NEW h \in Handlers,
                      handler[h].pc = "push", handler'[h].pc = "idle",
                      branch \notin {0, branch'}, ~disturbed, handler[h].saw = branch
               PROVE  branch \in Past(branch')
    OBVIOUS
  <2>1. TypeInv /\ DirInv
    BY DEF Inv
  <2>2. ASSUME NEW k \in Handlers, Push(k) PROVE branch \in Past(branch')
    <3>1. branch' = dir.at /\ handler' = [handler EXCEPT ![k] = Idle] /\ dir.has
      BY <2>2 DEF Push
    <3>2. k = h
      BY <2>1, <3>1, OthersStay
    <3>3. handler[h].op \in {"create", "update"} /\ (handler[h].op = "create" => branch = 0)
      BY <2>1 DEF TypeInv, HandlersInv, Writing
    <3>4. handler[h].saw \in Past(dir.at)
      BY <2>1, <3>1, <3>3 DEF DirInv, SawInv, Writing
    <3> QED BY <3>1, <3>4
  <2>3. ASSUME NEW k \in Handlers, Start(k) \/ Die(k) \/ (Continue(k) /\ ~Push(k))
        PROVE  branch' = branch
    <3>1. CASE Start(k) \/ Die(k)
      <4>1. CASE Start(k)
        BY <4>1 DEF Start, BeginCreate, Begin, remote
      <4>2. CASE Die(k)
        BY <4>2 DEF Die, Fault, remote
      <4> QED BY <3>1, <4>1, <4>2
    <3>2. CASE \/ FindDir(k) \/ CloneDefault(k) \/ MissDir(k) \/ Rebuild(k)
               \/ RebuildRaises(k) \/ SparseClone(k) \/ NotListed(k)
      BY <3>2 DEF FindDir, CloneDefault, MissDir, Rebuild, RebuildRaises, SparseClone,
              NotListed, Raises, remote
    <3>3. CASE PullNothing(k) \/ PullForward(k) \/ PullMerge(k)
      BY <3>3 DEF PullNothing, PullForward, PullMerge, Pulled
    <3>4. CASE \/ PullRaises(k) \/ PullConflicts(k) \/ ResetRaises(k) \/ StageRaises(k)
               \/ NothingStaged(k) \/ NoDirRaises(k) \/ Post(k)
      BY <2>1, <3>4, FailType DEF Raises, remote
    <3>5. CASE Reset(k) \/ Write(k) \/ Stage(k) \/ CommitStaged(k) \/ Load(k)
      BY <3>5 DEF Reset, Write, Stage, CommitStaged, Load, remote
    <3> QED BY <2>3, <3>1, <3>2, <3>3, <3>4, <3>5 DEF Continue
  <2>4. CASE Elsewhere
    <3>1. handler' = handler
      BY <2>4 DEF Elsewhere, PullDefault, EditBranch, EditMain, Edit, Lose
    <3> QED BY <3>1
  <2> QED BY <2>2, <2>3, <2>4 DEF Next
<1>2. [][Keeps]_vars => PushKeepsHistory
  BY PTL DEF PushKeepsHistory
<1> QED BY <1>1, <1>2, BranchInvariant, PTL DEF Spec
=============================================================================
