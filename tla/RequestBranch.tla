--------------------------- MODULE RequestBranch ---------------------------
(***************************************************************************)
(* The git side of one self-service IAMbic request: its branch on GitHub   *)
(* and the working directory in which the handlers of the SaaS write it    *)
(* (common/iambic/git/models.py, called from BasePullRequest in            *)
(* common/iambic_request/models.py).                                       *)
(*                                                                         *)
(* The directory is named after the request and lies on storage that all   *)
(* hosts share, so that every handler of the request works in the same     *)
(* one: `git` commands of one handler are separate processes, awaited one  *)
(* by one, and those of another may run between any two of them.  There is *)
(* no lock.  One action is one command, or several of which no other       *)
(* handler could tell the order.                                           *)
(*                                                                         *)
(* Git is modelled by what its commands do to the commit that is checked   *)
(* out, the index and the files.  A commit is a number, later ones being   *)
(* larger; a body is the contents of a template; Gone is no such file.     *)
(* Who may call what, and what becomes of the row, is in IambicRequest:    *)
(* here a handler may be called as soon as there is a pull request.        *)
(***************************************************************************)
EXTENDS Naturals, Sequences, FiniteSetsExt

CONSTANTS
  Files, Bodies,
  Changes,     \* what a user may ask for: new bodies of some of the files
  Handlers,
  Gone,
  MaxCommits,  \* bound: commits on all branches together
  MaxCalls,    \* bound: handlers called
  MaxEdits,    \* bound: commits that people push
  MaxFaults    \* bound: handlers that die and directories that are lost

ASSUME GoneAssumption == Gone \notin Bodies
ASSUME ChangesAssumption ==
  \A change \in Changes :
    /\ DOMAIN change \in (SUBSET Files) \ {{}}
    /\ \A f \in DOMAIN change : change[f] \in Bodies
ASSUME BoundsAssumption ==
  {MaxCommits, MaxCalls, MaxEdits, MaxFaults} \subseteq Nat /\ MaxCommits > 0

VARIABLES
  commits,     \* every commit: its tree and the commits before it
  main,        \* GitHub's default branch
  branch,      \* GitHub's branch of the request; 0 until it is pushed
  clone,       \* the tenant's clone of the default branch
  dir,         \* the working directory of the request
  handler,     \* what each running handler holds in memory
  disturbed,   \* history: two handlers have been writing at the same time, or
               \* main has moved under one, or under what was not committed
  calls, edits, faults

vars == <<commits, main, branch, clone, dir, handler, disturbed, calls, edits,
          faults>>
counters == <<calls, edits, faults>>
remote == <<commits, main, branch>>

Tree == [Files -> Bodies \cup {Gone}]
Commit == 1 .. MaxCommits

(* `base` is what main and origin/main mean in the directory: 0 if it is a *)
(* worktree, which shares these references with the clone.  `stuck` is a   *)
(* merge that stopped at a conflict.                                       *)
Directory == [has : BOOLEAN, base : Commit \cup {0}, at : Commit \cup {0},
              index : Tree, files : Tree, stuck : BOOLEAN]
(* `named` is whether the clone has a branch of the request's name.        *)
Clone == [at : Commit \cup {0}, named : BOOLEAN]

Empty == [f \in Files |-> Gone]
NoDir == [has |-> FALSE, base |-> 0, at |-> 0, index |-> Empty,
          files |-> Empty, stuck |-> FALSE]

Writing == {"reset", "write", "stage", "commit", "push"}
Memory == [pc : Writing \cup {"idle", "setup", "rebuild", "pull", "load", "post"},
           op : {"none", "create", "update", "view", "merge"},
           change : Changes \cup {<<>>},
           base : Commit \cup {0}, saw : Commit \cup {0}]
Idle == [pc |-> "idle", op |-> "none", change |-> <<>>,
         base |-> 0, saw |-> 0]

TypeOK ==
  /\ commits \in Seq([tree : Tree, past : SUBSET Commit])
  /\ Len(commits) \in Commit
  /\ \A c \in DOMAIN commits : \A p \in commits[c].past : p < c
  /\ main \in DOMAIN commits
  /\ branch \in DOMAIN commits \cup {0}
  /\ clone \in Clone
  /\ dir \in Directory
  /\ dir.has => dir.at \in DOMAIN commits
  /\ dir.has /\ dir.base = 0 => clone.at # 0 /\ clone.named
  /\ handler \in [Handlers -> Memory]
  /\ disturbed \in BOOLEAN
  /\ calls \in 0 .. MaxCalls /\ edits \in 0 .. MaxEdits
  /\ faults \in 0 .. MaxFaults

-----------------------------------------------------------------------------
(* Commits and trees.                                                      *)
TreeOf(c) == commits[c].tree
Past(c) == IF c = 0 THEN {} ELSE commits[c].past \cup {c}
Differ(s, t) == {f \in Files : s[f] # t[f]}
Over(t, change) ==
  [f \in Files |-> IF f \in DOMAIN change THEN change[f] ELSE t[f]]
With(t, s, names) == [f \in Files |-> IF f \in names THEN s[f] ELSE t[f]]

Committed(tree, past) ==
  /\ Len(commits) < MaxCommits
  /\ commits' = Append(commits, [tree |-> tree, past |-> past])
Latest == Len(commits) + 1

Init ==
  /\ \E tree \in Tree :
       commits = <<[tree |-> tree, past |-> {}]>>
  /\ main = 1
  /\ branch = 0
  /\ clone = [at |-> 1, named |-> FALSE]
  /\ dir = NoDir
  /\ handler = [h \in Handlers |-> Idle]
  /\ disturbed = FALSE
  /\ calls = 0 /\ edits = 0 /\ faults = 0

Goes(h, pc) == handler' = [handler EXCEPT ![h].pc = pc]
Raises(h) ==
  /\ handler' = [handler EXCEPT ![h] = Idle]
  /\ UNCHANGED <<remote, clone, disturbed, counters>>

(* Two handlers are in the directory at once. *)
Meets(h) ==
  disturbed' = (disturbed
                 \/ \E k \in Handlers \ {h} : handler[k].pc \in Writing)

-----------------------------------------------------------------------------
(***************************************************************************)
(* The calls: create_request; update_request with changes; a view of the   *)
(* request; an approval or an application, which load the pull request and *)
(* then comment on it.                                                     *)
(***************************************************************************)
Call == calls < MaxCalls /\ calls' = calls + 1

(* A new request has a fresh id: no directory and no branch is named so.   *)
BeginCreate(h, change) ==
  /\ branch = 0
  /\ \A k \in Handlers : handler[k] = Idle
  /\ Call
  /\ handler' = [handler EXCEPT ![h] = [Idle EXCEPT
       !.pc = "setup", !.op = "create", !.change = change]]
  /\ dir' = NoDir
  /\ UNCHANGED <<remote, clone, disturbed, edits, faults>>

Begin(h, op, change) ==
  /\ branch # 0
  /\ handler[h].pc = "idle"
  /\ Call
  /\ handler' = [handler EXCEPT ![h] = [Idle EXCEPT
       !.pc = "setup", !.op = op, !.change = change]]
  /\ UNCHANGED <<remote, clone, dir, disturbed, edits, faults>>

-----------------------------------------------------------------------------
(***************************************************************************)
(* set_repo, called once when the handler is set up and, by an update, a   *)
(* second time.  If there is neither a directory nor a clone it only       *)
(* clones: a view goes on without a directory and raises, an update comes  *)
(* back here.                                                              *)
(***************************************************************************)
FindDir(h) ==
  /\ handler[h].pc = "setup"
  /\ handler[h].op # "create"
  /\ dir.has
  /\ Goes(h, IF handler[h].op = "update" THEN "pull" ELSE "load")
  /\ UNCHANGED <<remote, clone, dir, disturbed, counters>>

CloneDefault(h) ==
  /\ handler[h].pc = "setup"
  /\ clone.at = 0
  /\ ~dir.has
  /\ clone' = [at |-> main, named |-> FALSE]
  /\ handler' = IF handler[h].op \in {"create", "update"} THEN handler
                ELSE [handler EXCEPT ![h] = Idle]
  /\ UNCHANGED <<remote, dir, disturbed, counters>>

MissDir(h) ==
  /\ handler[h].pc = "setup"
  /\ handler[h].op # "create"
  /\ ~dir.has /\ clone.at # 0
  /\ Goes(h, "rebuild")
  /\ UNCHANGED <<remote, clone, dir, disturbed, counters>>

(* What `git worktree add` checks out.                                     *)
Worktree(c) == [NoDir EXCEPT !.has = TRUE, !.at = c, !.index = TreeOf(c),
                             !.files = TreeOf(c)]

RebuildDetached(h) ==  \* a mistake: the worktree is added without a branch
  /\ handler[h].pc = "rebuild"
  /\ ~clone.named
  /\ clone' = [clone EXCEPT !.at = main]
  /\ dir' = Worktree(main)
  /\ Meets(h)
  /\ Goes(h, IF handler[h].op = "update" THEN "pull" ELSE "load")
  /\ UNCHANGED <<remote, counters>>

(***************************************************************************)
(* clone_or_pull_git_repo and set_request_branch: the clone is reset to    *)
(* the default branch, whatever is at the path of the directory is         *)
(* deleted, and a worktree with a new branch is added.                     *)
(***************************************************************************)
Rebuild(h) ==
  /\ handler[h].pc = "rebuild"
  /\ ~clone.named
  /\ clone' = [at |-> main, named |-> TRUE]
  /\ dir' = Worktree(main)
  /\ Meets(h)
  /\ Goes(h, IF handler[h].op = "update" THEN "pull" ELSE "load")
  /\ UNCHANGED <<remote, counters>>

(* If the clone has the branch, `git worktree add -b` fails.  That is      *)
(* expected, but run_command raises a plain Exception where                *)
(* GitCommandError is caught.                                              *)
RebuildRaises(h) ==
  /\ handler[h].pc = "rebuild"
  /\ clone.named
  /\ clone' = [clone EXCEPT !.at = main]
  /\ dir' = NoDir
  /\ Meets(h)
  /\ handler' = [handler EXCEPT ![h] = Idle]
  /\ UNCHANGED <<remote, counters>>

(***************************************************************************)
(* set_request_branch of a create: a sparse clone of the default branch.   *)
(* The files must exist in the tenant's clone, which may be out of date.   *)
(***************************************************************************)
Listed(h) ==
  \A f \in DOMAIN handler[h].change : TreeOf(clone.at)[f] # Gone

SparseClone(h) ==
  /\ handler[h].pc = "setup" /\ handler[h].op = "create"
  /\ clone.at # 0 /\ Listed(h)
  /\ dir' = [Worktree(main) EXCEPT !.base = main]
  /\ handler' = [handler EXCEPT ![h].pc = "write", ![h].base = main]
  /\ UNCHANGED <<remote, clone, disturbed, counters>>

NotListed(h) ==
  /\ handler[h].pc = "setup" /\ handler[h].op = "create"
  /\ clone.at # 0 /\ ~Listed(h)
  /\ Raises(h)
  /\ UNCHANGED dir

-----------------------------------------------------------------------------
(***************************************************************************)
(* update_branch: pull the request's branch, put every file that differs   *)
(* from main back, write the new bodies, commit and push.  A command that  *)
(* fails raises, and leaves the directory as it is.                        *)
(***************************************************************************)
Dirty == Differ(dir.files, TreeOf(dir.at)) \cup Differ(dir.index, TreeOf(dir.at))
IsNew == branch \notin Past(dir.at)
IsForward == dir.at \in Past(branch)
Fork == Max(Past(dir.at) \cap Past(branch))
(* What a pull brings: the files changed since the histories parted.       *)
Incoming == Differ(TreeOf(Fork), TreeOf(branch))
Conflicts == {f \in Incoming \cap Differ(TreeOf(Fork), TreeOf(dir.at)) :
                TreeOf(branch)[f] # TreeOf(dir.at)[f]}
Mixed == dir.index # TreeOf(dir.at)

Pulls(h) == /\ handler[h].pc = "pull"
            /\ dir.has

Pulled(h) ==
  /\ handler' = [handler EXCEPT ![h].pc = "reset", ![h].saw = branch]
  /\ Meets(h)
  /\ UNCHANGED <<main, branch, clone, counters>>

PullNothing(h) ==
  /\ Pulls(h) /\ ~dir.stuck
  /\ ~IsNew
  /\ Pulled(h)
  /\ UNCHANGED <<commits, dir>>

PullForgotten(h) ==  \* a mistake: the new commits are fetched, not merged
  /\ Pulls(h) /\ ~dir.stuck
  /\ IsNew /\ IsForward /\ Incoming \cap Dirty = {}
  /\ Pulled(h)
  /\ UNCHANGED <<commits, dir>>

PullForward(h) ==
  /\ Pulls(h) /\ ~dir.stuck
  /\ IsNew /\ IsForward /\ Incoming \cap Dirty = {}
  /\ dir' = [dir EXCEPT !.at = branch,
                        !.index = With(@, TreeOf(branch), Incoming),
                        !.files = With(@, TreeOf(branch), Incoming)]
  /\ Pulled(h)
  /\ UNCHANGED commits

PullMerge(h) ==
  /\ Pulls(h) /\ ~dir.stuck
  /\ IsNew /\ ~IsForward
  /\ ~Mixed /\ Incoming \cap Dirty = {} /\ Conflicts = {}
  /\ LET tree == With(TreeOf(dir.at), TreeOf(branch), Incoming)
     IN /\ Committed(tree, Past(dir.at) \cup Past(branch))
        /\ dir' = [dir EXCEPT !.at = Latest, !.index = tree,
                              !.files = With(@, TreeOf(branch), Incoming)]
  /\ Pulled(h)

(* In a worktree nothing has told git yet how to join two histories:       *)
(* whether it merges or refuses depends on its version.                    *)
PullRaises(h) ==
  /\ Pulls(h)
  /\ \/ dir.stuck
     \/ /\ IsNew
        /\ \/ Incoming \cap Dirty # {}
           \/ ~IsForward /\ (Mixed \/ dir.base = 0)
  /\ Raises(h)
  /\ UNCHANGED dir

PullConflicts(h) ==
  /\ Pulls(h) /\ ~dir.stuck
  /\ IsNew /\ ~IsForward
  /\ ~Mixed /\ Incoming \cap Dirty = {} /\ Conflicts # {}
  /\ dir' = [dir EXCEPT !.stuck = TRUE]
  /\ Raises(h)

(***************************************************************************)
(* The reset: `git diff` compares the files it tracks with the local main, *)
(* `git checkout origin/main` takes each of them back, and raises at one   *)
(* that main does not have.                                                *)
(***************************************************************************)
Base == IF dir.base = 0 THEN clone.at ELSE dir.base
Tracked == {f \in Files : dir.index[f] # Gone \/ TreeOf(Base)[f] # Gone}
(* A mistake: `git diff` without a branch, which tells what is uncommitted. *)
ChangedSinceCommit == Tracked \cap Differ(dir.files, TreeOf(dir.at))
Changed == Tracked \cap Differ(dir.files, TreeOf(Base))

Takes(h, names) ==
  dir' = [dir EXCEPT !.index = With(@, TreeOf(Base), names),
                     !.files = With(@, TreeOf(Base), names)]

Reset(h) ==
  /\ handler[h].pc = "reset" /\ dir.has
  /\ \A f \in Changed : TreeOf(Base)[f] # Gone
  /\ Takes(h, Changed)
  /\ handler' = [handler EXCEPT ![h].pc = "write", ![h].base = Base]
  /\ UNCHANGED <<remote, clone, disturbed, counters>>

ResetRaises(h) ==
  /\ handler[h].pc = "reset" /\ dir.has
  /\ \E f \in Changed :
       /\ TreeOf(Base)[f] = Gone
       /\ \E names \in SUBSET (Changed \ {f}) :
            /\ \A g \in names : TreeOf(Base)[g] # Gone
            /\ Takes(h, names)
  /\ Raises(h)

Write(h) ==
  /\ handler[h].pc = "write" /\ dir.has
  /\ dir' = [dir EXCEPT !.files = Over(@, handler[h].change)]
  /\ Goes(h, "stage")
  /\ UNCHANGED <<remote, clone, disturbed, counters>>

(* `git add`: what is staged is what the file has become by now.           *)
Stageable(h) ==
  \A f \in DOMAIN handler[h].change : dir.files[f] # Gone \/ dir.index[f] # Gone

Stage(h) ==
  /\ handler[h].pc = "stage" /\ dir.has
  /\ Stageable(h)
  /\ dir' = [dir EXCEPT !.index = With(@, dir.files, DOMAIN handler[h].change)]
  /\ Goes(h, "commit")
  /\ UNCHANGED <<remote, clone, disturbed, counters>>

StageRaises(h) ==
  /\ handler[h].pc = "stage" /\ dir.has
  /\ ~Stageable(h)
  /\ Raises(h)
  /\ UNCHANGED dir

(* `git commit`, which fails if nothing is staged.                         *)
CommitStaged(h) ==
  /\ handler[h].pc = "commit" /\ dir.has
  /\ Mixed
  /\ Committed(dir.index, Past(dir.at))
  /\ dir' = [dir EXCEPT !.at = Latest]
  /\ Goes(h, "push")
  /\ UNCHANGED <<main, branch, clone, disturbed, counters>>

NothingStaged(h) ==
  /\ handler[h].pc = "commit" /\ dir.has
  /\ ~Mixed
  /\ Raises(h)
  /\ UNCHANGED dir

(* `git push --force`; a create then opens the pull request and inserts    *)
(* the row, by which other handlers know of the request.                   *)
Push(h) ==
  /\ handler[h].pc = "push" /\ dir.has
  /\ branch' = dir.at
  /\ handler' = [handler EXCEPT ![h] = Idle]
  /\ UNCHANGED <<commits, main, clone, dir, disturbed, counters>>

(* A command whose directory has been deleted. *)
NoDirRaises(h) ==
  /\ handler[h].pc \in Writing \cup {"pull", "load"}
  /\ ~dir.has
  /\ Raises(h)
  /\ UNCHANGED dir

-----------------------------------------------------------------------------
(* load_pr, which reads the bodies of an open request in the directory.    *)
Load(h) ==
  /\ handler[h].pc = "load" /\ dir.has
  /\ handler' = [handler EXCEPT
       ![h] = IF @.op = "view" THEN Idle
              ELSE [@ EXCEPT !.pc = "post", !.saw = branch]]
  /\ UNCHANGED <<remote, clone, dir, disturbed, counters>>

(* `iambic approve` or `iambic apply`, which GitHub's app takes to be of   *)
(* what the branch is by then.                                             *)
Post(h) ==
  /\ handler[h].pc = "post"
  /\ Raises(h)
  /\ UNCHANGED dir

-----------------------------------------------------------------------------
(* Any handler of the tenant brings the clone up to date, and with it what *)
(* main means in a worktree.                                               *)
Underway == Dirty # {} \/ \E h \in Handlers : handler[h].pc \in Writing
PullDefault ==
  /\ clone.at # main
  /\ clone' = [clone EXCEPT !.at = main]
  /\ disturbed' = (disturbed \/ (dir.has /\ dir.base = 0 /\ Underway))
  /\ UNCHANGED <<remote, dir, handler, counters>>

(* People push to the pull request, and merge others.                      *)
Edit ==
  /\ edits < MaxEdits /\ edits' = edits + 1
  /\ UNCHANGED <<clone, dir, handler, disturbed, calls, faults>>

EditBranch(f, body) ==
  /\ branch # 0
  /\ TreeOf(branch)[f] # body
  /\ Edit
  /\ Committed([TreeOf(branch) EXCEPT ![f] = body], Past(branch))
  /\ branch' = Latest
  /\ UNCHANGED main

EditMain(f, body) ==
  /\ TreeOf(main)[f] # body
  /\ Edit
  /\ Committed([TreeOf(main) EXCEPT ![f] = body], Past(main))
  /\ main' = Latest
  /\ UNCHANGED branch

Fault ==
  /\ faults < MaxFaults /\ faults' = faults + 1
  /\ UNCHANGED <<remote, disturbed, calls, edits>>

(* A process dies, or GitHub or the network fails it.                      *)
Die(h) ==
  /\ handler[h].pc # "idle"
  /\ Fault
  /\ handler' = [handler EXCEPT ![h] = Idle]
  /\ UNCHANGED <<clone, dir>>

(* The directory is lost, or all the tenant's storage.                     *)
Lose ==
  /\ dir.has
  /\ Fault
  /\ dir' = NoDir
  /\ clone' \in {clone, [at |-> 0, named |-> FALSE]}
  /\ UNCHANGED handler

-----------------------------------------------------------------------------
Start(h) ==
  \/ \E change \in Changes :
       BeginCreate(h, change) \/ Begin(h, "update", change)
  \/ \E op \in {"view", "merge"} : Begin(h, op, <<>>)

Continue(h) ==
  \/ FindDir(h) \/ CloneDefault(h) \/ MissDir(h)
  \/ Rebuild(h) \/ RebuildRaises(h) \/ SparseClone(h) \/ NotListed(h)
  \/ PullNothing(h) \/ PullForward(h) \/ PullMerge(h)
  \/ PullRaises(h) \/ PullConflicts(h)
  \/ Reset(h) \/ ResetRaises(h) \/ Write(h) \/ Stage(h) \/ StageRaises(h)
  \/ CommitStaged(h) \/ NothingStaged(h) \/ Push(h) \/ NoDirRaises(h)
  \/ Load(h) \/ Post(h)

Elsewhere ==
  \/ PullDefault
  \/ \E f \in Files, body \in Bodies \cup {Gone} :
       EditBranch(f, body) \/ EditMain(f, body)
  \/ Lose

Next ==
  \/ \E h \in Handlers : Start(h) \/ Continue(h) \/ Die(h)
  \/ Elsewhere

Spec == Init /\ [][Next]_vars

-----------------------------------------------------------------------------
(***************************************************************************)
(* What an update is about to push is main with the changes it was asked   *)
(* for and nothing else: not what an earlier update committed, nor what    *)
(* one that died had written or staged, nor what people had pushed.  It    *)
(* holds as long as no two handlers have been writing in the directory at  *)
(* the same time, and as main has not moved under an update or what one    *)
(* left behind: `git diff` compares files, not what is staged, and passes  *)
(* over a file that main has come to agree with.                           *)
(***************************************************************************)
PushedIsWhatWasAsked ==
  \A h \in Handlers :
    handler[h].pc = "push" /\ dir.has /\ ~disturbed
    => TreeOf(dir.at) = Over(TreeOf(handler[h].base), handler[h].change)

(***************************************************************************)
(* A forced push takes no commit off the branch but one that was pushed    *)
(* after the handler pulled, under the same condition: the handlers of the *)
(* request never throw away one another's commits, or those of people.     *)
(***************************************************************************)
PushKeepsHistory ==
  [][\A h \in Handlers :
       handler[h].pc = "push" /\ handler'[h].pc = "idle"
       /\ branch \notin {0, branch'}
       => \/ disturbed
          \/ branch \in Past(branch')
          \/ handler[h].saw # branch]_vars
=============================================================================
