-------------------------- MODULE MCRequestBranch --------------------------
(* RequestBranch for TLC: model values and the bounds of its runs.          *)
EXTENDS RequestBranch, TLC

CONSTANTS f1, f2
(* One file, as the API changes it, and both, as a revert may.             *)
ThreeChanges == {f1 :> 2, f2 :> 2, f1 :> 2 @@ f2 :> 1}

(***************************************************************************)
(* common/iambic_request/models.py:81, of why a repository that is not     *)
(* thread safe is all right: "We'll never be updating the request at the   *)
(* same time we're creating, retrieving, merging, or rejecting it".        *)
(* Nothing keeps an update from running between the load of another        *)
(* handler and its comment, which then is about other changes.             *)
(***************************************************************************)
MergedIsLoaded ==
  [][\A h \in Handlers :
       handler[h].pc = "post" /\ handler'[h].pc = "idle"
       => faults' # faults \/ edits # 0 \/ handler[h].saw = branch]_vars

(***************************************************************************)
(* The same comment: two updates at the same time stage their files in one *)
(* index, and one commits what the other was asked for.                    *)
(***************************************************************************)
OnlyAskedIsPushed ==
  \A h \in Handlers :
    handler[h].pc = "push" /\ dir.has
    => TreeOf(dir.at) = Over(TreeOf(handler[h].base), handler[h].change)

(***************************************************************************)
(* common/iambic/git/models.py:242, where `git worktree add -b` fails:     *)
(* "The branch already exists so create the worktree for it".  The         *)
(* exception that run_command raises is not the one that is caught there.  *)
(***************************************************************************)
ExistingBranchIsUsed ==
  [][\A h \in Handlers :
       handler[h].pc = "rebuild" /\ clone.named /\ faults' = faults
       /\ handler'[h] # handler[h] => dir'.has]_vars

(***************************************************************************)
(* common/iambic_request/models.py:371, of the bodies shown for a pull     *)
(* request: "Read from local file system if the request is still open".    *)
(* The local files are not what is proposed when people have pushed, when  *)
(* an update has died, or after the directory was rebuilt from main.       *)
(***************************************************************************)
ShownIsProposed ==
  [][\A h \in Handlers :
       handler[h].pc = "load" /\ handler'[h].pc # "load" /\ dir.has
       => \/ \E k \in Handlers : handler[k].pc \in Writing
          \/ faults' # faults
          \/ dir.files = TreeOf(branch)]_vars
=============================================================================
