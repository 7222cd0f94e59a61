--------------------------- MODULE MCTemplateSync ---------------------------
(* TemplateSync for TLC: the values of its constants, a symmetry and the    *)
(* sentences of its comments that the code breaks.                          *)
EXTENDS TemplateSync, TLC

CONSTANTS f1, f2, w1, w2

OneFile    == {f1}
TwoFiles   == {f1, f2}
OneWorker  == {w1}
TwoWorkers == {w1, w2}

ImportedAndManaged == {"import_only", "managed"}

FileSymmetry == Permutations({f1, f2})

(***************************************************************************)
(* "Get all changes since last parsed" (templates/tasks.py:783): when two  *)
(* or more commits were made since the stamp, the changes of all of them   *)
(* are taken up.                                                           *)
(***************************************************************************)
AllChangesAreTaken ==
  \A w \in Workers :
    LET me == worker[w] IN
      /\ me.pc \notin {"idle", "pull", "stamp", "plan"}
      /\ me.since # Never /\ me.since + 2 <= clone
      => me.since + 1 .. clone \subseteq me.taken

(***************************************************************************)
(* "Written up here to prevent request spamming causing multiple full      *)
(* creates" (templates/tasks.py:728): no two tasks create all the rows of  *)
(* a tenant at the same time.                                              *)
(***************************************************************************)
OneFullCreate ==
  \A v, w \in Workers :
    worker[v].calling = "full" /\ worker[w].calling = "full" => v = w

(***************************************************************************)
(* "Removes deleted templates from the DB" (templates/tasks.py:562): after *)
(* the deletions of a run no deleted file has a row.                       *)
(***************************************************************************)
DeletedAreRemoved ==
  \A w \in Workers : worker[w].pc = "done" =>
    ~\E f \in worker[w].deleted : HasRow(f)

(***************************************************************************)
(* "Desync has occurred and needs to be remediated" (templates/tasks.py:   *)
(* 238): when tasks do not overlap and nothing else fails, rows that stand *)
(* in the way of a create do not make the run fail.                        *)
(***************************************************************************)
DesyncIsRemediated ==
  faults = 0 => \A w \in Workers : worker[w].pc # "restore"
=============================================================================
