-------------------------- MODULE MCIambicRequest --------------------------
(* IambicRequest for TLC: model values and the bounds of its runs.          *)
EXTENDS IambicRequest, TLC

(* Workers are interchangeable: no action, invariant or action property    *)
(* names one of them.                                                       *)
WorkerSymmetry == Permutations(Workers)

(***************************************************************************)
(* common/iambic_request/models.py:696, of the row that shadows a merged   *)
(* pull request: "Change status to Applied if PR is merged and status is   *)
(* not Expired or Reverted".  The webhook task has no such test: a merged  *)
(* payload that is late or repeated, or a review of the merged pull        *)
(* request, turns a Reverted request back into an Applied one.             *)
(***************************************************************************)
RevertedIsNotReapplied ==
  [][\A r \in Requests :
       row[r].status = "Reverted" => row'[r].status # "Applied"]_vars

(***************************************************************************)
(* common/iambic_request/request_crud.py:418, in the handler that approves *)
(* or applies: "The PR has already been closed (Rejected) but the status   *)
(* was not updated in the DB", upon which it makes the status Rejected.    *)
(* The same call then answers through maybe_update_request, which turns a  *)
(* Rejected row of an approved pull request into an Approved one.          *)
(***************************************************************************)
ClosedIsLeftRejected ==
  \A w \in Workers :
    /\ worker[w].op \in {"approve", "apply"}
    /\ worker[w].view.state = "closed"
    /\ worker[w].pc = "settle"
    => worker[w].cur.status = "Rejected"
=============================================================================
