--------------------------- MODULE RequestStatus ---------------------------
(***************************************************************************)
(* What the status of a self-service request promises its readers (the     *)
(* request list, Slack, the audit of who approved what), whatever runs     *)
(* behind it.  Facts about a request only accumulate.  Its status may move *)
(* in any direction, since concurrent handlers overwrite each other, but   *)
(* every claim it makes is supported by a fact, a request that was created *)
(* never disappears, and no claim is made in the very step that makes it   *)
(* true.  One write may change the claims of several requests, which are   *)
(* joined when one of them is rejected; facts are learnt of one at a time. *)
(***************************************************************************)
CONSTANT Requests

VARIABLES claim, facts

Facts == {"approved", "ended", "merged", "referenced"}

(* The facts each status rests on. *)
Needs == [Absent    |-> {},
          Pending   |-> {},
          Approving |-> {},
          Approved  |-> {"approved"},
          Applying  |-> {"approved"},
          Applied   |-> {"merged"},
          Rejected  |-> {"ended"},
          Reverted  |-> {"merged", "referenced"}]

Init ==
  /\ claim = [r \in Requests |-> "Absent"]
  /\ facts = [r \in Requests |-> {}]

Learn(r, new) ==
  /\ facts' = [facts EXCEPT ![r] = @ \cup new]
  /\ UNCHANGED claim

Claim ==
  /\ claim' \in [Requests -> DOMAIN Needs]
  /\ \A r \in Requests : claim'[r] # claim[r] =>
       claim'[r] # "Absent" /\ Needs[claim'[r]] \subseteq facts[r]
  /\ UNCHANGED facts

Next ==
  \/ \E r \in Requests, new \in SUBSET Facts : Learn(r, new)
  \/ Claim

Spec == Init /\ [][Next]_<<claim, facts>>
=============================================================================
