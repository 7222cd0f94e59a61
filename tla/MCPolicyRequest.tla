-------------------------- MODULE MCPolicyRequest --------------------------
(* PolicyRequest for TLC: symmetry and the properties the code breaks.      *)
EXTENDS PolicyRequest, TLC

(* API calls are told apart by their state only. *)
HandlerSymmetry == Permutations(Handlers)

(***************************************************************************)
(* common/lib/aws/utils.py:835: "If this feature is enabled, it will look  *)
(* at changes and remove those that are expired policies if they have      *)
(* been."  So an expired request grants nothing the removal can take back. *)
(***************************************************************************)
ExpiredIsGone ==
  row.status = "expired" => \A c \in Removable : ~Granted(c)

(***************************************************************************)
(* common/lib/v2/requests.py:3266: "For cancelled / rejected requests,     *)
(* only moving back to pending, adding comments is permitted".  No call    *)
(* grants anything while the request is closed.                            *)
(***************************************************************************)
NothingIsGrantedOnceClosed ==
  [][row.status \in Closed => grants' \subseteq grants]_vars

(***************************************************************************)
(* common/lib/v2/requests.py:3615: "Change was successful, update in       *)
(* dynamo".  What is recorded as applied to an account that Noq may write  *)
(* to was applied by Noq.                                                  *)
(***************************************************************************)
AppliedWasGranted ==
  [][\A c \in Changes \ ReadOnly :
       row.ch[c] # "applied" /\ row'.ch[c] = "applied" => Granted(c)]_vars
=============================================================================
