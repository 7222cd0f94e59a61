---------------------------- MODULE MCRoleAccess ----------------------------
(* RoleAccess for TLC: a few clones, and the property the code breaks.      *)
EXTENDS RoleAccess

CONSTANTS r1, r2, u1, u2

(* Everybody may have r1; u2 loses it and r2 goes; a clone that cannot be   *)
(* parsed.                                                                  *)
Versions ==
  {[r \in Roles |-> IF r = r1 THEN {u1, u2} ELSE {u1}],
   [r \in Roles |-> IF r = r1 THEN {u1} ELSE None],
   Broken}

(* There is u1 to begin with; u2 may come, or be there and go.              *)
InitWithU1 == Init /\ people[u1] = 1
FairSpecWithU1 == InitWithU1 /\ [][Next]_vars /\ Fairness

(***************************************************************************)
(* common/aws/role_access/celery_tasks.py:221: "Could not find matching    *)
(* group in CloudUmi's Database."  Who is said not to be in the database   *)
(* is not there.                                                           *)
(***************************************************************************)
EverybodyIsFound ==
  [][\A w \in Workers, g \in Grantees :
       At(w, "people") /\ At(w, "roles")' => task'[w].people[g] = people[g]]_vars
=============================================================================
