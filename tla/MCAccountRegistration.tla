----------------------- MODULE MCAccountRegistration -----------------------
(* AccountRegistration for TLC: mailings and the properties the code breaks. *)
EXTENDS AccountRegistration

(* Two messages, of which the order does not matter. *)
Pairs ==
  {<<"central", "update">>, <<"spoke", "malformed">>,
   <<"unknown", "stranger">>, <<"spoke", "unsupported">>}
BothRegister == {<<"central", "spoke">>}
JustOne == {<<"central">>}

(***************************************************************************)
(* common/aws/organizations/utils.py:177: "We already know about this      *)
(* account, and can skip it".  An account is in the configuration once.    *)
(***************************************************************************)
AccountIsListedOnce == \A a \in Accounts : Cardinality(Places(doc.spokes, a)) <= 1

(***************************************************************************)
(* CloudFormation takes the roles away again when it is told FAILED: such  *)
(* an account is not registered later, when its batch is handled again     *)
(* because another message of it raised (tenant_integrations/aws.py:858).  *)
(***************************************************************************)
FailedIsNotRegistered ==
  [][\A m \in Messages : told[m] = {"FAILED"} => told'[m] = {"FAILED"}]_vars

(***************************************************************************)
(* api/handlers/model_handlers.py:242: "each deletion merely removes an    *)
(* items from the list".  What an admin has deleted no sync that has read  *)
(* the account before brings back.                                         *)
(***************************************************************************)
DeletedIsNotBroughtBack ==
  [][\A y \in Syncs, a \in Accounts :
       StoreOfSync(y) /\ a \in spoilt /\ ~Has(doc, a) => ~Has(doc', a)]_vars

(***************************************************************************)
(* common/lib/tenant_integrations/aws.py:823: res["success"] is answered   *)
(* by "SUCCESS", "OK".  With nobody else about, the hub is in the document *)
(* then: the second half of its registration does not write over the first *)
(* half, having read the document before that or failed to read it.        *)
(***************************************************************************)
StoredIsThereWhenAnswered ==
  [][\A c \in Consumers :
       runs = 0 /\ Answer(c) /\ Letters(c).kind = "central" => doc.hub]_vars
=============================================================================
