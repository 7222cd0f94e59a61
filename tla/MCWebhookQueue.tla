--------------------------- MODULE MCWebhookQueue ---------------------------
(* WebhookQueue for TLC: symmetries and the properties the code breaks.     *)
EXTENDS WebhookQueue, TLC

(* Messages, tenants and consumers are told apart by their state only.     *)
QueueSymmetry ==
  Permutations(Messages) \cup Permutations(Tenants) \cup Permutations(Consumers)

(***************************************************************************)
(* common/github/webhook_event_buffer.py:263, where the handler of a       *)
(* message has raised: "We setup the dead letter queue re-drive policy in  *)
(* terraform. How it works is typically after 4 (or N) attempt to consume  *)
(* it will automatically move to the associated DLQ".  The finally clause  *)
(* deletes the message after the first attempt.                            *)
(***************************************************************************)
FailedIsRetried ==
  \A m \in Messages : mail[m].place = "deleted" => "handled" \in outcome[m]

(***************************************************************************)
(* The same comment, of the messages that do move to the dead-letter       *)
(* queue: they were attempted.  A run that has reached its limit has       *)
(* already received one more batch, which it drops without looking at it.  *)
(***************************************************************************)
DeadWasAttempted ==
  \A m \in Messages :
    mail[m].place = "dead" /\ mail[m].kind # "malformed" => outcome[m] # {}

(***************************************************************************)
(* common/github/webhook_event_buffer.py:74: "Note about why we allow a    *)
(* single installation id to map to multiple tenant".  When the webhook of *)
(* an installation is deleted on GitHub, the loop over its tenants forgets *)
(* the first one and returns.                                              *)
(***************************************************************************)
InstallationIsForgotten ==
  \A m \in Messages :
    "handled" \in outcome[m] /\ mail[m].kind = "deleted" => since[m] = {}
=============================================================================
