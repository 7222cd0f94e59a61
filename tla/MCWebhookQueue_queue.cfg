SPECIFICATION FairSpec
CONSTANTS
  Messages = {m1, m2}
  Kinds = {"pull", "malformed"}
  Installations = {i1}
  Tenants = {t1}
  Consumers = {c1, c2}
  NoInstallation = none
  BatchSize = 2
  MaxMessages = 1
  MaxReceiveCount = 2
  MaxLinks = 0
INVARIANTS
  TypeOK
  DeletedWasAttempted
PROPERTIES
  WebhookIsSettled
CHECK_DEADLOCK FALSE
