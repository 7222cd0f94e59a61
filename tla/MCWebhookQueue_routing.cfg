SPECIFICATION Spec
CONSTANTS
  Messages = {m1, m2}
  Kinds = {"pull", "push", "deleted"}
  Installations = {i1, i2}
  Tenants = {t1, t2}
  Consumers = {c1, c2}
  NoInstallation = none
  BatchSize = 1
  MaxMessages = 1
  MaxReceiveCount = 1
  MaxLinks = 2
INVARIANTS
  ToldAllWhoStayed
  ToldOnlyLinked
SYMMETRY QueueSymmetry
CHECK_DEADLOCK FALSE
