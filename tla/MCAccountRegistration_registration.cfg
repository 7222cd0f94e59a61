SPECIFICATION FairSpec
CONSTANTS
  Messages = {1, 2}
  Mailings <- Pairs
  Accounts = {a1}
  Hub = hub
  Consumers = {c1}
  Syncs = {y1}
  Admins = {x1}
  BatchSize = 2
  MaxMessages = 1
  MaxRuns = 1
  MaxFaults = 1
INVARIANTS
  TypeOK
  AnsweredIsRegistered
  DeletedWasAnswered
  EntriesAreApart
PROPERTIES
  MessageIsSettled
CHECK_DEADLOCK FALSE
