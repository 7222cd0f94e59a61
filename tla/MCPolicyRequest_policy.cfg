SPECIFICATION FairSpec
CONSTANTS
  Changes = {1, 2, 3, 4}
  Marked = {1, 2, 4}
  Resource = {2, 4}
  Lasting = {}
  Misnamed = {2}
  Topics = {}
  Trust = {}
  Stray = {3}
  Generated = {4}
  Foreign = {4}
  ReadOnly = {}
  Handlers = {h1, h2}
  MaxCalls = 2
  MaxMarks = 1
  MaxFaults = 1
INVARIANTS
  TypeOK
  ClosedHasNothingApplied
  RecordIsRight
PROPERTIES
  ExpiryHappens
CHECK_DEADLOCK FALSE
