SPECIFICATION Spec
CONSTANTS
  Requests = {r1, r2, r3}
  Users = {approver}
  Approvers = {approver}
  Reviewers = {}
  Bot = bot
  Workers = {w1, w2}
  MergeOnApproval = FALSE
  NoUser = nouser
  NoRequest = norequest
  MaxReviews = 0
  MaxCalls = 3
INVARIANTS
  StatusIsTruthful
  RevertsAreSound
PROPERTIES
  RevertedIsFinalForReaders
  ImplementsPromise
SYMMETRY WorkerSymmetry
CHECK_DEADLOCK FALSE
