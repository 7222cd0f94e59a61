SPECIFICATION Spec
CONSTANTS
  Requests = {r1}
  Users = {creator, approver}
  Approvers = {approver}
  Reviewers = {human}
  Bot = bot
  Workers = {w1, w2}
  MergeOnApproval = TRUE
  NoUser = nouser
  NoRequest = norequest
  MaxReviews = 1
  MaxCalls = 3
INVARIANTS
  TypeOK
  StatusIsTruthful
  ApplyIsAuthorised
  ApproversAreLegitimate
PROPERTIES
  ImplementsPromise
SYMMETRY WorkerSymmetry
CHECK_DEADLOCK FALSE
