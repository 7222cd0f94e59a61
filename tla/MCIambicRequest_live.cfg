SPECIFICATION FairSpec
CONSTANTS
  Requests = {r1}
  Users = {approver}
  Approvers = {approver}
  Reviewers = {human}
  Bot = bot
  Workers = {w1, w2}
  MergeOnApproval = TRUE
  NoUser = nouser
  NoRequest = norequest
  MaxReviews = 1
  MaxCalls = 2
PROPERTIES
  MergedStaysReported
CHECK_DEADLOCK FALSE
