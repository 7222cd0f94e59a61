SPECIFICATION Spec
CONSTANTS
  f1 = f1
  f2 = f2
  w1 = w1
  w2 = w2
  Files <- OneFile
  Workers <- OneWorker
  Scopes <- ImportedAndManaged
  Never = Never
  MaxCommits = 4
  MaxFaults = 0
INVARIANT AllChangesAreTaken
