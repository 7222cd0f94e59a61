SPECIFICATION FairSpec
CONSTANTS
  f1 = f1
  f2 = f2
  w1 = w1
  w2 = w2
  Files <- TwoFiles
  Workers <- OneWorker
  Scopes <- ImportedAndManaged
  Never = Never
  MaxCommits = 3
  MaxFaults = 2
PROPERTY FullCreateIsRetried
