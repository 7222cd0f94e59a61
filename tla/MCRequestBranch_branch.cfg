SPECIFICATION Spec
CONSTANTS
  f1 = f1
  f2 = f2
  Files = {f1, f2}
  Bodies = {1, 2}
  Changes <- ThreeChanges
  Handlers = {h1, h2}
  Gone = Gone
  MaxCommits = 5
  MaxCalls = 3
  MaxEdits = 1
  MaxFaults = 2
INVARIANTS TypeOK PushedIsWhatWasAsked
PROPERTIES PushKeepsHistory
CHECK_DEADLOCK FALSE
