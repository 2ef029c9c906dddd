\* Two windows share the files; either may die, also while it holds the lock.
CONSTANTS
  w1 = w1
  w2 = w2
  NoOne = NoOne
  daily = daily
  deploy = deploy
  Windows = {w1, w2}
  Daemons = {}
  Kind <- PromptAndGate
  Once = {deploy}
  MaxOps = 2
  MaxItems = 7
  MaxLeases = 2
  WindowOps = {"tick", "add", "remove", "run", "enqueue", "approve"}
  Faults = {"crash", "stale", "late"}
SPECIFICATION Spec
INVARIANTS LockExclusive OneHolder ScheduledNotLost
PROPERTY ImplementsQueue
SYMMETRY WindowSymmetry
CHECK_DEADLOCK FALSE
