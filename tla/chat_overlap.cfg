\* Every operation and failure, with the user acting at any moment.
CONSTANTS
  r1 = r1
  r2 = r2
  NoRun = NoRun
  Runs = {r1, r2}
  MaxUsers = 2
  MaxTurns = 1
  MaxInterventions = 1
  ChatRetries = 2
  Tools <- AllTools
  AutoApprove <- Both
  UserOps <- AllOps
  Faults = {"prepare", "params", "toolStart", "tool", "llm", "overflow", "refused"}
  Overlap = TRUE
SPECIFICATION Spec
INVARIANTS TypeOK StreamOwned QueueAttended
PROPERTY InterruptIsFinal
SYMMETRY RunSymmetry
CHECK_DEADLOCK FALSE
