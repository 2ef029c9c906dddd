\* Three messages queued, drained and resumed, and what must eventually happen.
CONSTANTS
  r1 = r1
  r2 = r2
  NoRun = NoRun
  Runs = {r1, r2}
  MaxUsers = 3
  MaxTurns = 1
  MaxInterventions = 2
  ChatRetries = 2
  Tools = {"read", "edit"}
  AutoApprove <- Both
  UserOps = {"submit", "resume", "stop", "approve", "dequeue"}
  Faults = {"prepare", "llm", "overflow"}
  Overlap = FALSE
SPECIFICATION FairSpec
INVARIANTS CheckpointBeforeUser QueueOrder
PROPERTIES QueuedIsSent ActivityEnds
CHECK_DEADLOCK FALSE
