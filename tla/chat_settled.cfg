\* The user starts new work only when everything in flight has settled.
CONSTANTS
  r1 = r1
  r2 = r2
  NoRun = NoRun
  Runs = {r1, r2}
  MaxUsers = 2
  MaxTurns = 2
  MaxInterventions = 2
  ChatRetries = 2
  Tools = {"edit", "mcp"}
  AutoApprove <- Both
  UserOps = {"submit", "resume", "stop", "approve", "reject", "edit", "jump", "revert", "refresh", "restart"}
  Faults = {"prepare", "toolStart", "content"}
  Overlap = FALSE
SPECIFICATION Spec
INVARIANTS OneTask AwaitedRequestIsLast NoToolLeftRunning CarriedOutOnce SnapshotComplete
SYMMETRY RunSymmetry
CHECK_DEADLOCK FALSE
