\* Stop while an MCP server works.
CONSTANTS
  r1 = r1
  r2 = r2
  NoRun = NoRun
  Runs = {r1, r2}
  MaxUsers = 1
  MaxTurns = 1
  MaxInterventions = 1
  ChatRetries = 2
  Tools = {"mcp"}
  AutoApprove <- Always
  UserOps = {"submit", "stop"}
  Faults = {}
  Overlap = FALSE
SPECIFICATION FairSpec
PROPERTY StopIsHonoured
CHECK_DEADLOCK FALSE
