SPECIFICATION ReviewSpec
CONSTANTS
    MaxZones = 2
    Atoms = {a}
    MaxLines = 3
    MaxWidth = 1
    MaxNew = 2
    TypingOps = {"replace", "deleteLines"}
    Copies = FALSE
    Behaviors = {"keep-conflicts", "reject-conflicts"}
    NoZone = NoZone
INVARIANTS RejectIsExact AcceptIsRejectOfRest ZoneKeepsItsLines RejectAllRestores
