SPECIFICATION FairSpec
CONSTANTS
    Calls = {c1, c2, c3}
    None = None
    Behaviors = {"overlap", "late exit", "late interrupt", "never ready"}
INVARIANT HiddenReaped
PROPERTY RunReturns
CHECK_DEADLOCK FALSE
