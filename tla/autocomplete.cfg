\* Three calls of the editor for one document, whose cache holds three autocompletions.
CONSTANTS
  Docs = {d1}
  Calls = {c1, c2, c3}
  Ids = {1, 2, 3, 4}
  MaxLen = 1
  MaxCache = 3
  MaxPending = 2
SPECIFICATION FairSpec
INVARIANTS RequestsBounded AwaitsPending
PROPERTY CallReturns
CHECK_DEADLOCK FALSE
