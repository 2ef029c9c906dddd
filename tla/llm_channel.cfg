\* Requests that are answered, aborted, or both at once.
CONSTANTS
  Requests = {q1, q2}
  Agents = {q1, q2}
  Parsed = {q1}
  MaxText = 2
  MaxAborts = 1
SPECIFICATION FairSpec
INVARIANT GoesOnUnseen
PROPERTIES ImplementsRequest Answered AbortArrives
CHECK_DEADLOCK FALSE
