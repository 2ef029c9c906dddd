\* Two windows, the second of which may open at any time.
CONSTANTS
  Windows = {1, 2}
  Clients = {1, 2, 3}
  NoClient = 0
  Slots = {1, 2}
  MaxVersion = 2
  MaxOps = 1
SPECIFICATION Spec
INVARIANTS ShownIsTrue NoClientLost FollowsFile
CHECK_DEADLOCK FALSE
