\* One model that the provider serves or not, at two addresses or none.
SPECIFICATION Spec
CONSTANTS
  Names = {m1}
  Others = {x}
  Endpoints = {"", "A", "B"}
  UserOps = {"autoRefresh", "sync", "choose", "hide", "endpoint", "refresh", "close"}
  MaxPolls = 3
  MaxPending = 2
  MaxChanges = 3
  NoModel = NoModel
  Down = Down
  Unwatched = Unwatched
INVARIANTS ChosenIsOffered SyncedIsSame
PROPERTY ListCatchesUp
CHECK_DEADLOCK FALSE
