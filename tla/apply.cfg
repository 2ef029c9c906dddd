\* Two applies and an edit of the agent on two files, the user acting at any moment.
CONSTANTS
  a1 = a1
  a2 = a2
  f1 = f1
  f2 = f2
  e1 = e1
  NoOne = NoOne
  Files = {f1, f2}
  Applies = {a1, a2}
  Edits = {e1}
  NRetries = 3
  Answers <- AllAnswers
  MaxUndo = 2
  UserOps <- AllOps
SPECIFICATION Spec
INVARIANTS StreamHasLoop FailedLeavesNothing Reviewable
PROPERTY OneStreamPerFile
SYMMETRY Symmetry
CHECK_DEADLOCK FALSE
