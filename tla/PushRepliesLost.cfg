SPECIFICATION Spec
CONSTANT MaxValues = 1
INVARIANT RepliesBeforeDone
CHECK_DEADLOCK FALSE
