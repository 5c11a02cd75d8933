SPECIFICATION Spec
CONSTANT MaxValues = 1
PROPERTY ReceivableAfterSentinel
CHECK_DEADLOCK FALSE
