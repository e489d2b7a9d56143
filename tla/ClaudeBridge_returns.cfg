CONSTANTS MaxLines = 2
SPECIFICATION Spec
INVARIANTS ReturnsWhenOver
CHECK_DEADLOCK FALSE
