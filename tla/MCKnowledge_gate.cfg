CONSTANTS
  NoValue = none
SPECIFICATION KnowledgeSpec
INVARIANTS UnrelatedWritesLand
CHECK_DEADLOCK FALSE
