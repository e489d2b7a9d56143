CONSTANTS
  NoValue = none
SPECIFICATION KnowledgeSpec
INVARIANTS MaintenanceSettles DigestsAreSound GateHolds 
  
CHECK_DEADLOCK FALSE
