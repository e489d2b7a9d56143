CONSTANTS
  NoProject = NoProject
  NoFrame = NoFrame
  Projects = {A, B}
  Frames = {f1, f2, f3}
  MAX_RETRIES = 2
  MaxTasks = 2
  MaxClicks = 1
  MaxCancels = 1
  MaxSwitches = 1
  MaxFailures = 1
  MaxCrashes = 1
  OrderedWrites = TRUE
  AtomicWrites = TRUE
  Timing = "outsideSwitch"
  EarlyReturns = FALSE
SPECIFICATION Spec
INVARIANTS TasksAreKept NoStrandedTask
PROPERTIES OrphanLeavesTasksAlone
SYMMETRY Symmetry
CONSTRAINT FewDisturbances
CHECK_DEADLOCK FALSE
