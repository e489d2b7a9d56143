CONSTANTS
  None = none
  Projects = {"a", "b"}
  maxConcurrent = 2
  MaxTasks = 3
  MaxResets = 1
  MaxMishaps = 1
  Files = {"a", "b"}
  MaxEdits = 2
  MaxSelections = 2
  MaxForeign = 1
  Polls = {1, 2}
  MaxClips = 2
  MaxSwitches = 2
  MaxRestarts = 1
  Usable = TRUE
SPECIFICATION BackgroundSpec
INVARIANTS ResearchIsSound   OneAtATime TextsAreWhole  ChatIsSound
PROPERTIES EveryoneGetsATurn
CHECK_DEADLOCK FALSE
