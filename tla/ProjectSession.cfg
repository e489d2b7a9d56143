CONSTANTS
  Projects = {A, B}
  NoProject = NoProject
  Calls = {c1}
  Ingests = {i1, i2}
  Reviewers = {r1}
  MaxItems = 2
  MaxLeaves = 2
  MaxClicks = 1
  MaxRestarts = 1
  Assumed = {"promptOpening", "promptWrites", "oneOpening", "workSettles", "wholeWrites"}
SPECIFICATION FairSpec
INVARIANTS NoContamination ItemsAreKept
PROPERTIES SweepStaysHome ShownItemsAreSaved
CHECK_DEADLOCK FALSE
