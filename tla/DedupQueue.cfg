CONSTANTS
  Runners = {r1, r2}
  Pages <- ThreePages
  Index = index
  Keys = {"p slug", "P title", "q slug", "o slug"}
  Slug <- ThreeSlugs
  Title <- ThreeTitles
  Merges <- ThreeMerges
  Refs <- ThreeRefs
  Absent = absent
  None = none
  MaxRetries = 2
  MaxTasks = 2
  MaxClicks = 1
  MaxMishaps = 1
  Assumed = {"quietWiki", "quickStarts"}
SYMMETRY Symmetry
SPECIFICATION Spec
 
PROPERTIES NothingIsLost
CHECK_DEADLOCK FALSE
