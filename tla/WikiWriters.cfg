CONSTANTS
  Calls = {c1, c2}
  Pages = {"p", "q"}
  Index = "index"
  Keys = {"p slug", "P title", "q slug"}
  Slug <- TwoSlugs
  Title <- TwoTitles
  Sources = {"s", "t"}
  Metas <- TwoMetas
  Batches <- TwoBatches
  Absent = absent
  Initial <- TwoPages
  MaxOps = 3
  MaxMishaps = 1
  Assumed = {"shortWindows", "ingestWaits", "deletesSucceed"}
SPECIFICATION Spec
INVARIANTS WhatIsDeletedIsForgotten
PROPERTIES SurvivorsAreIntact RollbackTakesBackItsPatchOnly
SYMMETRY Symmetry
CHECK_DEADLOCK FALSE
