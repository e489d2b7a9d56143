SPECIFICATION RetrievalSpec
INVARIANTS SearchIsSound  PicturesAreSound 
PROPERTIES SaveIsWhole
CHECK_DEADLOCK FALSE
