CONSTANTS
  Handles = {t1, t2}
SPECIFICATION FairHandlesSpec
INVARIANTS EntryUndisturbed FreedOnce
PROPERTIES FreedInTheEnd
CHECK_DEADLOCK FALSE
