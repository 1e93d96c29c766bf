\* Two losses of the link and two other failures, in any order.
SPECIFICATION FairSpec
CONSTANTS
  MaxFlaps = 5
  MaxBreaks = 2
CHECK_DEADLOCK FALSE
INVARIANTS
  TypeOK
PROPERTIES
  OnlineMeansListening
  ReconnectsForGood
