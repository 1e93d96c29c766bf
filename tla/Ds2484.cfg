\* Two bus masters behind the multiplexer, any transfer may fail, any restart.
SPECIFICATION FairSpec
CONSTANTS
  BusCount = 2
  Answers <- MCAnswers
  NoAnswer = 2
  MaxPolls = 3
  Uses <- MCUses
INVARIANTS
  TypeOK
  BusyIsVisible
  SuccessLeavesIdle
PROPERTIES
  RefinesMaster
  CallsEnd
