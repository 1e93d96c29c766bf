\* A configuration is saved while the clock wraps around, the link is lost once, reboots
\* come at any time, and the loop task may be late for a deadline.
SPECIFICATION FairSpec
CONSTANTS
  Sections <- MCSections
  Keys <- MCKeys
  Tasks <- MCTasks
  SaveOrder <- MCSaveOrder
  PrintOrder <- MCPrintOrder
  Forms <- MCForms
  Tokens = {t1}
  Wrap = 4
  SessionTimeout = 1
  RestartDelay = 2
  LoopPause = 2
  MaxSaves = 1
  MaxFlaps = 1
INVARIANTS
  TypeOK
  SaveInOrder
  RestartKeepsDelay
  SessionsLastTimeout
PROPERTIES
  RestartComes
  IdleSessionsEnd
