\* SetupOta runs while a configuration is saved.
SPECIFICATION FairSpec
CONSTANTS
  Sections <- MCSections
  Keys <- MCKeys
  Tasks <- MCTasks
  SaveOrder <- MCSaveOrder
  PrintOrder <- MCPrintOrder
  Forms <- MCForms
  Tokens = {t1}
  Wrap = 3
  SessionTimeout = 1
  RestartDelay = 2
  LoopPause = 1
  MaxSaves = 1
  MaxFlaps = 1
INVARIANTS
  AllPartsUpdated
