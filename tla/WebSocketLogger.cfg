\* Two tasks write five lines through a ring of two; one client at a time.
SPECIFICATION Spec
CONSTANTS
  Loop = Loop
  Web = Web
  OtherTasks = {}
  HistorySize = 2
  QueueLimit = 3
  MaxLines = 5
INVARIANTS
  TypeOK
  NoLineMissed
  HistoryIsGuarded
PROPERTIES
  RefinesLog
