\* All searches on all buses of up to four devices.
SPECIFICATION FairSpec
CONSTANTS
  Width = 4
  FamilyBits = 1
  Chips <- MCChips
  MaxPlugged = 4
  MaxChanges = 1
INVARIANTS
  TypeOK
  NoneSkipped
  UndisturbedSearchIsComplete
  NoPhantoms
PROPERTIES
  SearchEnds
