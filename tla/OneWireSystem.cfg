\* Scans of two buses while devices are moved.
SPECIFICATION Spec
CONSTANTS
  therm1 = therm1
  therm2 = therm2
  serial = serial
  fam28 = fam28
  fam01 = fam01
  fam00 = fam00
  Zero = Zero
  NoTarget = NoTarget
  Idle = Idle
  Devices <- MCDevices
  FamilyCodes <- MCFamilyCodes
  FamilyOf <- MCFamilyOf
  SetupDevices <- MCSetupDevices
  BusCount = 2
  MaxMoves = 1
SYMMETRY Thermometers
INVARIANTS
  TypeOK
  NoGhosts
  AnsweringBusesKept
  DeviceScanRefreshesBus
PROPERTIES
  RefinesRegistry
