\* A bus that fails costs the listed devices of the buses behind it; nobody moves any.
SPECIFICATION Spec
CONSTANTS
  therm1 = therm1
  therm2 = therm2
  serial = serial
  fam28 = fam28
  fam01 = fam01
  fam00 = fam00
  Zero = Zero
  NoTarget = NoTarget
  Idle = Idle
  Devices <- MCDevices
  FamilyCodes <- MCFamilyCodes
  FamilyOf <- MCFamilyOf
  SetupDevices <- MCSetupDevices
  BusCount = 2
  MaxMoves = 0
PROPERTIES
  DropsOnlyMissing
