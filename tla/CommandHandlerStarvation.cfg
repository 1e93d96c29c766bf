\* A subscription without pause starves the one visited after it.
SPECIFICATION FairSpec
CONSTANTS
  therm = therm
  battery = battery
  fam01 = fam01
  Ds18b20 = Ds18b20
  Ds2438 = Ds2438
  NoTarget = NoTarget
  Devices <- MCDevices
  FamilyCodes <- MCFamilyCodes
  FamilyOf <- MCFamilyOf
  SamplingTime <- MCSamplingTime
  QueueSize = 2
  ClientCommands <- StarvationCommands
  MaxRequests = 2
  SubscriptionOrder <- StarvationOrder
PROPERTIES
  CyclicReadsGoOn
