\* The command queue: three client messages, a queue of two, two subscriptions.
SPECIFICATION FairSpec
CONSTANTS
  therm = therm
  battery = battery
  fam01 = fam01
  Ds18b20 = Ds18b20
  Ds2438 = Ds2438
  NoTarget = NoTarget
  Devices <- MCDevices
  FamilyCodes <- MCFamilyCodes
  FamilyOf <- MCFamilyOf
  SamplingTime <- MCSamplingTime
  QueueSize = 2
  ClientCommands <- ClientRequests
  MaxRequests = 3
  SubscriptionOrder <- CommandOrder
INVARIANTS
  TypeOK
  OneCarrierPerRequest
  SlotReserved
  SubscriptionsSampleAfresh
PROPERTIES
  LostOnlyToIntruder
  QuietAfterUnsubscribe
  AcceptedRequestsFinish
  LoneSubscriptionGoesOn
