\* Overlapping reads of a thermometer and of a battery monitor.
SPECIFICATION Spec
CONSTANTS
  t1 = t1
  b1 = b1
  r1 = r1
  r2 = r2
  r3 = r3
  r4 = r4
  Ds18b20 = Ds18b20
  Ds2438 = Ds2438
  Chips <- MCChips
  FamilyOf <- MCFamilyOf
  Reads <- MCReads
  AttributeOf <- MCAttributeOf
  TargetOf <- MCTargetOf
  SamplingTime <- MCSamplingTime
  ConversionTime <- MCConversionTime
  MaxScans = 1
CHECK_DEADLOCK FALSE
INVARIANTS
  TypeOK
  OwnSampleIsRight
  FreshUnlessInterrupted
