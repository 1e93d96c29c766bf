----------------------------- MODULE MCSampling -----------------------------
(***************************************************************************)
(* A thermometer and a monitor.  The monitor is asked for either voltage,  *)
(* by its address and as a family; the thermometer is read while the       *)
(* temperature of the monitors is; a thermometer converts for longer.      *)
(***************************************************************************)
EXTENDS Sampling

CONSTANTS t1, b1, r1, r2, r3, r4

MCChips       == {t1, b1}
MCFamilyOf    == [c \in MCChips |-> IF c = t1 THEN Ds18b20 ELSE Ds2438]
MCReads       == {r1, r2, r3, r4}
MCAttributeOf == [r \in MCReads |-> CASE r = r1 -> "VAD" [] r = r2 -> "VDD" [] OTHER -> "temperature"]
MCTargetOf    == [r \in MCReads |-> CASE r = r1 -> b1 [] r = r3 -> t1 [] OTHER -> Ds2438]
MCSamplingTime   == [f \in {Ds18b20, Ds2438} |-> IF f = Ds18b20 THEN 3 ELSE 2]
MCConversionTime == [f \in {Ds18b20, Ds2438} |-> IF f = Ds18b20 THEN 3 ELSE 1]
=============================================================================
