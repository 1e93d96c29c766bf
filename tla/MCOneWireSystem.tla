-------------------------- MODULE MCOneWireSystem --------------------------
(***************************************************************************)
(* Two buses; two devices of a family that is set up by reading them, one  *)
(* that has nothing to set up, and the address 0 in a family of its own.   *)
(***************************************************************************)
EXTENDS OneWireSystem, TLC

CONSTANTS therm1, therm2, serial, fam28, fam01, fam00

MCDevices      == {therm1, therm2, serial, Zero}
MCFamilyCodes  == {fam28, fam01, fam00}
MCFamilyOf     == [d \in MCDevices |-> CASE d = Zero   -> fam00
                                         [] d = serial -> fam01
                                         [] OTHER      -> fam28]
MCSetupDevices == {therm1, therm2}

\* The thermometers can be exchanged: no property tells them apart.
Thermometers == Permutations(MCSetupDevices)
=============================================================================
