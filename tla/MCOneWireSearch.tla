-------------------------- MODULE MCOneWireSearch --------------------------
(***************************************************************************)
(* Short addresses: a family code, a serial number and one parity bit in   *)
(* the place of the CRC.                                                   *)
(***************************************************************************)
EXTENDS OneWireSearch

MCChips ==
  {a \in [1 .. Width -> Bits] :
     a # Zero /\ a[Width] = Cardinality({i \in 1 .. Width - 1 : a[i] = 1}) % 2}
=============================================================================
