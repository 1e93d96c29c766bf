--------------------------- MODULE DeviceRegistry ---------------------------
(***************************************************************************)
(* What the scans of OneWireSystem may do to the list of available         *)
(* devices, without the buses: the view the command handlers have of it.   *)
(* CommandHandler builds on the same promise (its ScanResults).            *)
(***************************************************************************)
CONSTANTS Devices, FamilyCodes, FamilyOf, NoTarget, Idle

Entries == {"absent", "usable", "null"}
Targets == Devices \cup FamilyCodes \cup {NoTarget}

VARIABLES
  entry,      \* per device: not listed, listed, or listed with a null pointer
  scanning    \* the target of the running scan, or Idle

vars == <<entry, scanning>>

Scanned(target) == CASE target \in Devices     -> {target}
                     [] target \in FamilyCodes -> {d \in Devices : FamilyOf[d] = target}
                     [] OTHER                  -> Devices

Boot == entry' = [d \in Devices |-> "absent"] /\ scanning' \in {NoTarget, Idle}

Begin(target) == scanning = Idle /\ scanning' = target /\ UNCHANGED entry

\* A scan touches only its target.  A scan for one device creates it anew, the
\* others keep or drop the devices they know.
Scan ==
  /\ scanning # Idle
  /\ entry' \in [Devices -> Entries]
  /\ \A d \in Devices :
       /\ d \notin Scanned(scanning) => entry'[d] = entry[d]
       /\ scanning \notin Devices /\ entry[d] # "absent" => entry'[d] \in {"absent", entry[d]}
  /\ scanning' \in {scanning, Idle}

Init == entry = [d \in Devices |-> "absent"] /\ scanning \in {NoTarget, Idle}
Next == Boot \/ Scan \/ \E target \in Targets : Begin(target)
Spec == Init /\ [][Next]_vars

=============================================================================
