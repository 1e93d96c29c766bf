--------------------------- MODULE OneWireSystem ---------------------------
(***************************************************************************)
(* OneWireSystem: the scans over all 1-wire buses and the list of          *)
(* available devices they maintain.  A bus search is one step; module      *)
(* OneWireSearch shows what it may return: everything wanted on the bus,   *)
(* a part of it as a success (a triplet failed), or a part and an error.   *)
(* Devices are moved between buses at any moment.                          *)
(*                                                                         *)
(* A device that answers the search but whose setup fails is kept as a     *)
(* null pointer; listing the devices dereferences it and the chip reboots. *)
(*                                                                         *)
(* A client may scan for any address, also for 0, which is what a search   *)
(* returns for "none": a bus on which nobody answers has the device 0.     *)
(***************************************************************************)
EXTENDS Naturals, FiniteSets

CONSTANTS
  Devices, FamilyCodes, FamilyOf, NoTarget, Idle,
  Zero,           \* the address 0, which is the address of no device
  SetupDevices,   \* devices that are read at setup, which may fail
  BusCount,       \* enabled channels
  MaxMoves        \* bound: how often a device is plugged in, out or over

Buses    == 1 .. BusCount
Absent   == 0              \* not in ow_available_devices_; not plugged in
Null     == BusCount + 1   \* in ow_available_devices_ as a null pointer

ASSUME DeviceAssumption ==
  /\ FamilyOf \in [Devices -> FamilyCodes]
  /\ Zero \in Devices /\ SetupDevices \subseteq Devices \ {Zero}
  /\ Devices \cap FamilyCodes = {} /\ NoTarget \notin Devices \cup FamilyCodes
  /\ Idle \notin Devices \cup FamilyCodes \cup {NoTarget}
  /\ BusCount \in Nat /\ MaxMoves \in Nat

VARIABLES
  location,   \* where each device is plugged in
  registry,   \* ow_available_devices_: the bus each device was created with
  target,     \* what the running or last scan is for
  pc,         \* "boot" (initial scan), "scan" or "idle"
  bus,        \* the bus to be searched next
  result,     \* Scan's result so far
  found,      \* available_addresses: devices with the bus they were found on
  moves,      \* bound: moves so far
  disturbed,  \* history: has a device been moved since the scan began
  failed,     \* history: buses whose search reported an error in this scan
  truncated   \* history: buses whose search ended early as a success

scan_state == <<target, pc, bus, result, found>>
history    == <<disturbed, failed, truncated>>
vars       == <<location, registry, scan_state, moves, history>>

View == [d \in Devices |-> CASE registry[d] = Absent -> "absent"
                             [] registry[d] = Null   -> "null"
                             [] OTHER                -> "usable"]

Abstract == INSTANCE DeviceRegistry WITH
  entry <- View, scanning <- IF pc = "idle" THEN Idle ELSE target

TypeOK ==
  /\ location \in [Devices -> Buses \cup {Absent}] /\ location[Zero] = Absent
  /\ registry \in [Devices -> Buses \cup {Absent, Null}]
  /\ target \in Abstract!Targets
  /\ pc \in {"boot", "scan", "idle"}
  /\ bus \in 1 .. BusCount + 1
  /\ result \in BOOLEAN
  /\ found \subseteq Devices \X Buses
  /\ moves \in 0 .. MaxMoves
  /\ disturbed \in BOOLEAN
  /\ failed \subseteq Buses /\ truncated \subseteq Buses

Scanned == Abstract!Scanned(target)
Wanted  == {d \in Scanned : location[d] = bus}

-----------------------------------------------------------------------------
\* ---- Scanning ----

\* Mutant: the loop runs one bus too far.
BusLeftOffByOne == bus <= BusCount + 1

BusLeft == bus <= BusCount

\* What CreateDevice may put into the list.
CreateDevice(d, b) == IF d \in SetupDevices THEN {b, Null} ELSE {b}

\* A scan begins.
StartScan(t) ==
  /\ pc = "idle"
  /\ target' = t /\ pc' = "scan" /\ bus' = 1 /\ result' = TRUE /\ found' = {}
  /\ disturbed' = FALSE /\ failed' = {} /\ truncated' = {}
  /\ UNCHANGED <<location, registry, moves>>

\* Mutant: what a bus answers replaces what the buses before it have answered.
SearchBusForgetting ==
  \E hits \in SUBSET Wanted, ok \in BOOLEAN :
    /\ pc # "idle" /\ target \notin Devices /\ BusLeft
    /\ result' = (result /\ ok)
    /\ found' = IF result' THEN hits \X {bus} ELSE found
    /\ bus' = bus + 1
    /\ failed' = IF ok THEN failed ELSE failed \cup {bus}
    /\ truncated' = IF ok /\ hits # Wanted THEN truncated \cup {bus} ELSE truncated
    /\ UNCHANGED <<location, registry, target, pc, moves, disturbed>>

\* One bus of a scan for all devices or a family.  Once a search has failed, what
\* the later buses answer is ignored.
SearchBus ==
  \E hits \in SUBSET Wanted, ok \in BOOLEAN :
    /\ pc # "idle" /\ target \notin Devices /\ BusLeft
    /\ result' = (result /\ ok)
    /\ found' = IF result' THEN found \cup (hits \X {bus}) ELSE found
    /\ bus' = bus + 1
    /\ failed' = IF ok THEN failed ELSE failed \cup {bus}
    /\ truncated' = IF ok /\ hits # Wanted THEN truncated \cup {bus} ELSE truncated
    /\ UNCHANGED <<location, registry, target, pc, moves, disturbed>>

\* A search for one device reports it only if it is there; the address 0 whenever
\* nobody answers, or a triplet fails.
MayReport(hit, ok) ==
  /\ hit => ok /\ (Wanted # {} \/ target = Zero)
  /\ ok /\ ~hit /\ target = Zero => \E d \in Devices : location[d] = bus

\* Mutant: a device that is known already is not created again.
SearchBusForUnknownDevice ==
  \E hit \in BOOLEAN, ok \in BOOLEAN :
    /\ pc # "idle" /\ target \in Devices /\ BusLeft
    /\ MayReport(hit, ok)
    /\ IF hit
         THEN \E b \in CreateDevice(target, bus) :
                /\ registry' = [registry EXCEPT ![target] = IF @ = Absent THEN b ELSE @]
                /\ pc' = "idle"
         ELSE UNCHANGED <<registry, pc>>
    /\ bus' = bus + 1
    /\ result' = (result /\ ok)
    /\ failed' = IF ok THEN failed ELSE failed \cup {bus}
    /\ truncated' = IF ok /\ ~hit /\ Wanted # {} THEN truncated \cup {bus} ELSE truncated
    /\ UNCHANGED <<location, target, found, moves, disturbed>>

\* One bus of a scan for a device: as long as it is not found it is removed from
\* the list, also if the search failed.
SearchBusForDevice ==
  \E hit \in BOOLEAN, ok \in BOOLEAN :
    /\ pc # "idle" /\ target \in Devices /\ BusLeft
    /\ MayReport(hit, ok)
    /\ IF hit
         THEN \E b \in CreateDevice(target, bus) :
                /\ registry' = [registry EXCEPT ![target] = b]
                /\ pc' = "idle"
         ELSE /\ registry' = [registry EXCEPT ![target] = Absent]
              /\ UNCHANGED pc
    /\ bus' = bus + 1
    /\ result' = (result /\ ok)
    /\ failed' = IF ok THEN failed ELSE failed \cup {bus}
    /\ truncated' = IF ok /\ ~hit /\ Wanted # {} THEN truncated \cup {bus} ELSE truncated
    /\ UNCHANGED <<location, target, found, moves, disturbed>>

FoundOn(d) == {b \in Buses : <<d, b>> \in found}
First(bs)  == CHOOSE b \in bs : \A c \in bs : b <= c

\* Mutant: the devices that were not found stay in the list.
KeepingMissing(d) ==
  IF FoundOn(d) # {} /\ registry[d] = Absent THEN CreateDevice(d, First(FoundOn(d)))
  ELSE {registry[d]}

\* Mutant: known devices are created again.
Recreating(d) ==
  IF d \notin Scanned THEN {registry[d]}
  ELSE IF FoundOn(d) = {} THEN {Absent} ELSE CreateDevice(d, First(FoundOn(d)))

\* "Remove missing devices", "Add new devices".
Updated(d) ==
  IF d \notin Scanned THEN {registry[d]}
  ELSE IF FoundOn(d) = {} THEN {Absent}
  ELSE IF registry[d] = Absent THEN CreateDevice(d, First(FoundOn(d)))
  ELSE {registry[d]}

\* OneWireSystem::Begin: an empty list and, if configured, an initial scan.
Boot ==
  /\ registry' = [d \in Devices |-> Absent]
  /\ pc' \in {"boot", "idle"}
  /\ target' = NoTarget /\ bus' = 1 /\ result' = TRUE /\ found' = {}
  /\ disturbed' = FALSE /\ failed' = {} /\ truncated' = {}

\* The list is brought up to date, then the devices are listed: by the command
\* handler if the scan succeeded, in the log after the initial scan.
FinishScan ==
  /\ pc # "idle" /\ bus > BusCount /\ target \notin Devices
  /\ \E r \in [Devices -> Buses \cup {Absent, Null}] :
       /\ \A d \in Devices : r[d] \in Updated(d)
       /\ IF (result \/ pc = "boot") /\ \E d \in Scanned : r[d] = Null
            THEN Boot
            ELSE /\ registry' = r /\ pc' = "idle"
                 /\ UNCHANGED <<target, bus, result, found, history>>
  /\ UNCHANGED <<location, moves>>

\* The device was on no bus.
FinishScanForDevice ==
  /\ pc # "idle" /\ bus > BusCount /\ target \in Devices
  /\ pc' = "idle"
  /\ UNCHANGED <<location, registry, target, bus, result, found, moves, history>>

\* A device is plugged in, out, or over to another bus.
Move(d, b) ==
  /\ moves < MaxMoves /\ location[d] # b
  /\ location' = [location EXCEPT ![d] = b]
  /\ moves' = moves + 1 /\ disturbed' = TRUE
  /\ UNCHANGED <<registry, scan_state, failed, truncated>>

-----------------------------------------------------------------------------
Init ==
  /\ location \in [Devices -> Buses \cup {Absent}] /\ location[Zero] = Absent
  /\ registry = [d \in Devices |-> Absent]
  /\ target = NoTarget /\ pc \in {"boot", "idle"}
  /\ bus = 1 /\ result = TRUE /\ found = {}
  /\ moves = 0 /\ disturbed = FALSE /\ failed = {} /\ truncated = {}

Next ==
  \/ \E t \in Abstract!Targets : StartScan(t)
  \/ SearchBus
  \/ SearchBusForDevice
  \/ FinishScan
  \/ FinishScanForDevice
  \/ \E d \in Devices \ {Zero}, b \in Buses \cup {Absent} : Move(d, b)

Spec == Init /\ [][Next]_vars

-----------------------------------------------------------------------------
\* ---- Properties ----

\* The scans keep the promise the command handlers build on.
RefinesRegistry == Abstract!Spec

\* A scan has ended and nobody has touched the buses since it began.
Settled == pc = "idle" /\ bus > 1 /\ ~disturbed

\* After a scan, successful or not, no device of its target is listed that is not
\* plugged in, unless the target was the address 0; what such a scan has listed, the
\* next one for all devices or its family removes (Scan).
NoGhosts ==
  Settled /\ target # Zero => \A d \in Scanned : registry[d] # Absent => location[d] # Absent

\* A device stays or gets listed if its own bus answered completely and no bus
\* before it failed, whatever happens on the others.
AnsweringBusesKept ==
  Settled => \A d \in Scanned :
    /\ location[d] # Absent
    /\ location[d] \notin truncated
    /\ \A b \in failed : b > location[d]
    => registry[d] # Absent

\* "Remove missing devices" (one_wire_subsystem.cpp:112): a scan for all devices or a
\* family takes a device it knew before off the list only if nobody has touched it and
\* its bus did not show it.  (A reboot, which empties the list, begins with bus 1.)
DropsOnlyMissing ==
  [][FinishScan /\ bus' = bus /\ ~disturbed =>
       \A d \in Scanned :
         registry[d] # Absent /\ registry'[d] = Absent =>
           location[d] \in {Absent} \cup failed \cup truncated]_vars

\* A scan for one device corrects the bus the device is addressed on, also if the
\* device has been plugged over since it was created.  (The other scans keep it.)
DeviceScanRefreshesBus ==
  Settled /\ target \in Devices \ {Zero} /\ registry[target] \in Buses =>
    registry[target] = location[target]

=============================================================================
