--------------------------- MODULE OneWireSearch ---------------------------
(***************************************************************************)
(* The search for devices on one 1-wire bus: OneWireBus::Search for all    *)
(* devices, for a family and for one device, and the bit-wise ROM search   *)
(* of Ds2484OneWireBus::SearchNextDevice behind it.                        *)
(*                                                                         *)
(* An address is the sequence of its bits, least significant first: family *)
(* code, serial number, CRC.  A pass over the bus asks for one bit of all  *)
(* participating devices at a time (DS2484 triplet) and decides which of   *)
(* them go on.  Devices may be plugged in or out at any moment, resets and *)
(* triplets may fail.                                                      *)
(***************************************************************************)
EXTENDS Naturals, Sequences, FiniteSets, Functions

CONSTANTS
  Width,        \* bits of an address: 64
  FamilyBits,   \* bits of the family code: 8
  Chips,        \* the devices that can be plugged in, by address
  MaxPlugged,   \* bound: devices on the bus
  MaxChanges    \* bound: how often a device is plugged in or out

Bits == {0, 1}
Zero == [i \in 1 .. Width |-> 0]

ASSUME WidthAssumption ==
  /\ Width \in Nat /\ FamilyBits \in 1 .. Width - 1
  /\ MaxPlugged \in Nat /\ MaxChanges \in Nat

\* The last bits of an address are the CRC of the others.
ASSUME CrcAssumption ==
  /\ Chips \subseteq [1 .. Width -> Bits] \ {Zero}
  /\ \A c, d \in Chips : (\A i \in 1 .. Width - 1 : c[i] = d[i]) => c = d

Family(a) == [i \in 1 .. FamilyBits |-> a[i]]

\* What can be searched for: clients name any address, also 0, which no device has.
Searches ==
  [kind : {"all"}] \cup [kind : {"family"}, code : [1 .. FamilyBits -> Bits]]
                   \cup [kind : {"device"}, address : Chips \cup {Zero}]
NoSearch == [kind |-> "none"]

VARIABLES
  present,          \* the devices on the bus
  search,           \* the running or last search
  pc,               \* "idle", "reset" (between two passes) or "triplet"
  address,          \* address_
  last_discrepancy, \* last_discrepancy_
  last_device_flag, \* last_device_flag_
  pass,             \* the locals of SearchNextDevice, and who still takes part
  devices,          \* devices_
  result,           \* what Search returns
  is_present,       \* the out-parameter of the search for one device
  changes,          \* bound: plugs so far
  seen,             \* history: the devices on the bus since the search began
  disturbed,        \* history: was a device plugged in or out since then
  failed            \* history: has a triplet failed since then

search_state == <<address, last_discrepancy, last_device_flag>>
outcome      == <<devices, result, is_present>>
history      == <<seen, disturbed, failed>>
vars == <<present, search, pc, search_state, pass, outcome, changes, history>>

NoPass == [bit |-> 0]
Passes == [bit : 1 .. Width, last_zero : 0 .. Width, address : [1 .. Width -> Bits],
           participants : SUBSET Chips]

TypeOK ==
  /\ present \subseteq Chips
  /\ search \in Searches \cup {NoSearch}
  /\ pc \in {"idle", "reset", "triplet"}
  /\ address \in [1 .. Width -> Bits]
  /\ last_discrepancy \in 0 .. Width
  /\ last_device_flag \in BOOLEAN
  /\ pass \in Passes \cup {NoPass}
  /\ devices \in Seq(Chips)
  /\ result \in BOOLEAN /\ is_present \in BOOLEAN
  /\ changes \in 0 .. MaxChanges
  /\ seen \subseteq Chips /\ disturbed \in BOOLEAN /\ failed \in BOOLEAN

-----------------------------------------------------------------------------
\* ---- One search ----

Padded(code) == [i \in 1 .. Width |-> IF i <= FamilyBits THEN code[i] ELSE 0]

\* OneWireBus::Search up to its loop.  A search for one device keeps devices_.
Search(s) ==
  /\ pc = "idle"
  /\ search' = s /\ pc' = "reset"
  /\ address' = CASE s.kind = "all"    -> Zero
                  [] s.kind = "family" -> Padded(s.code)
                  [] s.kind = "device" -> s.address
  /\ last_discrepancy' = IF s.kind = "all" THEN 0 ELSE Width
  /\ last_device_flag' = FALSE
  /\ devices' = IF s.kind = "device" THEN devices ELSE <<>>
  /\ result' = TRUE /\ is_present' = FALSE
  /\ seen' = present /\ disturbed' = FALSE /\ failed' = FALSE
  /\ UNCHANGED <<present, pass, changes>>

\* There is no next device, or none of the family.
EndsList(a) == a = Zero \/ (search.kind = "family" /\ Family(a) # search.code)

\* Mutant: the address 0 does not end the loop.
ReturnedWithoutBreak(a) ==
  /\ pass' = NoPass
  /\ \/ /\ search.kind = "device"
        /\ pc' = "idle" /\ is_present' = (a = search.address) /\ UNCHANGED devices
     \/ /\ search.kind # "device" /\ EndsList(a)
        /\ pc' = "reset" /\ UNCHANGED <<devices, is_present>>
     \/ /\ search.kind # "device" /\ ~EndsList(a)
        /\ pc' = "reset" /\ devices' = Append(devices, a) /\ UNCHANGED is_present
  /\ UNCHANGED result

\* SearchNextDevice has returned a: list it and look for the next, or stop.  The
\* search for one device compares a with its address also if a is 0, for "none".
Returned(a) ==
  /\ pass' = NoPass
  /\ \/ /\ search.kind = "device"
        /\ pc' = "idle" /\ is_present' = (a = search.address) /\ UNCHANGED devices
     \/ /\ search.kind # "device" /\ EndsList(a)
        /\ pc' = "idle" /\ UNCHANGED <<devices, is_present>>
     \/ /\ search.kind # "device" /\ ~EndsList(a)
        /\ pc' = "reset" /\ devices' = Append(devices, a) /\ UNCHANGED is_present
  /\ UNCHANGED result

\* ResetBus, then the command SearchRom: every device takes part.
ResetBus ==
  /\ pc = "reset"
  /\ IF last_device_flag
       THEN Returned(Zero)
       ELSE /\ pc' = "triplet"
            /\ pass' = [bit |-> 1, last_zero |-> 0, address |-> address, participants |-> present]
            /\ UNCHANGED outcome
  /\ UNCHANGED <<present, search, search_state, changes, history>>

\* The reset or the command fails: the search ends with an error.
ResetFails ==
  /\ pc = "reset"
  /\ result' = FALSE /\ pc' = "idle"
  /\ UNCHANGED <<present, search, search_state, pass, devices, is_present, changes, history>>

-----------------------------------------------------------------------------
\* ---- One bit of a pass: SearchNextDevice ----

\* The values the participating devices have at the bit.
Answers == {d[pass.bit] : d \in pass.participants}

\* Mutant: the branch at the last discrepancy is the one taken before.
BranchAgain ==
  IF pass.bit <= last_discrepancy THEN pass.address[pass.bit] ELSE 0

\* The way to go if there are devices on both: as before up to the last
\* discrepancy, the other way there, zero behind it.
Branch ==
  IF pass.bit < last_discrepancy THEN pass.address[pass.bit]
  ELSE IF pass.bit = last_discrepancy THEN 1 ELSE 0

\* Mutant: the first discrepancy taken towards zero is remembered, not the last.
RememberFirst(branch) ==
  IF Answers = Bits /\ branch = 0 /\ pass.last_zero = 0 THEN pass.bit ELSE pass.last_zero

\* The last discrepancy at which the pass went towards zero.
LastZero(branch) == IF Answers = Bits /\ branch = 0 THEN pass.bit ELSE pass.last_zero

\* Mutant: a zero does not overwrite the bit of the address before.
WithBitOred(a, i, b) == IF b = 1 THEN [a EXCEPT ![i] = 1] ELSE a

WithBit(a, i, b) == [a EXCEPT ![i] = b]

\* A triplet with at least one device on the bus.
Triplet ==
  LET branch    == IF Answers = Bits THEN Branch ELSE CHOOSE b \in Answers : TRUE
      last_zero == LastZero(branch)
      found     == WithBit(pass.address, pass.bit, branch)
  IN  /\ pc = "triplet" /\ Answers # {}
      /\ IF pass.bit < Width
           THEN /\ pass' = [bit |-> pass.bit + 1, last_zero |-> last_zero, address |-> found,
                            participants |-> {d \in pass.participants : d[pass.bit] = branch}]
                /\ UNCHANGED <<pc, search_state, outcome>>
           ELSE /\ last_discrepancy' = last_zero
                /\ last_device_flag' = (last_device_flag \/ last_zero = 0)
                /\ address' = found
                /\ Returned(found)
      /\ UNCHANGED <<present, search, changes, history>>

\* Nobody answers.
NoDevice ==
  /\ pc = "triplet" /\ Answers = {}
  /\ Returned(Zero)
  /\ UNCHANGED <<present, search, search_state, changes, history>>

\* OneWireTriple fails: SearchNextDevice returns 0 as if there were no more devices.
TripletFails ==
  /\ pc = "triplet"
  /\ Returned(Zero)
  /\ failed' = TRUE
  /\ UNCHANGED <<present, search, search_state, changes, seen, disturbed>>

-----------------------------------------------------------------------------
\* ---- The bus ----

\* A device that is plugged in takes part from the next reset on.
Plug(d) ==
  /\ changes < MaxChanges /\ Cardinality(present \cup {d}) <= MaxPlugged
  /\ d \notin present
  /\ present' = present \cup {d} /\ seen' = seen \cup {d}
  /\ disturbed' = TRUE /\ changes' = changes + 1
  /\ UNCHANGED <<search, pc, search_state, pass, outcome, failed>>

Unplug(d) ==
  /\ changes < MaxChanges
  /\ d \in present
  /\ present' = present \ {d}
  /\ pass' = IF pass = NoPass THEN pass ELSE [pass EXCEPT !.participants = @ \ {d}]
  /\ disturbed' = TRUE /\ changes' = changes + 1
  /\ UNCHANGED <<search, pc, search_state, outcome, seen, failed>>

-----------------------------------------------------------------------------
Init ==
  /\ present \in {s \in SUBSET Chips : Cardinality(s) <= MaxPlugged}
  /\ search = NoSearch /\ pc = "idle" /\ pass = NoPass
  /\ address = Zero /\ last_discrepancy = 0 /\ last_device_flag = FALSE
  /\ devices = <<>> /\ result = TRUE /\ is_present = FALSE
  /\ changes = 0
  /\ seen = {} /\ disturbed = FALSE /\ failed = FALSE

\* The loop task runs a search it has begun.
SearchStep == ResetBus \/ ResetFails \/ Triplet \/ NoDevice \/ TripletFails

Next ==
  \/ \E s \in Searches : Search(s)
  \/ SearchStep
  \/ \E d \in Chips : Plug(d) \/ Unplug(d)

Spec     == Init /\ [][Next]_vars
FairSpec == Spec /\ WF_vars(SearchStep)

-----------------------------------------------------------------------------
\* ---- Properties ----

\* The order in which the search visits addresses.
Before(a, b) == \E i \in 1 .. Width : a[i] < b[i] /\ \A j \in 1 .. i - 1 : a[j] = b[j]

Wanted ==
  CASE search.kind = "all"    -> present
    [] search.kind = "family" -> {d \in present : Family(d) = search.code}
    [] OTHER                  -> {}

Listing == search.kind \in {"all", "family"}

\* While nobody plugs, every pass finds the next device in order: no device is
\* listed twice, and none that precedes a listed one is skipped.  A failing triplet
\* or reset cuts the list short but does not tear holes into it.
NoneSkipped ==
  Listing /\ ~disturbed =>
    /\ \A i, j \in DOMAIN devices : i < j => Before(devices[i], devices[j])
    /\ \A d \in Wanted : d \in Range(devices) \/ \A e \in Range(devices) : Before(e, d)

\* A search that ends without any error or disturbance has found exactly the
\* devices it was looking for.  The address 0 is "present" if and only if nothing is:
\* SearchNextDevice returns it for "no more devices".
UndisturbedSearchIsComplete ==
  pc = "idle" /\ result /\ ~failed /\ ~disturbed =>
    /\ Listing => Range(devices) = Wanted
    /\ search.kind = "device" =>
         (is_present <=> search.address \in present \/ (search.address = Zero /\ present = {}))

\* Even when devices come and go in the middle of a pass, no address is put
\* together from two devices: whatever is listed has been on the bus, and so has
\* what is reported as present, unless it is the address 0 (one_wire_bus.cpp:97).
NoPhantoms ==
  /\ Listing => Range(devices) \subseteq seen
  /\ is_present => search.address \in seen \cup {Zero}

\* The while loops of Search end, also when devices come and go: nothing bounds
\* them but the last device.
SearchEnds == pc # "idle" ~> pc = "idle"

=============================================================================
