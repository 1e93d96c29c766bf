------------------------- MODULE OneWireSystemProofs -------------------------
(***************************************************************************)
(* Theorems about OneWireSystem, for any devices and families, any number  *)
(* of buses and any number of devices plugged in, out and over.            *)
(***************************************************************************)
EXTENDS OneWireSystem, TLAPS

Scanning == pc # "idle"

-----------------------------------------------------------------------------
\* ---- The invariant ----

\* A bus that failed has been searched, and Scan remembers that one did.
FailuresKnown == failed \subseteq 1 .. bus - 1 /\ (result <=> failed = {})

\* What was found is still where it was found.
FoundIsThere ==
  ~disturbed => \A d \in Devices, b \in Buses : <<d, b>> \in found => location[d] = b

\* The bus of device d has been searched, it answered completely, and no bus failed
\* before: d cannot have been overlooked.
Answered(d) ==
  /\ location[d] \in 1 .. bus - 1
  /\ location[d] \notin truncated
  /\ \A b \in failed : b > location[d]

AnswersNoted ==
  Scanning /\ ~disturbed /\ target \notin Devices =>
    \A d \in Scanned : Answered(d) => <<d, location[d]>> \in found

\* A scan for one device goes on only as long as it has not been found: it is not
\* listed then, and if its bus has been searched, that bus has failed or was cut short.
NotFoundYet ==
  Scanning /\ target \in Devices =>
    /\ bus > 1 => registry[target] = Absent
    /\ ~disturbed /\ location[target] \in 1 .. bus - 1 => location[target] \in failed \cup truncated

ScanInv == FailuresKnown /\ FoundIsThere /\ AnswersNoted /\ NotFoundYet

IInv == TypeOK /\ ScanInv /\ NoGhosts /\ AnsweringBusesKept /\ DeviceScanRefreshesBus

-----------------------------------------------------------------------------
\* ---- Buses and entries ----

LEMMA BusFacts ==
  /\ BusCount \in Nat /\ Absent \notin Buses /\ Null \notin Buses /\ Absent # Null
  /\ 1 \in 1 .. BusCount + 1
  /\ \A b \in Buses : b \in 1 .. BusCount
BY DeviceAssumption DEF Buses, Absent, Null

\* A target stands for devices, whatever it is.
LEMMA ScannedDevices ==
  /\ Scanned \subseteq Devices
  /\ target \in Devices => Scanned = {target}
<1>1. CASE target \in Devices
  BY <1>1, DeviceAssumption DEF Scanned, Abstract!Scanned
<1>2. CASE target \in FamilyCodes
  BY <1>2, DeviceAssumption DEF Scanned, Abstract!Scanned
<1>3. CASE target \notin Devices \cup FamilyCodes
  BY <1>3 DEF Scanned, Abstract!Scanned
<1>. QED
  BY <1>1, <1>2, <1>3

LEMMA CreatedIsListed ==
  ASSUME NEW d, NEW b \in Buses
  PROVE  /\ CreateDevice(d, b) \subseteq Buses \cup {Null}
         /\ \A e \in CreateDevice(d, b) : e # Absent /\ (e \in Buses => e = b)
BY BusFacts DEF CreateDevice

\* A device found on its own bus only is listed after the update, with this bus or the
\* one it had before.
LEMMA FoundIsListed ==
  ASSUME TypeOK, FoundIsThere, ~disturbed, NEW d \in Scanned, <<d, location[d]>> \in found,
         NEW e \in Updated(d)
  PROVE  e # Absent
<1>1. d \in Devices /\ location[d] \in Buses
  BY ScannedDevices DEF TypeOK
<1>2. FoundOn(d) = {location[d]}
  BY <1>1 DEF FoundOn, FoundIsThere
<1>3. First(FoundOn(d)) = location[d]
  BY <1>1, <1>2, BusFacts DEF First
<1>. QED
  BY <1>1, <1>2, <1>3, CreatedIsListed DEF Updated

\* A device that was not found is not listed after the update.
LEMMA ListedIsFound ==
  ASSUME NEW d \in Scanned, NEW e \in Updated(d), e # Absent
  PROVE  FoundOn(d) # {}
BY DEF Updated

-----------------------------------------------------------------------------
\* ---- Each step keeps the invariant ----

LEMMA InitIInv == Init => IInv
<1>. SUFFICES ASSUME Init PROVE IInv
  OBVIOUS
<1>1. TypeOK
  <2>1. registry \in [Devices -> Buses \cup {Absent, Null}] /\ location \in [Devices -> Buses \cup {Absent}]
    BY DEF Init
  <2>2. moves \in 0 .. MaxMoves /\ bus \in 1 .. BusCount + 1
    BY BusFacts, DeviceAssumption DEF Init
  <2>. QED
    BY <2>1, <2>2 DEF Init, TypeOK, Abstract!Targets
<1>2. FailuresKnown /\ FoundIsThere
  BY DEF Init, FailuresKnown, FoundIsThere
<1>3. AnswersNoted /\ NotFoundYet
  BY BusFacts, DeviceAssumption DEF Init, AnswersNoted, NotFoundYet, Answered, TypeOK
<1>4. ~Settled
  BY DEF Init, Settled
<1>. QED
  BY <1>1, <1>2, <1>3, <1>4 DEF IInv, ScanInv, NoGhosts, AnsweringBusesKept, DeviceScanRefreshesBus

\* A scan that has just begun has searched nothing.
Fresh ==
  /\ bus' = 1 /\ result' = TRUE /\ found' = {} /\ failed' = {} /\ truncated' = {} /\ disturbed' = FALSE

LEMMA FreshKeeps ==
  ASSUME TypeOK', Fresh
  PROVE  IInv'
<1>1. FailuresKnown' /\ FoundIsThere'
  BY DEF Fresh, FailuresKnown, FoundIsThere
<1>2. AnswersNoted' /\ NotFoundYet'
  BY DEF Fresh, AnswersNoted, NotFoundYet, Answered
<1>3. ~Settled'
  BY DEF Fresh, Settled
<1>. QED
  BY <1>1, <1>2, <1>3 DEF IInv, ScanInv, NoGhosts, AnsweringBusesKept, DeviceScanRefreshesBus

LEMMA StartScanKeeps == ASSUME IInv, NEW t \in Abstract!Targets, StartScan(t) PROVE IInv'
<1>1. TypeOK'
  BY BusFacts DEF IInv, TypeOK, StartScan, Abstract!Targets
<1>2. Fresh
  BY DEF StartScan, Fresh
<1>. QED
  BY <1>1, <1>2, FreshKeeps

LEMMA SearchBusKeeps == IInv /\ SearchBus => IInv'
<1>. SUFFICES ASSUME IInv, SearchBus PROVE IInv'
  OBVIOUS
<1>. USE DEF IInv, ScanInv
<1>1. PICK hits \in SUBSET Wanted, ok \in BOOLEAN :
        /\ pc # "idle" /\ target \notin Devices /\ BusLeft
        /\ result' = (result /\ ok)
        /\ found' = IF result' THEN found \cup (hits \X {bus}) ELSE found
        /\ bus' = bus + 1
        /\ failed' = IF ok THEN failed ELSE failed \cup {bus}
        /\ truncated' = IF ok /\ hits # Wanted THEN truncated \cup {bus} ELSE truncated
        /\ UNCHANGED <<location, registry, target, pc, moves, disturbed>>
  BY DEF SearchBus
<1>2. bus \in Buses /\ bus + 1 \in 1 .. BusCount + 1 /\ bus \in Nat
  BY <1>1, BusFacts DEF TypeOK, BusLeft, Buses
<1>3. Scanned' = Scanned /\ Scanned \subseteq Devices
  BY <1>1, ScannedDevices DEF Scanned, Abstract!Scanned
<1>4. \A d \in hits : d \in Scanned /\ location[d] = bus
  BY DEF Wanted
<1>5. TypeOK'
  <2>1. found' \subseteq Devices \X Buses
    BY <1>1, <1>2, <1>3, <1>4 DEF TypeOK
  <2>2. failed' \subseteq Buses /\ truncated' \subseteq Buses /\ result' \in BOOLEAN
    BY <1>1, <1>2 DEF TypeOK
  <2>. QED
    BY <1>1, <1>2, <2>1, <2>2 DEF TypeOK, Abstract!Targets
<1>6. FailuresKnown'
  <2>1. failed' \subseteq 1 .. bus' - 1
    <3>1. bus' - 1 = bus /\ failed' \subseteq failed \cup {bus}
      BY <1>1, <1>2
    <3>2. failed \subseteq 1 .. bus /\ bus \in 1 .. bus
      BY <1>2 DEF FailuresKnown, Buses
    <3>. QED
      BY <3>1, <3>2
  <2>2. (result <=> failed = {}) /\ (result' <=> result /\ ok)
    BY <1>1, Zenon DEF FailuresKnown
  <2>3. failed' = {} <=> failed = {} /\ ok
    BY <1>1
  <2>. QED
    BY <2>1, <2>2, <2>3, Zenon DEF FailuresKnown
<1>7. FoundIsThere'
  BY <1>1, <1>4 DEF FoundIsThere
<1>8. AnswersNoted'
  <2>. SUFFICES ASSUME ~disturbed, NEW d \in Scanned, Answered(d)'
                PROVE  <<d, location[d]>> \in found'
    BY <1>1, <1>3 DEF AnswersNoted
  <2>1. location[d] \in 1 .. bus /\ location[d] \notin truncated' /\ \A b \in failed' : b > location[d]
    BY <1>1, <1>2 DEF Answered
  <2>2. CASE location[d] = bus
    <3>1. failed = {} /\ ok
      BY <1>1, <1>2, <2>1, <2>2 DEF FailuresKnown
    <3>2. hits = Wanted /\ d \in Wanted
      BY <1>1, <2>1, <2>2, <3>1 DEF Wanted
    <3>. QED
      BY <1>1, <2>2, <3>1, <3>2 DEF FailuresKnown
  <2>3. CASE location[d] # bus
    <3>1. Answered(d)
      BY <1>1, <1>2, <2>1, <2>3 DEF Answered
    <3>. QED
      BY <1>1, <3>1 DEF AnswersNoted, Scanning
  <2>. QED
    BY <2>2, <2>3
<1>9. NotFoundYet'
  BY <1>1 DEF NotFoundYet
<1>10. ~Settled'
  BY <1>1 DEF Settled
<1>. QED
  BY <1>5, <1>6, <1>7, <1>8, <1>9, <1>10 DEF NoGhosts, AnsweringBusesKept, DeviceScanRefreshesBus

LEMMA SearchBusForDeviceKeeps == IInv /\ SearchBusForDevice => IInv'
<1>. SUFFICES ASSUME IInv, SearchBusForDevice PROVE IInv'
  OBVIOUS
<1>. USE DEF IInv, ScanInv
<1>1. PICK hit \in BOOLEAN, ok \in BOOLEAN :
        /\ pc # "idle" /\ target \in Devices /\ BusLeft
        /\ MayReport(hit, ok)
        /\ IF hit
             THEN \E b \in CreateDevice(target, bus) :
                    /\ registry' = [registry EXCEPT ![target] = b]
                    /\ pc' = "idle"
             ELSE /\ registry' = [registry EXCEPT ![target] = Absent]
                  /\ UNCHANGED pc
        /\ bus' = bus + 1
        /\ result' = (result /\ ok)
        /\ failed' = IF ok THEN failed ELSE failed \cup {bus}
        /\ truncated' = IF ok /\ ~hit /\ Wanted # {} THEN truncated \cup {bus} ELSE truncated
        /\ UNCHANGED <<location, target, found, moves, disturbed>>
  BY DEF SearchBusForDevice
<1>2. bus \in Buses /\ bus + 1 \in 1 .. BusCount + 1 /\ bus \in Nat
  BY <1>1, BusFacts DEF TypeOK, BusLeft, Buses
<1>3. Scanned' = {target} /\ Scanned = {target} /\ (Wanted # {} <=> location[target] = bus)
  BY <1>1, ScannedDevices DEF Scanned, Abstract!Scanned, Wanted
<1>4. \/ /\ hit /\ (target # Zero => location[target] = bus) /\ pc' = "idle"
         /\ registry'[target] # Absent /\ (registry'[target] \in Buses => registry'[target] = bus)
         /\ registry' \in [Devices -> Buses \cup {Absent, Null}]
      \/ /\ ~hit /\ pc' = pc /\ registry'[target] = Absent
         /\ registry' \in [Devices -> Buses \cup {Absent, Null}]
  BY <1>1, <1>2, <1>3, CreatedIsListed DEF TypeOK, MayReport
<1>5. TypeOK'
  <2>1. failed' \subseteq Buses /\ truncated' \subseteq Buses /\ result' \in BOOLEAN
    BY <1>1, <1>2 DEF TypeOK
  <2>. QED
    BY <1>1, <1>2, <1>4, <2>1 DEF TypeOK, Abstract!Targets
<1>6. FailuresKnown'
  <2>1. failed' \subseteq 1 .. bus' - 1
    <3>1. bus' - 1 = bus /\ failed' \subseteq failed \cup {bus}
      BY <1>1, <1>2
    <3>2. failed \subseteq 1 .. bus /\ bus \in 1 .. bus
      BY <1>2 DEF FailuresKnown, Buses
    <3>. QED
      BY <3>1, <3>2
  <2>2. (result <=> failed = {}) /\ (result' <=> result /\ ok)
    BY <1>1, Zenon DEF FailuresKnown
  <2>3. failed' = {} <=> failed = {} /\ ok
    BY <1>1
  <2>. QED
    BY <2>1, <2>2, <2>3, Zenon DEF FailuresKnown
<1>7. FoundIsThere'
  BY <1>1 DEF FoundIsThere
<1>8. AnswersNoted'
  BY <1>1 DEF AnswersNoted
<1>9. NotFoundYet'
  BY <1>1, <1>2, <1>3, <1>4 DEF NotFoundYet, Scanning
<1>10. NoGhosts' /\ AnsweringBusesKept' /\ DeviceScanRefreshesBus'
  BY <1>1, <1>2, <1>3, <1>4, BusFacts DEF NoGhosts, AnsweringBusesKept, DeviceScanRefreshesBus, Settled
<1>. QED
  BY <1>5, <1>6, <1>7, <1>8, <1>9, <1>10

LEMMA FinishScanKeeps == IInv /\ FinishScan => IInv'
<1>. SUFFICES ASSUME IInv, FinishScan PROVE IInv'
  OBVIOUS
<1>. USE DEF IInv, ScanInv
<1>1. PICK r \in [Devices -> Buses \cup {Absent, Null}] :
        /\ \A d \in Devices : r[d] \in Updated(d)
        /\ \/ Boot
           \/ /\ registry' = r /\ pc' = "idle"
              /\ UNCHANGED <<target, bus, result, found, history>>
  BY DEF FinishScan
<1>2. UNCHANGED <<location, moves>> /\ Scanning /\ bus > BusCount /\ target \notin Devices
  BY DEF FinishScan, Scanning
<1>3. CASE Boot
  <2>1. TypeOK'
    BY <1>2, <1>3, BusFacts DEF Boot, TypeOK, Abstract!Targets
  <2>2. Fresh
    BY <1>3 DEF Boot, Fresh
  <2>. QED
    BY <2>1, <2>2, FreshKeeps
<1>4. CASE /\ registry' = r /\ pc' = "idle"
           /\ UNCHANGED <<target, bus, result, found, history>>
  <2>1. TypeOK'
    BY <1>2, <1>4 DEF TypeOK, history, Abstract!Targets
  <2>2. FailuresKnown' /\ FoundIsThere' /\ AnswersNoted' /\ NotFoundYet'
    BY <1>2, <1>4 DEF FailuresKnown, FoundIsThere, AnswersNoted, NotFoundYet, Scanning, history
  <2>3. Scanned' = Scanned /\ Scanned \subseteq Devices
    BY <1>4, ScannedDevices DEF Scanned, Abstract!Scanned
  <2>4. ASSUME ~disturbed, NEW d \in Scanned, r[d] # Absent
        PROVE  location[d] # Absent
    <3>1. PICK b \in Buses : <<d, b>> \in found
      BY <1>1, <2>3, <2>4, ListedIsFound DEF FoundOn
    <3>. QED
      BY <2>3, <2>4, <3>1, BusFacts DEF FoundIsThere
  <2>5. NoGhosts'
    BY <1>2, <1>4, <2>3, <2>4 DEF NoGhosts, Settled, history
  <2>6. ASSUME ~disturbed, NEW d \in Scanned, location[d] # Absent, location[d] \notin truncated,
               \A b \in failed : b > location[d]
        PROVE  r[d] # Absent
    <3>1. location[d] \in Buses
      BY <2>3, <2>6 DEF TypeOK
    <3>2. location[d] \in 1 .. bus - 1
      BY <1>2, <3>1, BusFacts DEF TypeOK, Buses
    <3>3. <<d, location[d]>> \in found
      BY <1>2, <2>6, <3>2 DEF AnswersNoted, Answered
    <3>. QED
      BY <1>1, <2>3, <2>6, <3>3, FoundIsListed
  <2>7. AnsweringBusesKept'
    BY <1>2, <1>4, <2>3, <2>6 DEF AnsweringBusesKept, Settled, history
  <2>8. DeviceScanRefreshesBus'
    BY <1>2, <1>4 DEF DeviceScanRefreshesBus
  <2>. QED
    BY <2>1, <2>2, <2>5, <2>7, <2>8
<1>. QED
  BY <1>1, <1>3, <1>4

LEMMA FinishScanForDeviceKeeps == IInv /\ FinishScanForDevice => IInv'
<1>. SUFFICES ASSUME IInv, FinishScanForDevice PROVE IInv'
  OBVIOUS
<1>. USE DEF IInv, ScanInv
<1>1. /\ Scanning /\ bus > BusCount /\ target \in Devices /\ pc' = "idle"
      /\ UNCHANGED <<location, registry, target, bus, result, found, moves, disturbed, failed, truncated>>
  BY DEF FinishScanForDevice, Scanning, history
<1>2. TypeOK'
  BY <1>1 DEF TypeOK, Abstract!Targets
<1>3. FailuresKnown' /\ FoundIsThere' /\ AnswersNoted' /\ NotFoundYet'
  BY <1>1 DEF FailuresKnown, FoundIsThere, AnswersNoted, NotFoundYet, Scanning
<1>4. Scanned' = {target} /\ location[target] \in Buses \cup {Absent}
  BY <1>1, ScannedDevices DEF Scanned, Abstract!Scanned, TypeOK
<1>5. bus > 1 => registry[target] = Absent
  BY <1>1 DEF NotFoundYet
<1>6. ~disturbed /\ location[target] # Absent => location[target] \in failed \cup truncated
  BY <1>1, <1>4, BusFacts DEF NotFoundYet, TypeOK, Buses
<1>7. \A b \in failed : b \in Nat
  BY BusFacts DEF TypeOK, Buses
<1>8. NoGhosts' /\ DeviceScanRefreshesBus'
  BY <1>1, <1>4, <1>5, BusFacts DEF NoGhosts, DeviceScanRefreshesBus, Settled
<1>9. AnsweringBusesKept'
  BY <1>1, <1>4, <1>6, <1>7 DEF AnsweringBusesKept, Settled
<1>. QED
  BY <1>2, <1>3, <1>8, <1>9

LEMMA MoveKeeps ==
  ASSUME IInv, NEW d \in Devices \ {Zero}, NEW b \in Buses \cup {Absent}, Move(d, b)
  PROVE  IInv'
<1>. USE DEF IInv, ScanInv
<1>1. /\ moves < MaxMoves /\ location' = [location EXCEPT ![d] = b] /\ moves' = moves + 1 /\ disturbed'
      /\ UNCHANGED <<registry, target, pc, bus, result, found, failed, truncated>>
  BY DEF Move, scan_state
<1>2. TypeOK'
  BY <1>1, DeviceAssumption DEF TypeOK, Abstract!Targets
<1>3. ~Settled' /\ FailuresKnown' /\ FoundIsThere' /\ AnswersNoted' /\ NotFoundYet'
  BY <1>1 DEF Settled, FailuresKnown, FoundIsThere, AnswersNoted, NotFoundYet, Scanning
<1>. QED
  BY <1>2, <1>3 DEF NoGhosts, AnsweringBusesKept, DeviceScanRefreshesBus

LEMMA StutterKeeps == IInv /\ UNCHANGED vars => IInv'
<1>. SUFFICES ASSUME IInv, UNCHANGED vars PROVE IInv'
  OBVIOUS
<1>. USE DEF IInv, ScanInv, vars, scan_state, history
<1>1. TypeOK'
  BY DEF TypeOK, Abstract!Targets
<1>2. FailuresKnown' /\ FoundIsThere' /\ NotFoundYet'
  BY DEF FailuresKnown, FoundIsThere, NotFoundYet, Scanning
<1>3. Scanned' = Scanned
  BY DEF Scanned, Abstract!Scanned
<1>4. AnswersNoted'
  BY <1>3 DEF AnswersNoted, Answered, Scanning
<1>5. NoGhosts' /\ AnsweringBusesKept' /\ DeviceScanRefreshesBus'
  BY <1>3 DEF NoGhosts, AnsweringBusesKept, DeviceScanRefreshesBus, Settled
<1>. QED
  BY <1>1, <1>2, <1>4, <1>5

LEMMA NextIInv == IInv /\ [Next]_vars => IInv'
BY StartScanKeeps, SearchBusKeeps, SearchBusForDeviceKeeps, FinishScanKeeps,
   FinishScanForDeviceKeeps, MoveKeeps, StutterKeeps DEF Next

LEMMA Invariance == Spec => []IInv
BY InitIInv, NextIInv, PTL DEF Spec

-----------------------------------------------------------------------------
\* ---- Theorems ----

\* The list and the state of a scan are well formed at any time.
THEOREM TypeCorrect == Spec => []TypeOK
BY Invariance, PTL DEF IInv

\* After a scan on buses nobody has touched meanwhile, no device of its target is
\* listed that is not plugged in, whatever has failed, unless the scan was for the
\* address 0, which is what a search returns if nobody answers.
THEOREM GhostsAreRemoved == Spec => []NoGhosts
BY Invariance, PTL DEF IInv

\* Such a scan lists every device whose bus answered completely, unless a bus searched
\* before it failed.
THEOREM AnsweringDevicesStay == Spec => []AnsweringBusesKept
BY Invariance, PTL DEF IInv

\* A scan for one device, if it leaves it listed, leaves it with the bus it is plugged
\* into (the address 0 is no device).
THEOREM DeviceScanCorrectsBus == Spec => []DeviceScanRefreshesBus
BY Invariance, PTL DEF IInv

-----------------------------------------------------------------------------
\* ---- The registry the command handlers rely on ----

Seen == IF pc = "idle" THEN Idle ELSE target

\* The view shows an entry for every device, and "absent" for those not listed.
ViewOK == /\ View \in [Devices -> Abstract!Entries]
          /\ \A d \in Devices : View[d] = "absent" <=> registry[d] = Absent

LEMMA ViewFacts == TypeOK => ViewOK
<1>. SUFFICES ASSUME TypeOK PROVE ViewOK
  OBVIOUS
<1>1. \A d \in Devices : View[d] = CASE registry[d] = Absent -> "absent"
                                     [] registry[d] = Null   -> "null"
                                     [] OTHER                -> "usable"
  BY DEF View
<1>2. \A d \in Devices : View[d] \in {"absent", "null", "usable"}
                         /\ (View[d] = "absent" <=> registry[d] = Absent)
  BY <1>1, BusFacts DEF TypeOK
<1>3. View \in [Devices -> Abstract!Entries]
  BY <1>2 DEF View, Abstract!Entries
<1>. QED
  BY <1>2, <1>3 DEF ViewOK

LEMMA NextViewFacts == TypeOK' => ViewOK'
BY ViewFacts, PTL

\* While nothing is listed, the view is that of DeviceRegistry's initial state.
LEMMA EmptyView ==
  TypeOK /\ registry = [d \in Devices |-> Absent] => View = [d \in Devices |-> "absent"]
<1>. SUFFICES ASSUME TypeOK, registry = [d \in Devices |-> Absent]
              PROVE  View = [d \in Devices |-> "absent"]
  OBVIOUS
<1>1. \A d \in Devices : View[d] = "absent"
  BY ViewFacts DEF ViewOK
<1>. QED
  BY <1>1 DEF View

LEMMA NextEmptyView ==
  (TypeOK /\ registry = [d \in Devices |-> Absent] => View = [d \in Devices |-> "absent"])'
BY EmptyView, PTL

LEMMA TargetIsNotIdle == TypeOK => target # Idle
BY DeviceAssumption DEF TypeOK, Abstract!Targets

\* The same device shows the same entry.
LEMMA ViewOfEntry ==
  ASSUME NEW d \in Devices, registry'[d] = registry[d]
  PROVE  View'[d] = View[d]
BY DEF View

LEMMA ViewKept == UNCHANGED registry => View' = View
BY DEF View

LEMMA InitRefines == Init => Abstract!Init
<1>. SUFFICES ASSUME Init PROVE Abstract!Init
  OBVIOUS
<1>1. TypeOK
  BY InitIInv DEF IInv
<1>2. View = [d \in Devices |-> "absent"]
  BY <1>1, EmptyView DEF Init
<1>. QED
  BY <1>2 DEF Init, Abstract!Init

\* A scan goes on or ends: it has changed the entries of its target, at most, and
\* dropped entries, unless it is for one device, or listed new ones.
LEMMA ScanRefines ==
  ASSUME TypeOK, TypeOK', Scanning, target' = target,
         \A d \in Devices \ Scanned : registry'[d] = registry[d],
         target \notin Devices =>
           \A d \in Devices : registry[d] # Absent => registry'[d] \in {Absent, registry[d]}
  PROVE  Abstract!Scan
<1>1. Seen = target /\ Seen # Idle /\ Seen' \in {target, Idle}
  BY TargetIsNotIdle DEF Seen, Scanning
<1>2. View' \in [Devices -> Abstract!Entries]
  BY NextViewFacts DEF ViewOK
<1>3. \A d \in Devices : View'[d] = "absent" <=> registry'[d] = Absent
  BY NextViewFacts DEF ViewOK
<1>4. ASSUME NEW d \in Devices, d \notin Abstract!Scanned(Seen)
      PROVE  View'[d] = View[d]
  BY <1>1, <1>4, ViewOfEntry DEF Scanned
<1>5. ASSUME NEW d \in Devices, target \notin Devices, View[d] # "absent"
      PROVE  View'[d] \in {"absent", View[d]}
  BY <1>3, <1>5, ViewFacts, ViewOfEntry DEF ViewOK
<1>. QED
  BY <1>1, <1>2, <1>4, <1>5 DEF Abstract!Scan, Seen

LEMMA StartScanRefines ==
  ASSUME NEW t \in Abstract!Targets, StartScan(t)
  PROVE  Abstract!Next
<1>1. View' = View
  BY ViewKept DEF StartScan
<1>2. Abstract!Begin(t)
  BY <1>1 DEF StartScan, Abstract!Begin
<1>. QED
  BY <1>2 DEF Abstract!Next

LEMMA SearchBusForDeviceRefines ==
  ASSUME TypeOK, TypeOK', SearchBusForDevice
  PROVE  Abstract!Next
<1>1. Scanning /\ target \in Devices /\ target' = target
      /\ \A d \in Devices : d # target => registry'[d] = registry[d]
  BY DEF SearchBusForDevice, Scanning, TypeOK
<1>2. Scanned = {target}
  BY <1>1, ScannedDevices
<1>3. Abstract!Scan
  BY <1>1, <1>2, ScanRefines
<1>. QED
  BY <1>3 DEF Abstract!Next

LEMMA FinishScanRefines ==
  ASSUME TypeOK, TypeOK', FinishScan
  PROVE  Abstract!Next
<1>1. PICK r \in [Devices -> Buses \cup {Absent, Null}] :
        /\ \A d \in Devices : r[d] \in Updated(d)
        /\ Boot \/ (registry' = r /\ target' = target)
  BY DEF FinishScan
<1>2. CASE Boot
  <2>1. View' = [d \in Devices |-> "absent"]
    BY <1>2, NextEmptyView DEF Boot
  <2>2. Seen' \in {NoTarget, Idle}
    BY <1>2 DEF Boot, Seen
  <2>. QED
    BY <2>1, <2>2 DEF Abstract!Next, Abstract!Boot, Seen
<1>3. CASE registry' = r /\ target' = target
  <2>1. \A d \in Devices \ Scanned : r[d] = registry[d]
    BY <1>1 DEF Updated
  <2>2. \A d \in Devices : registry[d] # Absent => r[d] \in {Absent, registry[d]}
    BY <1>1 DEF Updated
  <2>3. Scanning
    BY DEF FinishScan, Scanning
  <2>4. Abstract!Scan
    BY <1>3, <2>1, <2>2, <2>3, ScanRefines
  <2>. QED
    BY <2>4 DEF Abstract!Next
<1>. QED
  BY <1>1, <1>2, <1>3

LEMMA FinishScanForDeviceRefines ==
  ASSUME TypeOK, TypeOK', FinishScanForDevice
  PROVE  Abstract!Next
<1>1. Scanning /\ target' = target /\ registry' = registry
  BY DEF FinishScanForDevice, Scanning
<1>2. Abstract!Scan
  BY <1>1, ScanRefines
<1>. QED
  BY <1>2 DEF Abstract!Next

\* What is not seen of the scans: a bus searched that brings nothing yet, and what
\* happens on the buses.
LEMMA UnseenSteps ==
  ASSUME SearchBus \/ (\E d \in Devices \ {Zero}, b \in Buses \cup {Absent} : Move(d, b)) \/ UNCHANGED vars
  PROVE  UNCHANGED Abstract!vars
<1>1. UNCHANGED <<registry, target, pc>>
  BY DEF SearchBus, Move, vars, scan_state
<1>2. View' = View
  BY <1>1, ViewKept
<1>. QED
  BY <1>1, <1>2 DEF Abstract!vars

LEMMA NextRefines == TypeOK /\ TypeOK' /\ [Next]_vars => [Abstract!Next]_Abstract!vars
BY StartScanRefines, SearchBusForDeviceRefines, FinishScanRefines, FinishScanForDeviceRefines,
   UnseenSteps DEF Next

\* To the command handlers, the scans do to the list of devices nothing but what
\* DeviceRegistry allows, whatever fails and whoever plugs devices meanwhile.
THEOREM ImplementsRegistry == Spec => RefinesRegistry
BY InitRefines, NextRefines, TypeCorrect, PTL DEF Spec, RefinesRegistry, Abstract!Spec

=============================================================================
