------------------------------ MODULE Sampling ------------------------------
(***************************************************************************)
(* Reading the values of DS18B20 thermometers and DS2438 battery monitors. *)
(* A thermometer converts its temperature; a monitor has a converter for   *)
(* its temperature and one for a voltage, with a bit in its configuration  *)
(* that says which of two inputs is sampled.  Each converter leaves its    *)
(* result in a register of its own.  A read starts conversions in its      *)
(* first pass, goes back into the command queue, and fetches the registers *)
(* in its second pass.  In between, the loop task works on the other       *)
(* commands of the queue.  The temperatures of a family are started by a   *)
(* broadcast on every bus, which the chips of the other family obey, too.  *)
(*                                                                         *)
(* The queue is the one of module CommandHandler, here without its limit.  *)
(* A chip told to convert while it converts begins anew.                   *)
(***************************************************************************)
EXTENDS Naturals, Sequences, FiniteSets

CONSTANTS
  Chips,             \* the devices
  Ds18b20, Ds2438,   \* their families
  FamilyOf,          \* family of each chip
  Reads,             \* the requests, each under way at most once at a time
  AttributeOf,       \* "temperature", "VAD" or "VDD", per request
  TargetOf,          \* a chip or a family, per request
  SamplingTime,      \* kSamplingTime, kWorstCaseSamplingTime of a family, in ticks
  ConversionTime,    \* how long the chips of a family convert, in ticks
  MaxScans           \* bound: changes of the list of available devices

Inputs   == {"VAD", "VDD"}
Families == {Ds18b20, Ds2438}
Monitors == {c \in Chips : FamilyOf[c] = Ds2438}

\* The family a request is handled by.
FamilyFor(r) == IF TargetOf[r] \in Chips THEN FamilyOf[TargetOf[r]] ELSE TargetOf[r]

ASSUME ChipAssumption ==
  /\ FamilyOf \in [Chips -> Families] /\ Ds18b20 # Ds2438 /\ Chips \cap Families = {}
  /\ SamplingTime \in [Families -> Nat] /\ ConversionTime \in [Families -> Nat \ {0}]
ASSUME ReadAssumption ==
  /\ AttributeOf \in [Reads -> {"temperature"} \cup Inputs]
  /\ TargetOf \in [Reads -> Chips \cup Families]
  /\ \A r \in Reads : AttributeOf[r] \in Inputs => FamilyFor(r) = Ds2438
  /\ MaxScans \in Nat

\* The sampling time a class declares is the time its chips need to convert.
ASSUME DelayAssumption == \A f \in Families : ConversionTime[f] <= SamplingTime[f]

\* A converter with its register: a chip and what it converts.
Units == (Chips \X {"temperature"}) \cup (Monitors \X {"voltage"})

Kind(r) == IF AttributeOf[r] = "temperature" THEN "temperature" ELSE "voltage"

VARIABLES
  queue,      \* reads under way: the pass, the timer, and the units started
  answer,     \* per request
  available,  \* the chips in ow_available_devices_
  input,      \* per monitor: the input its AD bit selects
  conversion, \* per unit: the conversion under way, or NoConversion
  register,   \* per unit: what its value was sampled from, and for which read
  owner,      \* history: the read that was last at the unit, or NoRead
  fresh,      \* history: the waiting reads that began before the value was sampled
  scans       \* bound: scans so far

chip_state == <<input, conversion, register, owner, fresh>>
vars       == <<queue, answer, available, chip_state, scans>>

NoConversion == [left |-> 0]
NoRead       == "none"
PowerOn      == [input |-> "none"]
Quantities   == {"temperature"} \cup Inputs
Samples      == [input : Quantities, by : Reads]

\* serves: the waiting reads that began before the conversion did.
\* interrupts: it put an end to another conversion.
Conversions(u) == [left : 1 .. ConversionTime[FamilyOf[u[1]]], input : Quantities, by : Reads,
                   serves : SUBSET Reads, interrupts : BOOLEAN]

TypeOK ==
  /\ queue \in Seq([read : Reads, pass : {"None", "ReadResult"},
                    timer : 0 .. SamplingTime[Ds18b20] + SamplingTime[Ds2438], started : SUBSET Units])
  /\ \A i \in DOMAIN queue : queue[i].timer <= SamplingTime[FamilyFor(queue[i].read)]
  /\ answer \in [Reads -> {"waiting", "answered", "failed"}]
  /\ available \subseteq Chips
  /\ input \in [Monitors -> Inputs]
  /\ \A u \in Units : conversion[u] \in {NoConversion} \cup Conversions(u)
  /\ register \in [Units -> Samples \cup {PowerOn}]
  /\ owner \in [Units -> Reads \cup {NoRead}]
  /\ fresh \in [Units -> SUBSET Reads]
  /\ scans \in 0 .. MaxScans

-----------------------------------------------------------------------------
\* ---- The queue ----

\* OneWireSystem::GetAvailableDevice, GetAvailableDevices
Targets(r) == {c \in available : TargetOf[r] = c \/ TargetOf[r] = FamilyOf[c]}
UnitsOf(r) == Targets(r) \X {Kind(r)}

\* A request arrives and is queued.
Send(r) ==
  /\ answer[r] = "waiting" /\ \A i \in DOMAIN queue : queue[i].read # r
  /\ queue' = Append(queue, [read |-> r, pass |-> "None", timer |-> 0, started |-> {}])
  /\ UNCHANGED <<answer, available, chip_state, scans>>

\* Back to the tail of the queue while the timer runs.
Postpone ==
  /\ queue # <<>> /\ Head(queue).timer > 0
  /\ queue' = Append(Tail(queue), Head(queue))
  /\ UNCHANGED <<answer, available, chip_state, scans>>

Turn(pass) == queue # <<>> /\ Head(queue).timer = 0 /\ Head(queue).pass = pass

Respond(r, a) == queue' = Tail(queue) /\ answer' = [answer EXCEPT ![r] = a]

\* The read is over; no value need be fresh for it.
Forget(r) ==
  /\ fresh' = [u \in Units |-> fresh[u] \ {r}]
  /\ conversion' = [u \in Units |-> IF conversion[u] = NoConversion THEN NoConversion
                                    ELSE [conversion[u] EXCEPT !.serves = @ \ {r}]]

-----------------------------------------------------------------------------
\* ---- The first pass ----

\* Mutant: every handler waits as long as a monitor needs.
SamplingDelayOfMonitor(r) == SamplingTime[Ds2438]

\* Mutant: one tick more than the sampling time the class declares.
SamplingDelayRoundedUp(r) == SamplingTime[FamilyFor(r)] + 1

SamplingDelay(r) == SamplingTime[FamilyFor(r)]

\* The command waits for its conversions, or the request fails.
Sampled(r, started, ok) ==
  IF ok THEN /\ queue' = Append(Tail(queue), [read |-> r, pass |-> "ReadResult",
                                              timer |-> SamplingDelay(r), started |-> started])
             /\ UNCHANGED answer
        ELSE Respond(r, "failed")

\* The reads a conversion of unit u that begins now can serve.
Served(r, u) ==
  {queue[i].read : i \in {j \in DOMAIN queue : queue[j].pass = "ReadResult" /\ Kind(queue[j].read) = u[2]}}
  \cup {r}

\* The units started begin to convert for read r.
Convert(r, started, ok) ==
  conversion' = [u \in Units |->
    IF u \in started
      THEN [left |-> ConversionTime[FamilyOf[u[1]]],
            input |-> IF u[2] = "temperature" THEN "temperature" ELSE input'[u[1]],
            by |-> r, interrupts |-> conversion[u] # NoConversion,
            serves |-> Served(r, u) \ (IF ok THEN {} ELSE {r})]
      ELSE conversion[u]]

Touch(r, units) == owner' = [u \in Units |-> IF u \in units THEN r ELSE owner[u]]

\* Mutant: the bit is only ever set, never cleared.
SelectInputStickily(c, r) == IF AttributeOf[r] = "VDD" THEN "VDD" ELSE input[c]

\* SetConfigBit, ClearConfigBit: VDD if the AD bit is set.
SelectInput(c, r) == AttributeOf[r]

\* SampleVAD, SampleVDD, for each chip: select the input, start the conversion.  Each
\* of the two may fail by itself: the conversion is started even if the first failed,
\* and a bus error after the fact reports a failure of what the chip did.
SampleVoltage(r) ==
  \E selected, started \in SUBSET UnitsOf(r), ok \in BOOLEAN :
    /\ ok => selected = UnitsOf(r) /\ started = UnitsOf(r)
    /\ input' = [c \in Monitors |-> IF <<c, "voltage">> \in selected THEN SelectInput(c, r) ELSE input[c]]
    /\ Convert(r, started, ok) /\ Touch(r, selected \cup started)
    /\ Sampled(r, started, ok)

\* SampleTemperature of the device alone.
SampleTemperature(r) ==
  \E started \in SUBSET UnitsOf(r), ok \in BOOLEAN :
    /\ ok => started = UnitsOf(r)
    /\ UNCHANGED input
    /\ Convert(r, started, ok) /\ Touch(r, started)
    /\ Sampled(r, started, ok)

\* SampleTemperature with Skip ROM on every bus: whatever chip is there obeys.
BroadcastTemperature(r) ==
  \E started \in SUBSET (Chips \X {"temperature"}), ok \in BOOLEAN :
    /\ ok => started = Chips \X {"temperature"}
    /\ UNCHANGED input
    /\ Convert(r, started, ok) /\ Touch(r, started)
    /\ Sampled(r, started, ok)

Sample ==
  /\ Turn("None") /\ Targets(Head(queue).read) # {}
  /\ LET r == Head(queue).read
     IN  \/ Kind(r) = "voltage" /\ SampleVoltage(r)
         \/ Kind(r) = "temperature" /\ TargetOf[r] \in Chips /\ SampleTemperature(r)
         \/ Kind(r) = "temperature" /\ TargetOf[r] \in Families /\ BroadcastTemperature(r)
  /\ UNCHANGED <<available, register, fresh, scans>>

-----------------------------------------------------------------------------
\* ---- The second pass ----

\* GetTemperature, GetVAD, GetVDD of every chip: a transfer or a checksum may fail.
Outcomes == {"answered", "failed"}

\* The register of every chip that is available now.
ReadResult ==
  /\ Turn("ReadResult") /\ Targets(Head(queue).read) # {}
  /\ \E a \in Outcomes : Respond(Head(queue).read, a)
  /\ Forget(Head(queue).read)
  /\ UNCHANGED <<available, input, register, owner, scans>>

\* The chip, or every chip of the family, is gone: an error for the one, for the
\* other no answer at all.
NothingToRead ==
  /\ queue # <<>> /\ Head(queue).timer = 0 /\ Targets(Head(queue).read) = {}
  /\ IF TargetOf[Head(queue).read] \in Families
       THEN queue' = Tail(queue) /\ UNCHANGED answer
       ELSE Respond(Head(queue).read, "failed")
  /\ Forget(Head(queue).read)
  /\ UNCHANGED <<available, input, register, owner, scans>>

-----------------------------------------------------------------------------
\* A scan changes what is available.
Scan ==
  /\ scans < MaxScans
  /\ available' \in SUBSET Chips
  /\ scans' = scans + 1
  /\ UNCHANGED <<queue, answer, chip_state>>

\* Time passes; a conversion that ends leaves its sample in the register.
Tick ==
  /\ \/ \E i \in DOMAIN queue : queue[i].timer > 0
     \/ \E u \in Units : conversion[u] # NoConversion
  /\ queue' = [i \in DOMAIN queue |->
                 [queue[i] EXCEPT !.timer = IF @ > 0 THEN @ - 1 ELSE 0]]
  /\ conversion' = [u \in Units |->
                      IF conversion[u].left <= 1 THEN NoConversion
                      ELSE [conversion[u] EXCEPT !.left = @ - 1]]
  /\ register' = [u \in Units |->
                    IF conversion[u].left = 1
                      THEN [input |-> conversion[u].input, by |-> conversion[u].by]
                      ELSE register[u]]
  /\ fresh' = [u \in Units |-> IF conversion[u].left = 1 THEN conversion[u].serves ELSE fresh[u]]
  /\ UNCHANGED <<answer, available, input, owner, scans>>

Init ==
  /\ queue = <<>> /\ answer = [r \in Reads |-> "waiting"]
  /\ available \in SUBSET Chips
  /\ input \in [Monitors -> Inputs]
  /\ conversion = [u \in Units |-> NoConversion]
  /\ register = [u \in Units |-> PowerOn]
  /\ owner = [u \in Units |-> NoRead]
  /\ fresh = [u \in Units |-> {}]
  /\ scans = 0

Next ==
  \/ \E r \in Reads : Send(r)
  \/ Postpone \/ Sample \/ ReadResult \/ NothingToRead
  \/ Scan \/ Tick

Spec == Init /\ [][Next]_vars

-----------------------------------------------------------------------------
\* ---- Properties ----

\* A read whose second pass has its turn, and the units it has started and fetches now.
Reading(r) == Turn("ReadResult") /\ Head(queue).read = r
Fetched(r) == UnitsOf(r) \cap Head(queue).started

\* A unit that no other read has touched since the first pass of a read delivers,
\* when the second pass comes, the quantity that was asked for, sampled for this read:
\* the delay outlasts the conversion, and no earlier value is taken for the new one.
OwnSampleIsRight ==
  \A r \in Reads : Reading(r) =>
    \A u \in Fetched(r) : owner[u] = r => register[u] = [input |-> AttributeOf[r], by |-> r]

\* Whatever other reads and broadcasts of either family do meanwhile, a value was
\* sampled after the read that fetches it had begun; unless a later conversion has
\* interrupted the one under way, and is itself not finished.
FreshUnlessInterrupted ==
  \A r \in Reads : Reading(r) =>
    \A u \in Fetched(r) :
      r \in fresh[u] \/ (conversion[u] # NoConversion /\ conversion[u].interrupts)

=============================================================================
