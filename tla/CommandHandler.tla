--------------------------- MODULE CommandHandler ---------------------------
(***************************************************************************)
(* The command layer of the firmware (src/firmware/src/cmd): one bounded   *)
(* FreeRTOS queue of commands, filled by the MQTT task and by the Arduino  *)
(* loop task, drained by the loop task only.  A command whose timer is     *)
(* still running goes back to the tail of the queue.  Reading a converting *)
(* attribute takes two passes of the same command: the first starts the    *)
(* conversion and re-queues the command with a timer and the sub-action    *)
(* ReadResult, the second fetches the value.  Subscriptions are timers in  *)
(* the loop task that put a copy of a stored read command into the queue.  *)
(*                                                                         *)
(* Time.  A Timer is represented by the ticks that remain until it         *)
(* expires; module Timer shows when the firmware's uint32 deadline does    *)
(* the same.                                                               *)
(*                                                                         *)
(* What the 1-wire layer answers is an input here: which devices a scan    *)
(* finds, whether their setup succeeds, and whether a bus transaction      *)
(* does.  A device whose setup failed stays in the registry as a null      *)
(* pointer; the chip reboots when a handler dereferences it.               *)
(***************************************************************************)
EXTENDS Naturals, Sequences, FiniteSets

CONSTANTS
  Devices,            \* addresses of 1-wire devices
  FamilyCodes,        \* family codes
  FamilyOf,           \* the family code in a device's address
  Ds18b20, Ds2438,    \* the two families that have a read handler
  NoTarget,           \* neither device_id nor family_code in the request
  SamplingTime,       \* conversion time per family, in ticks
  QueueSize,          \* capacity of the command queue (100 in the firmware)
  ClientCommands,     \* the well-formed requests clients send
  MaxRequests,        \* bound: number of messages sent by clients
  SubscriptionOrder   \* the order in which Loop visits subscription keys

Attributes == {"presence", "temperature", "VAD", "VDD"}
Requests   == 1 .. MaxRequests
Targets    == Devices \cup FamilyCodes \cup {NoTarget}
Keys       == {SubscriptionOrder[i] : i \in DOMAIN SubscriptionOrder}

\* The content of a request: what MqttMessageHandler parses out of the JSON.
\* An attribute of "none" or an interval of 0 stands for an absent parameter
\* where the action has none.
RequestContents ==
  [action : {"restart", "scan", "read", "subscribe", "unsubscribe"},
   target : Targets, attr : Attributes \cup {"none"}, interval : Nat]

ASSUME FamilyAssumption ==
  /\ FamilyOf \in [Devices -> FamilyCodes]
  /\ Ds18b20 \in FamilyCodes /\ Ds2438 \in FamilyCodes /\ Ds18b20 # Ds2438
  /\ NoTarget \notin Devices \cup FamilyCodes
  /\ Devices \cap FamilyCodes = {}
ASSUME BoundAssumption ==
  /\ SamplingTime \in [FamilyCodes -> Nat]
  /\ QueueSize \in Nat \ {0}
  /\ MaxRequests \in Nat
ASSUME RequestAssumption ==
  /\ ClientCommands \subseteq RequestContents
  /\ \A c \in ClientCommands :
       /\ c.action \in {"read", "subscribe", "unsubscribe"} =>
            c.attr \in Attributes /\ c.target # NoTarget
       /\ c.action \in {"subscribe", "unsubscribe"} => <<c.target, c.attr>> \in Keys
ASSUME OrderAssumption ==
  /\ SubscriptionOrder \in Seq((Devices \cup FamilyCodes) \X Attributes)
  /\ SubscriptionOrder # <<>>

VARIABLES
  queue,          \* command_queue_
  current,        \* the command received by the loop task, or NoCommand
  pc,             \* where the loop task is in CommandHandler::Loop
  cursor,         \* the subscription SubscriptionsManager::Loop visits next
  subscriptions,  \* subscriptions_device_ and subscriptions_family_
  registry,       \* ow_available_devices_ of OneWireSystem
  status,         \* history: what became of each client request
  intruded        \* history: did the MQTT task enqueue since the last receive

vars == <<queue, current, pc, cursor, subscriptions, registry, status, intruded>>

\* cmd::Command.  The field id is not in the code: it names the client request
\* the command stems from (a subscription's reads stem from the subscribe).
Commands ==
  [id : Requests, action : {"restart", "scan", "read", "subscribe", "unsubscribe"},
   sub_action : {"None", "ReadResult"}, target : Targets,
   attr : Attributes \cup {"none"}, interval : Nat, timer : Nat]

\* A device in ow_available_devices_ is usable, or its pointer is null.
Entries == {"absent", "usable", "null"}

NoCommand     == [id |-> 0]
NotSubscribed == [delay |-> 0]

Subscriptions == [delay : Nat, timer : Nat, command : Commands]

Statuses ==
  {"unsent",      \* not sent yet
   "refused",     \* dropped by a full queue on arrival, no response
   "pending",     \* in the queue or held by the loop task
   "answered",    \* response sent
   "failed",      \* error response sent
   "silent",      \* processed without any response
   "lost",        \* dropped by a full queue when re-queued, or gone in a restart
   "subscribed",  \* subscribe acknowledged
   "updated"}     \* subscribe answered by the "already subscribed" warning

TypeOK ==
  /\ queue \in Seq(Commands) /\ Len(queue) <= QueueSize
  /\ pc \in {"receive", "process", "subscriptions"}
  /\ current \in Commands \cup {NoCommand}
  /\ pc = "process" <=> current # NoCommand
  /\ cursor \in 1 .. Len(SubscriptionOrder)
  /\ subscriptions \in [Keys -> Subscriptions \cup {NotSubscribed}]
  /\ registry \in [Devices -> Entries]
  /\ status \in [Requests -> Statuses]
  /\ intruded \in BOOLEAN

-----------------------------------------------------------------------------
\* ---- Timer and queue ----

Reset(delay)     == delay
IsExpired(timer) == timer = 0
CountDown(timer) == IF timer = 0 THEN 0 ELSE timer - 1

\* Mutant: the capacity check is off by one.
RoomOffByOne == Len(queue) <= QueueSize

Room == Len(queue) < QueueSize

\* xQueueSend without waiting: a full queue drops the command.
EnqueueCommand(cmd) == queue' = IF Room THEN Append(queue, cmd) ELSE queue

\* A command of a subscription has no client waiting for it.
Finish(cmd, outcome) ==
  status' = IF status[cmd.id] = "pending"
              THEN [status EXCEPT ![cmd.id] = outcome]
              ELSE status

InitEmptyCommand(r, c) ==
  [id |-> r, action |-> c.action, sub_action |-> "None", target |-> c.target,
   attr |-> c.attr, interval |-> c.interval, timer |-> 0]

\* The chip has rebooted.  Queue and subscriptions are gone; the initial scan of
\* OneWireSystem::Begin, if configured, fills the registry anew (it cannot leave a
\* null pointer behind: logging its result would dereference it).
Restarted ==
  /\ queue' = <<>> /\ current' = NoCommand /\ pc' = "receive" /\ cursor' = 1
  /\ subscriptions' = [k \in Keys |-> NotSubscribed]
  /\ registry' \in [Devices -> {"absent", "usable"}]
  /\ intruded' = FALSE

-----------------------------------------------------------------------------
\* ---- MQTT task: MqttMessageHandler ----

NextRequest(r) == status[r] = "unsent" /\ \A s \in 1 .. r - 1 : status[s] # "unsent"

\* A well-formed message becomes a command; the result of EnqueueCommand is
\* ignored, so a full queue swallows the request.
MqttMessage(r, c) ==
  /\ NextRequest(r)
  /\ EnqueueCommand(InitEmptyCommand(r, c))
  /\ status' = [status EXCEPT ![r] = IF Room THEN "pending" ELSE "refused"]
  /\ intruded' = (intruded \/ Room)
  /\ UNCHANGED <<current, pc, cursor, subscriptions, registry>>

\* Bad JSON, an unknown action, a missing or invalid address, attribute or
\* interval: answered by the MQTT task itself.
MalformedMessage(r) ==
  /\ NextRequest(r)
  /\ status' = [status EXCEPT ![r] = "failed"]
  /\ UNCHANGED <<queue, current, pc, cursor, subscriptions, registry, intruded>>

\* A device_id of the right length without a hexadecimal digit in front: the exception
\* std::stoull throws is caught nowhere, and the terminate handler restarts the chip
\* (after flashing its LED; the loop task goes on meanwhile, but no further message is
\* handled, so the message is taken to be handled when the restart comes).
UnreadableAddress(r) ==
  /\ NextRequest(r)
  /\ Restarted
  /\ status' = [s \in Requests |->
                  IF s = r \/ status[s] = "pending" THEN "lost" ELSE status[s]]

-----------------------------------------------------------------------------
\* ---- Loop task: CommandHandler::ProcessCommandQueue ----

\* Mutant: the command is peeked at and stays in the queue.
ReceiveByPeek ==
  /\ pc = "receive"
  /\ IF queue = <<>>
       THEN pc' = "subscriptions" /\ UNCHANGED current
       ELSE pc' = "process" /\ current' = Head(queue)
  /\ intruded' = FALSE
  /\ UNCHANGED <<queue, cursor, subscriptions, registry, status>>

\* xQueueReceive without waiting.
Receive ==
  /\ pc = "receive"
  /\ IF queue = <<>>
       THEN /\ pc' = "subscriptions"
            /\ UNCHANGED <<queue, current>>
       ELSE /\ pc' = "process"
            /\ current' = Head(queue)
            /\ queue' = Tail(queue)
  /\ intruded' = FALSE
  /\ UNCHANGED <<cursor, subscriptions, registry, status>>

\* The loop task asks for a restart while it holds a command.
Reboot(outcome) ==
  /\ Restarted
  /\ status' = [r \in Requests |->
                  IF status[r] # "pending" THEN status[r]
                  ELSE IF r = current.id THEN outcome ELSE "lost"]

\* The command has been dealt with; the loop task goes on to the subscriptions.
Done ==
  /\ current' = NoCommand
  /\ pc' = "subscriptions"
  /\ UNCHANGED <<cursor, intruded>>

\* Back to the tail of the queue, the result of EnqueueCommand ignored.
Requeue(cmd) ==
  /\ EnqueueCommand(cmd)
  /\ IF Room THEN UNCHANGED status ELSE Finish(cmd, "lost")

Respond(outcome) == Finish(current, outcome) /\ UNCHANGED queue

\* Mutant: the command is taken from the queue and not put back.
PostponeDropping ==
  /\ pc = "process" /\ ~IsExpired(current.timer)
  /\ Done
  /\ UNCHANGED <<queue, status, subscriptions, registry>>

\* The timer of the command still runs.
Postpone ==
  /\ pc = "process" /\ ~IsExpired(current.timer)
  /\ Requeue(current)
  /\ Done
  /\ UNCHANGED <<subscriptions, registry>>

Dispatch(action) ==
  /\ pc = "process" /\ IsExpired(current.timer)
  /\ current.action = action

\* A handler that leaves the subscriptions alone and returns.
Handled == Done /\ UNCHANGED subscriptions

-----------------------------------------------------------------------------
\* ---- Scan and presence: PresenceCommandHandler ----

Members(f) == {d \in Devices : FamilyOf[d] = f}
Scanned(target) == CASE target \in Devices     -> {target}
                     [] target \in FamilyCodes -> Members(target)
                     [] OTHER                  -> Devices

\* A scan touches only the device or family it looks for, whatever it finds, and
\* does so even if the search fails on some bus and the client gets an error.  A
\* scan for one device creates it anew; the others keep the entries they have.
ScanResults(target) ==
  {found \in [Devices -> Entries] :
     \A d \in Devices :
       IF d \notin Scanned(target) THEN found[d] = registry[d]
       ELSE found[d] \in {"absent", "usable", "null"}
            /\ (target \notin Devices /\ registry[d] # "absent"
                  => found[d] \in {"absent", registry[d]})}

\* A successful scan of more than one device lists the devices it knows.
ProcessPresence ==
  \E found \in ScanResults(current.target), ok \in BOOLEAN :
    IF ok /\ current.target \notin Devices /\ \E d \in Scanned(current.target) : found[d] = "null"
      THEN Reboot("lost")
      ELSE registry' = found /\ Respond(IF ok THEN "answered" ELSE "failed") /\ Handled

ProcessActionScan == Dispatch("scan") /\ ProcessPresence

-----------------------------------------------------------------------------
\* ---- Read: Ds18b20CommandHandler, Ds2438CommandHandler ----

Supports(f, attr) ==
  \/ f = Ds18b20 /\ attr = "temperature"
  \/ f = Ds2438  /\ attr \in {"temperature", "VAD", "VDD"}

FirstPass == current.sub_action = "None"

\* Mutant: a failed fetch is reported and retried as well.
SampleAndReadRetrying(f) ==
  \E ok \in BOOLEAN :
    \/ FirstPass /\ ok
       /\ Requeue([current EXCEPT !.sub_action = "ReadResult",
                                  !.timer = Reset(SamplingTime[f])])
    \/ FirstPass /\ ~ok /\ Respond("failed")
    \/ ~FirstPass /\ ok /\ Respond("answered")
    \/ ~FirstPass /\ ~ok /\ Finish(current, "failed") /\ EnqueueCommand(current)

\* The two passes of a read that finds its devices and supports the attribute.
SampleAndRead(f) ==
  \E ok \in BOOLEAN :
    \/ FirstPass /\ ok
       /\ Requeue([current EXCEPT !.sub_action = "ReadResult",
                                  !.timer = Reset(SamplingTime[f])])
    \/ FirstPass /\ ~ok /\ Respond("failed")
    \/ ~FirstPass /\ Respond(IF ok THEN "answered" ELSE "failed")

ProcessReadSingleDevice(d) ==
  IF registry[d] = "usable" /\ Supports(FamilyOf[d], current.attr)
    THEN SampleAndRead(FamilyOf[d])
    ELSE Respond("failed")

Available(f) == {d \in Members(f) : registry[d] # "absent"}

\* A family without any available device gets no response at all; only the
\* DS18B20 handler looks at the attribute first.
ProcessReadDeviceFamily(f) ==
  IF Available(f) = {} /\ (f = Ds2438 \/ Supports(f, current.attr))
    THEN Respond("silent")
    ELSE IF Supports(f, current.attr) THEN SampleAndRead(f) ELSE Respond("failed")

\* The family handlers visit every device they know to fetch a value, and to start
\* a voltage conversion; a temperature conversion is started on the whole bus.
VisitsNull(f) ==
  /\ Supports(f, current.attr)
  /\ ~FirstPass \/ current.attr # "temperature"
  /\ \E d \in Members(f) : registry[d] = "null"

\* The visit ends early, before the null pointer, if fetching from a device fails.
ReadFamily(f) ==
  \/ /\ ~VisitsNull(f)
     /\ ProcessReadDeviceFamily(f) /\ Handled /\ UNCHANGED registry
  \/ VisitsNull(f) /\ Reboot("lost")
  \/ /\ VisitsNull(f) /\ ~FirstPass /\ \E d \in Members(f) : registry[d] = "usable"
     /\ Respond("failed") /\ Handled /\ UNCHANGED registry

ReadDevice(d) ==
  /\ IF FamilyOf[d] \in {Ds18b20, Ds2438} THEN ProcessReadSingleDevice(d) ELSE Respond("failed")
  /\ Handled /\ UNCHANGED registry

ProcessActionRead ==
  /\ Dispatch("read")
  /\ \/ current.attr = "presence" /\ ProcessPresence
     \/ current.attr # "presence" /\ current.target \in Devices /\ ReadDevice(current.target)
     \/ current.attr # "presence" /\ current.target \in {Ds18b20, Ds2438} /\ ReadFamily(current.target)
     \/ /\ current.attr # "presence" /\ current.target \in FamilyCodes \ {Ds18b20, Ds2438}
        /\ Respond("failed") /\ Handled /\ UNCHANGED registry

-----------------------------------------------------------------------------
\* ---- Subscriptions: SubscriptionsManager ----

Key(cmd)      == <<cmd.target, cmd.attr>>
Subscribed(k) == subscriptions[k] # NotSubscribed

\* Mutant: the interval becomes the delay of the read.
ConvertSubscribeKeepingDelay(cmd) ==
  [cmd EXCEPT !.action = "read", !.interval = 0, !.timer = Reset(cmd.interval)]

ConvertSubscribeToReadCommand(cmd) == [cmd EXCEPT !.action = "read", !.interval = 0]

\* A new subscription is acknowledged and its first read queued, if there is
\* room; a known one gets its timer and command replaced, and a warning.
ProcessActionSubscribe ==
  LET k    == Key(current)
      read == ConvertSubscribeToReadCommand(current)
  IN  /\ Dispatch("subscribe") /\ Done
      /\ subscriptions' = [subscriptions EXCEPT ![k] =
                             [delay |-> current.interval, timer |-> Reset(current.interval),
                              command |-> read]]
      /\ IF Subscribed(k)
           THEN Finish(current, "updated") /\ UNCHANGED queue
           ELSE Finish(current, "subscribed") /\ EnqueueCommand(read)
      /\ UNCHANGED registry

\* Mutant: like a subscribe, an unsubscribe triggers a read.
UnsubscribeWithLastRead ==
  LET k == Key(current)
  IN  /\ Dispatch("unsubscribe") /\ Done
      /\ subscriptions' = [subscriptions EXCEPT ![k] = NotSubscribed]
      /\ Finish(current, IF Subscribed(k) THEN "answered" ELSE "failed")
      /\ IF Subscribed(k) THEN EnqueueCommand(subscriptions[k].command) ELSE UNCHANGED queue
      /\ UNCHANGED registry

\* Reads of the subscription that are already in the queue stay there.
ProcessActionUnsubscribe ==
  LET k == Key(current)
  IN  /\ Dispatch("unsubscribe") /\ Done
      /\ subscriptions' = [subscriptions EXCEPT ![k] = NotSubscribed]
      /\ Respond(IF Subscribed(k) THEN "answered" ELSE "failed")
      /\ UNCHANGED registry

\* Mutant: the timer is reset in every round, expired or not.
SubscriptionsLoopAlwaysReset ==
  LET k == SubscriptionOrder[cursor]
      s == subscriptions[k]
  IN  /\ pc = "subscriptions"
      /\ IF Subscribed(k) /\ IsExpired(s.timer)
           THEN EnqueueCommand(s.command) ELSE UNCHANGED queue
      /\ IF Subscribed(k)
           THEN subscriptions' = [subscriptions EXCEPT ![k].timer = Reset(s.delay)]
           ELSE UNCHANGED subscriptions
      /\ IF cursor < Len(SubscriptionOrder)
           THEN cursor' = cursor + 1 /\ UNCHANGED pc
           ELSE cursor' = 1 /\ pc' = "receive"
      /\ UNCHANGED <<current, registry, status, intruded>>

\* One round of the for loops in SubscriptionsManager::Loop: the timer is reset
\* whether or not the queue took the command.
SubscriptionsLoop ==
  LET k == SubscriptionOrder[cursor]
      s == subscriptions[k]
  IN  /\ pc = "subscriptions"
      /\ IF Subscribed(k) /\ IsExpired(s.timer)
           THEN /\ EnqueueCommand(s.command)
                /\ subscriptions' = [subscriptions EXCEPT ![k].timer = Reset(s.delay)]
           ELSE UNCHANGED <<queue, subscriptions>>
      /\ IF cursor < Len(SubscriptionOrder)
           THEN cursor' = cursor + 1 /\ UNCHANGED pc
           ELSE cursor' = 1 /\ pc' = "receive"
      /\ UNCHANGED <<current, registry, status, intruded>>

-----------------------------------------------------------------------------
\* ---- Restart ----

\* The acknowledgement is sent, then the chip reboots.
ProcessActionRestart == Dispatch("restart") /\ Reboot("answered")

-----------------------------------------------------------------------------
\* ---- Time ----

Waiting ==
  \/ \E i \in DOMAIN queue : queue[i].timer > 0
  \/ current # NoCommand /\ current.timer > 0
  \/ \E k \in Keys : Subscribed(k) /\ subscriptions[k].timer > 0

Tick ==
  /\ Waiting
  /\ queue' = [i \in DOMAIN queue |-> [queue[i] EXCEPT !.timer = CountDown(@)]]
  /\ current' = IF current = NoCommand THEN current
                ELSE [current EXCEPT !.timer = CountDown(@)]
  /\ subscriptions' = [k \in Keys |->
                         IF Subscribed(k) THEN [subscriptions[k] EXCEPT !.timer = CountDown(@)]
                         ELSE NotSubscribed]
  /\ UNCHANGED <<pc, cursor, registry, status, intruded>>

-----------------------------------------------------------------------------
Init ==
  /\ queue = <<>> /\ current = NoCommand /\ pc = "receive" /\ cursor = 1
  /\ subscriptions = [k \in Keys |-> NotSubscribed]
  /\ registry \in [Devices -> {"absent", "usable"}]
  /\ status = [r \in Requests |-> "unsent"]
  /\ intruded = FALSE

LoopTask ==
  \/ Receive
  \/ Postpone
  \/ ProcessActionScan
  \/ ProcessActionRead
  \/ ProcessActionSubscribe
  \/ ProcessActionUnsubscribe
  \/ ProcessActionRestart
  \/ SubscriptionsLoop

MqttTask ==
  \E r \in Requests :
    \/ MalformedMessage(r)
    \/ UnreadableAddress(r)
    \/ \E c \in ClientCommands : MqttMessage(r, c)

Next == LoopTask \/ MqttTask \/ Tick

Spec == Init /\ [][Next]_vars

\* The Arduino core calls loop() for ever and the clock never stops; nothing
\* obliges a client to send anything.
FairSpec == Spec /\ WF_vars(LoopTask) /\ WF_vars(Tick)

-----------------------------------------------------------------------------
\* ---- Properties ----

Holds(r)   == current # NoCommand /\ current.id = r
Carries(r) == \E i \in DOMAIN queue : queue[i].id = r

\* The request r is under way in exactly one place: one element of the queue,
\* or the loop task's hands.
CarriedOnce(r) ==
  /\ Carries(r) \/ Holds(r)
  /\ Holds(r) => ~Carries(r)
  /\ \A i, j \in DOMAIN queue : queue[i].id = r /\ queue[j].id = r => i = j

\* A request that waits for its answer travels as exactly one command, through
\* every postponement and both passes of a read; once it was answered, refused or
\* lost, no command of it is left that could answer a second time.  Only an
\* acknowledged subscribe may have any number of commands (its reads) under way.
OneCarrierPerRequest ==
  \A r \in Requests :
    /\ status[r] = "pending" => CarriedOnce(r)
    /\ status[r] \notin {"pending", "subscribed", "updated"} => ~Carries(r) /\ ~Holds(r)

\* While the loop task holds a command, the slot it came from is still free for it
\* unless the MQTT task has enqueued something in between: nothing the loop task
\* does on its own can cost a delayed command its place.
SlotReserved == pc = "process" /\ ~intruded => Room

\* Only a reboot takes the loop task from a handler straight back to the queue, or
\* loses a message nobody has answered or accepted.
Rebooting ==
  \/ pc = "process" /\ pc' = "receive"
  \/ \E r \in Requests : status[r] = "unsent" /\ status'[r] = "lost"

\* A request is lost on its way back into the queue only if the MQTT task slipped
\* in after the receive, or if the chip rebooted.
LostOnlyToIntruder ==
  [][\A r \in Requests :
       status[r] = "pending" /\ status'[r] = "lost" => intruded \/ Rebooting]_vars

\* The command a subscription stores always starts from the first pass without a
\* delay, although handlers modify the command they are given: every cyclic read
\* takes a new sample.
SubscriptionsSampleAfresh ==
  \A k \in Keys : Subscribed(k) =>
    LET c == subscriptions[k].command
    IN  /\ c.action = "read" /\ c.sub_action = "None" /\ IsExpired(c.timer)
        /\ Key(c) = k /\ status[c.id] \in {"subscribed", "updated"}

\* Reads of a subscription to k under way: a read of a client is "pending".
CyclicRead(cmd, k) == cmd.action = "read" /\ Key(cmd) = k /\ status[cmd.id] # "pending"
InFlight(k) ==
  Cardinality({i \in DOMAIN queue : CyclicRead(queue[i], k)}) +
    (IF current # NoCommand /\ CyclicRead(current, k) THEN 1 ELSE 0)

\* After an unsubscribe the reads still under way drain: their number never grows
\* in a step that ends without the subscription.
QuietAfterUnsubscribe ==
  [][\A k \in Keys : ~Subscribed(k)' => InFlight(k)' <= InFlight(k)]_vars

\* Whatever the load, a request that was accepted does not stay in the queue for
\* ever: it is answered, fails, is dropped, or (a family without devices) ends
\* in silence.
AcceptedRequestsFinish ==
  \A r \in Requests : status[r] = "pending" ~> status[r] # "pending"

\* The loop task is about to work on a read of the subscription to k.
WorksFor(k) == pc = "process" /\ IsExpired(current.timer) /\ CyclicRead(current, k)

\* The cyclic updates the README promises: as long as a subscription stands, the
\* loop task works on one of its reads again and again.
CyclicReadsGoOn ==
  \A k \in Keys : <>[]Subscribed(k) => []<>WorksFor(k)

\* They do come for a subscription that stands alone, with whatever interval, load
\* and history: requests that came before it, other subscriptions that were
\* cancelled or lost in a restart, the reads they have left in the queue.
LoneSubscriptionGoesOn ==
  \A k \in Keys :
    <>[](Subscribed(k) /\ \A j \in Keys \ {k} : ~Subscribed(j)) => []<>WorksFor(k)

=============================================================================
