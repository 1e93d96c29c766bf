# 1w-If in TLA+

1w-If is the firmware of an ESP32 board that makes 1-wire sensors available over
ethernet and MQTT. This directory models the parts of it in which the order of
events decides whether it works, checks them with TLC, and proves some of the
results with TLAPS. Paths below are relative to `src/firmware/src` unless they
begin with `src/`.

Contents: [the system](#the-system) · [what is hard](#what-is-hard) ·
[modules and code](#modules-and-code) · [runs](#runs) ·
[disagreements found](#disagreements-found) · [fairness](#fairness) ·
[proofs](#proofs) · [what is left out](#what-is-left-out) · [plan](#plan) ·
[running it](#running-it)

## The system

Three FreeRTOS tasks execute the code, and nothing but the command queue and the
mutex of the web socket logger is meant for use by more than one of them:

| task | runs | enters the code at |
|---|---|---|
| Arduino loop task | `owif_loop`: `Loop` of every subsystem, for ever | `main.cpp:90` |
| AsyncTCP task | callbacks of the MQTT client and handlers of web requests, one after the other | `MqttClient::On...`, `WebServer::Handle...` |
| event task | ethernet events, and the handlers that OTA, web server and MQTT client registered for them | `Ethernet::OnEthernetEvent` |

| component | state | operations | what makes it correct |
|---|---|---|---|
| command layer (`cmd/`) | queue of 100 commands; the command in hand; per subscription a delay, a timer and a command | enqueue; `Loop`: take one command, postpone, dispatch, queue reads of expired subscriptions; read in two passes; scan, presence, subscribe, unsubscribe, restart | a request is answered at most once and never forgotten in silence by the loop task; subscriptions go on, sample anew and stop |
| request parsing (`mqtt/mqtt_message_handler`, `cmd/json_*`) | none | JSON message to command, command to JSON response | every message becomes a command or an error |
| timer (`cmd/timer`) | deadline on a wrapping counter | `Reset`, `IsExpired` | expires with its delay |
| 1-wire search (`one_wire/one_wire_bus`, `ds2484_one_wire_bus`) | address, last discrepancy, last-device flag | reset, one pass (64 triplets), search for all, a family, a device | finds each device once, invents none, ends |
| 1-wire system (`one_wire/one_wire_subsystem`) | list of available devices, with the bus each was created on | initial scan, scan, scan family, scan device | the list is what is on the buses |
| devices (`one_wire/ds18b20`, `ds2438`, `ds2411`) | converters, registers and the DS2438's input bit are in the chips | start a conversion, of one chip or of all by a broadcast; read the result | a read delivers the value it asked for, sampled for it |
| MQTT connection (`mqtt/mqtt_client`), ethernet | connection states, `reconnect_time_`, last will | connect, disconnect, reconnect after a delay, announce online | connected again after any loss; online means that commands are heard |
| web server (`web_server/`) | sessions, `restart_time_` | login, logout, pages, save, restart, upload | sessions end, restarts come when they should, a save is complete |
| persistency (`config/`) | values in flash; one `Preferences` object | load and store a section | values go where they belong |
| logging (`logging/`) | line buffer, ring of log lines | write a string, write a character, replay to a new browser | the latest lines in their order, none missed |
| I2C (`i2c/`) | channel of the multiplexer, registers of the bus masters (in the chips) | select, read, write; of a bus master: begin, reset, write, read, triplet | each operation reaches its channel, happens once, and returns its own answer |
| addresses and CRC, OTA, NTP, status LED, abort handlers | none of their own | | |

How they interact:

- `MqttClient` passes a message on the command topic to `MqttMessageHandler`,
  which parses it and calls `CommandHandler::EnqueueCommand` **on the AsyncTCP
  task**. `CommandHandler::Loop` takes it out on the loop task and calls the
  handler of the action; the response is published from there.
- A handler that has to wait for a conversion puts its command back into the same
  queue with a timer and the sub-action `ReadResult`; so does the loop for every
  command whose timer still runs. `SubscriptionsManager::Loop`, also on the loop
  task, queues a copy of the stored read whenever a subscription's timer expires.
- Handlers look up devices in `OneWireSystem`; scans, caused by requests on the
  same task, change the list in between the two passes of a read.
- An ethernet event reaches `OtaSystem::SetupOta`, `WebServer` and `MqttClient`,
  in this order, as callbacks on the event task.
- `HandleSave` and `SetupOta` use the same `Persistency` from two tasks.
- The 1-wire layer drives one DS2484 bus master per channel through
  `Tca9548aI2CBus`, which selects the channel of the multiplexer before each access.
  All bus masters have the same I2C address. Only the loop task uses the I2C bus.
- Every task logs, through `Logger`, the ArduinoLog library, `MultiLogger` and
  `WebSocketLogger`; the AsyncTCP task replays the history to a new client.

## What is hard

`PROJECT.json` lists the hazards line by line. In short: the loop task takes a
command out of the queue before it knows whether it may keep it, and another task
fills the queue meanwhile; reads of different attributes of one chip overlap and
share its converters and registers; devices come and go; transactions fail half-way,
and what follows runs on; three tasks handle the loss of a connection without a lock;
two tasks use one `Preferences` object and one `std::map`; several log at once, partly
without the mutex; bus masters go on with their work while calls are given up, channels
fail to switch and the firmware restarts; `millis()` wraps after 49.7 days; a restart
interrupts whatever is going on.

## Modules and code

| module | models | one action per | composed with |
|---|---|---|---|
| `CommandHandler` | `cmd/`, and of `MqttMessageHandler` the enqueueing | message (of the AsyncTCP task), step of `Loop`, handler | assumes of scans what `DeviceRegistry` says, of timers what `Timer` shows |
| `Timer` | `cmd/timer` | `Reset`, millisecond | |
| `OneWireSearch` | `OneWireBus::Search`, `Ds2484OneWireBus`, triplets of `Ds2484Device` | reset, triplet, failure, plug | |
| `OneWireSystem` | `OneWireSystem::Scan...`, `CreateDevice`, `GetAvailableDevice...` | bus searched, end of a scan, plug | implements `DeviceRegistry` |
| `DeviceRegistry` | abstract specification: what scans may do to the list | scan step | |
| `Sampling` | `Ds18b20` and `Ds2438`: starting conversions and fetching values, by the handlers' passes | pass of a read, tick of the converters, scan | queue as in `CommandHandler` |
| `Ds2484` | `Ds2484Device`, `Tca9548aI2CBus`, `Tca9548aDevice`, `ArduinoI2CBus`, setup of the channels; the chips as external | I2C access, step of `OneWireSystem::Begin`, end of an activity, restart | implements `OneWireMaster` |
| `OneWireMaster` | abstract specification: what a caller of a bus master may rely on | | |
| `WebSocketLogger` | `WebSocketLogger`, `MultiLogger`, of `Logger` the pieces it prints; AsyncWebSocket as external | entering or leaving a write or the replay, event of the library | implements `LineLog` |
| `LineLog` | abstract specification: the last lines, in order | | |
| `MqttClient` | `MqttClient`, `Ethernet`; AsyncMqttClient and the broker as external | callback, part of `Loop`, packet | |
| `Persistency` | `config/persistency`; `Preferences` as external | call to `Preferences` | extended by `WebServer` |
| `WebServer` | `web_server/web_server`, `OtaSystem::SetupOta` | request, call to `Preferences`, half of `Loop` | extends `Persistency` |
| `MC...` | instances for TLC | | |
| `...Proofs` | theorems about the module of that name; `SamplingProofs` also about `Timer`, `WebServerProofs` about `Persistency` | | |

Variables have the names of the code (`queue` is `command_queue_`, `registry` is
`ow_available_devices_`). Variables marked *history* in a module are not in the
code: they record what properties refer to. Variables marked *bound* count what
the constants `Max...` limit. Operators marked *Mutant* are not part of a model:
each is a plausible bug, and a property of the run is violated when it takes the
place of the definition that follows it. Abstractions worth knowing:

- **CommandHandler.** The loop task's `pc` cuts `Loop` at the only points where
  another task can be seen: between receiving a command, handling it and walking
  through the subscriptions. The handler itself runs on as one step, since
  no other task shares the state it uses but the queue, to which it adds one command
  at most. A timer is the ticks it has left. Whether the 1-wire bus
  answers is a choice. A handler that lists a device whose setup failed dereferences
  a null pointer (`one_wire_subsystem.cpp:298`), which reboots the chip: `Reboot`. A
  message with a `device_id` of 15 characters that are no hexadecimal number reboots it
  too, by an exception nobody catches (`one_wire_address.cpp:34`): `UnreadableAddress`. The
  terminate handler flashes the LED for some seconds before it restarts, in which the loop
  task goes on and no other message is handled; the model handles the message at the restart.
- **OneWireSearch.** An address is a sequence of bits; the CRC is the last of
  them, as the fact that no two devices differ in it alone. Noise that garbles an
  address, caught by the CRC, is not modelled. A client may have any address searched,
  also `00.000000000000`, which is 0 with the right CRC and no device.
- **OneWireSystem.** A search of a bus is one step with the results
  `OneWireSearch` has: all of the wanted devices, some of them as a success, or
  some and an error. The address 0 (`Zero`) is a member of `Devices` that is never plugged in
  and that a search for it reports whenever nobody answers (`MayReport`).
- **Sampling.** A conversion started while one of the same converter is under way
  replaces it. A chip obeys Skip ROM whatever its family, since the command codes of the
  families are the same. The history variables `owner` and `fresh` say who touched a
  converter last and which waiting reads began before a value was sampled. Requests
  may be sent again as long as a family without devices leaves them without an answer.
- **Ds2484.** `Write` and `Read` include the selection of the channel. A transfer that
  fails may have had its effect all the same. The chip is modelled from its use: while it
  works on the lines it takes only a reset or a read pointer, and how long it
  works is open, so that ten polls (three in the run) may be too few. `lines` is
  what all lines have seen since the call began. `ready` stands for
  `is_initialized_` of bus and multiplexer together.
- **WebSocketLogger.** ArduinoLog prints the text of a message character by character,
  and `write(uint8_t)` takes no mutex; time stamp and line end are strings, except in the
  progress of an update, whose text contains the line end. A task is inside a write between
  `Enter...` and the action that follows. If two are inside and use the same data, C++
  leaves the outcome open: both effects, one of them lost (`LosePiece`), or a
  crash (`Panic`). Only one client is followed; others see the same.
- **MqttClient.** A packet handed to the library while connected arrives in
  order, or is lost with the connection. The will is published when the broker gives a
  session up. `ETH_STOP` is never posted because nothing stops the driver.
- **Persistency.** What a task has to do is a list of sections to load or store (`todo`), and
  how far it is with the first of them a number of calls (`calls`): begin, one per key, end.
- **WebServer.** At the start every field has a value in flash. Values are known by
  the field they were meant for and by whether they were stored, entered or a default.
  A request on a connection that outlived a loss of the link can arrive while `SetupOta` runs. Uses of `sessions_` by
  the AsyncTCP task during a pass of `Loop` are undefined in C++; the model takes
  each by itself and lets the firmware panic, that is reboot, any time later. Scans and
  requests of other subsystems hold the loop task up between two passes, for `LoopPause` at
  most; the time within a pass, which takes microseconds, is not counted.
  Handlers that find no session do what `HandlePage` does.

## Runs

All passing runs are exhaustive for their bounds, and together they take every
action.

| run | what it shows | bounds, and why they are enough |
|---|---|---|
| `command` | `OneCarrierPerRequest`: a waiting request is exactly one command, and nothing answers a second time. `SlotReserved`, `LostOnlyToIntruder`: a delayed command loses its place only if the AsyncTCP task enqueued in between (or by a reboot). `SubscriptionsSampleAfresh`, `QuietAfterUnsubscribe`. `AcceptedRequestsFinish`: what is in the queue leaves it. `LoneSubscriptionGoesOn`: the only subscription is read again and again | queue of 2, 3 messages: a full queue with one command in hand and one intruder. Device and family requests, supported and unsupported attributes, a subscription of a device every two ticks and one of a family without pause, which keeps the queue full |
| `command_starvation` | violated: `CyclicReadsGoOn` with a second subscription | two subscriptions |
| `timer` | `ExpiresWithItsDelay`: expired exactly when the delay has passed; while only the deadline or only the clock has wrapped, a period early or late | a clock of 16 with delays up to 15 and 40 units of time: the deadline wraps, and the clock twice |
| `one_wire_search` | `NoneSkipped`, `UndisturbedSearchIsComplete`, `NoPhantoms`, `SearchEnds` | 4 bits give 7 addresses in a tree with branches at every level, in both families; up to 4 present, one plugged in or out at any triplet; searches for any address and for 0 |
| `one_wire_system` | `NoGhosts`, `AnsweringBusesKept`, `DeviceScanRefreshesBus`; `RefinesRegistry` | two buses: one that fails before or after another; a device moved during a scan; two thermometers, which are symmetric, a device without setup, and the address 0 |
| `one_wire_system_drops` | violated: `DropsOnlyMissing` for devices that were listed before | as above, but nobody moves a device |
| `sampling` | `OwnSampleIsRight`: a read no other has disturbed delivers its own sample, of the right input, finished. `FreshUnlessInterrupted`: whatever others do, a value is sampled after its read began, unless a conversion was interrupted | a thermometer and a monitor, four reads (either voltage, the thermometer's temperature, a broadcast), a scan in between; the slower chip converts as long as its delay, the other for half of it |
| `mqtt_client` | `OnlineMeansListening`, `ReconnectsForGood` | the link up three times and down twice, two other failures: a loss during the recovery from a loss |
| `web_server` | `SaveInOrder`, `RestartKeepsDelay`, `SessionsLastTimeout`, `RestartComes`, `IdleSessionsEnd` | two sections that share a key, one save that sets a field of each and leaves the shared key of one, one loss of the link; a clock of 4 with a restart after 2, sessions of 1 and a loop task that passes after 2 at the latest: deadlines before, at and after the wrap, and missed ones; reboots at any time without a bound |
| `web_server_save` | violated: `AllPartsUpdated` | as above, with a clock of 3 and a loop task that passes at each of its values |
| `ds2484` | `RefinesMaster`: a successful call has caused exactly its activity on its own lines and returns their answer to it; a failed one that or nothing; a successful begin has configured the chip. `BusyIsVisible`, `SuccessLeavesIdle`; `CallsEnd` | two channels, all operations on one and reads on the other, which a wrong channel would disturb; three polls; answers 0 and 1, so that bit 0 of a data register can be taken for "busy"; failures and restarts without a bound |
| `web_log` | `RefinesLog`: line buffer and ring keep the last lines in order until a race. `NoLineMissed`: from the oldest line replayed on, a client has been sent every one, unless its queue overflowed. `HistoryIsGuarded`: ring and replay overlap only with the progress of an update | two tasks, a ring of 2 and 5 lines: the ring wraps twice; a client queue of 3, one more than the ring as in the code |

`CHECK_DEADLOCK FALSE` stands where a system without further requests, failures or
link changes has nothing to do: `sampling` and `mqtt_client`.

## Disagreements found

- **A subscription may starve** (`command_starvation`). `SubscriptionsManager::Loop`
  resets the timer of an expired subscription also if the queue had no room for the
  read. `src/README.md:228` promises a read per interval. A subscription of interval
  0 visited earlier takes each slot that becomes free.
- **One failing bus drops devices of the others** (`one_wire_system_drops`). `result`
  accumulates over the buses, and a bus searched while it is false adds nothing to
  the addresses that count as present; "Remove missing devices"
  (`one_wire_subsystem.cpp:112`) then takes off the list what was on it, has not been
  touched and has answered.
- **"All parts updated" without being so** (`web_server_save`). If the ethernet
  comes back while a configuration is saved, `SetupOta` closes the section the save
  has open, or the save writes into the section `SetupOta` has open: values are lost
  or stored in the wrong section under a key of the same name, and the response is
  "Stored!". No result of `Preferences` is looked at.

Other behaviour to know of, which contradicts no document: a read of a family ends
without a response if no device of it is available
(`ds18b20_command_handler.cpp:97`, status `silent`). A triplet that fails in
the middle of a search ends it as a success (`ds2484_one_wire_bus.cpp:60`). A
device plugged over to another channel keeps its old bus until it is
scanned for by address (`one_wire_subsystem.cpp:127`). If the link is back before the
library has sent its goodbye, the broker discards the will and the status stays
online while the device is away (`mqtt_client.cpp:118`). When `millis()` wraps,
timers started just before expire at once or miss their deadline by
49.7 days; a deadline of `reconnect_time_` or `restart_time_` that comes out as 0
is forgotten, and one of `restart_time_` that wraps restarts the board at once; a
session last used within half an hour before the wrap is not removed until the next reboot.
A deadline so close before the wrap that the loop task, held up by a scan, comes after it
is met a period later, or not at all if it is missed again. A `device_id`
that is no hexadecimal number restarts the board (`one_wire_address.cpp:34`).

Of the search: `SearchNextDevice` returns 0 if nobody answers or a triplet fails, and `Search`
for one device compares that with the address it looks for (`one_wire_bus.cpp:97`). A client that
asks for `00.000000000000` is told that it is present, and a device that does not exist is listed
for it until the next scan (`one_wire_subsystem.cpp:149`). `UndisturbedSearchIsComplete` says
exactly when that happens; `NoPhantoms` and `NoGhosts` except this address and no other.

Of the values of devices: VAD and VDD of one chip share its input bit and its register,
so a VDD read between the two passes of a VAD read makes the latter answer with VDD
(`one_wire/ds2438.cpp:55`); and a broadcast to one family makes the chips of the other
convert anew, so the second pass of a read may come before the end and fetch the
temperature of before, or of power-on (`cmd/ds2438_command_handler.cpp:105`).

Of the I2C layer: `OneWireSystem::Begin` ignores whether bus, multiplexer and bus masters
could be set up and returns true, upon which `main.cpp:76` logs "All sub-subsystems are
initialized"; every operation then fails. `ResetOneWire` does not look at the presence
bit. `switch_to_channel` would report an error for a channel that is already
current, which cannot happen as long as nothing sets `current_channel_`.

Of the logger: the comment at `logging/web_socket_logger.h:47` has the mutex
protect line buffer and history, but `write(uint8_t)` does not take it; lines of two
tasks mix, and a race is possible. A client may see a line twice, live and in the
replay. Not modelled, but seen: the response to an upload asks `Update.hasError()`
although a failed `begin` or `end` may have been only logged (`web_server.cpp:517`).

## Fairness

- `CommandHandler!FairSpec`: weak fairness of the loop task (the Arduino core calls
  `loop()` for ever, and no step of it blocks) and of the clock. None for clients.
- `OneWireSearch!FairSpec`: weak fairness of the steps of a running search.
- `MqttClient!FairSpec`: weak fairness of the three tasks, of the reconnect timer and
  of the network: an attempt on a link that stays ends one way or the other, packets
  arrive, a connection without a session is given up (keep-alive). None for the
  broker noticing a dead session, nor for the link.
- `Ds2484!FairSpec`: weak fairness of the step of the driver (the loop task runs it to
  its end). None for the chip, which may work for ever, nor for the transfers.
- `WebServer!FairSpec`: weak fairness of the loop task, strong fairness of the clock: `Tick`
  is disabled during a pass, and time does not stand still because passes are frequent. That
  the loop task comes after `LoopPause` at the latest is an assumption on the other
  subsystems: none of their steps blocks for ever.

## Proofs

A run checks one small instance; the theorems below hold for every value of the
constants that satisfies the assumptions named in the module, which state no more than
the code does: a queue, a ring and a list of polls are not empty, the families with
handlers differ, no two addresses differ in their CRC alone, and so on. Assumptions that
carry a proof are mentioned with it. In every proof module, an invariant is the
conjunction of the properties and of the named parts that make it inductive; one lemma
per action shows that a step preserves it, and lemmas about the operators of the
model (queues, chips, addresses, the ring) serve several of these.

| module | proved of every instance |
|---|---|
| `CommandHandlerProofs` | `TypeOK`, `SlotReserved`, `LostOnlyToIntruder`, `OneCarrierPerRequest`, `SubscriptionsSampleAfresh`, `QuietAfterUnsubscribe` |
| `OneWireSearchProofs` | `TypeOK`, `NoPhantoms`, `NoneSkipped`, `UndisturbedSearchIsComplete`; a list no longer than there are devices |
| `OneWireSystemProofs` | `TypeOK`, `NoGhosts`, `AnsweringBusesKept`, `DeviceScanRefreshesBus`, `RefinesRegistry` |
| `SamplingProofs` | `TypeOK`, `OwnSampleIsRight`, `FreshUnlessInterrupted`; of `Timer` `ExpiresWithItsDelay`, with its type invariant |
| `MqttClientProofs` | `TypeOK`, `OnlineMeansListening` |
| `Ds2484Proofs` | `TypeOK`, `BusyIsVisible`, `SuccessLeavesIdle`, `RefinesMaster` |
| `WebSocketLoggerProofs` | `TypeOK`, `HistoryIsGuarded`, `NoLineMissed`, `RefinesLog` |
| `WebServerProofs` | `TypeOK`, `SaveInOrder`, `RestartKeepsDelay`, `SessionsLastTimeout`; `AllPartsUpdated` unless `SetupOta` ran during the save; `FieldsStored` |

Where a bound of a model (`Max...`) is a constant, it is as arbitrary as the others: a
theorem covers any number of requests, losses, lines or plugged devices.

**`CommandHandlerProofs`.** `TypeOK` is inductive itself; it contains that the queue
never exceeds its capacity, and that the loop task holds a command exactly in `process`.
`SlotReserved` follows from it and the step in which the loop task receives: the queue is
one shorter then, and only the AsyncTCP task adds to it before the handler runs, which sets
`intruded`. `LostOnlyToIntruder` follows from both: of all steps only a re-queueing and
a reboot make a request `lost`, and `TypeOK` alone would allow a full queue while the
loop task holds a command. `OneCarrierPerRequest` is not inductive: a command of a
subscription, whose request has been answered, must not come back as a second
carrier, and a handler must know that the command it holds is the only one of its request.
`CarrierInv` joins it with `SubscriptionsSampleAfresh` and with `PlainQueue` and
`PlainInHand`, that only a read ever is in a second pass. `QuietAfterUnsubscribe` is an
action property; its handler lemmas show which steps add commands of a subscription.


**`OneWireSearchProofs`.** That a search lists neither a phantom nor with a gap is usually
shown by induction over the tree of addresses. Here the invariant speaks of the bits
a pass has decided so far, and every triplet decides one more. In `NoPhantoms`
(`SoundInv`), the participants of a pass agree with its address in those bits, so at
the last bit the address is that of a device, if any has answered. For `NoneSkipped` and
`UndisturbedSearchIsComplete`, an undisturbed pass knows more (`PassIsFair`): all
devices that agree with it take part; `LastTurn`, that `last_zero` is the last bit at
which it left devices with a one behind; `OnTheWay`, that it has left the path to the
device found before at the last discrepancy; `NothingPassed`, that each wanted device is listed,
ahead, or agrees so far; `InFamily` and `ToDevice`, that the first pass goes straight for
the family or the device, if present. `FrontierInv` carries this from one pass to
the next: the address is that of the device listed last, and the search ends exactly if
`LastTurn` is 0, when nothing is ahead. By `CrcAssumption` no two devices part at the
last bit, where a search of a family or a device puts its first `last_discrepancy`. From the
order and `OnlyWanted` follows `SearchNeedsFewPasses`: an undisturbed list is never longer
than there are devices on the bus, so the loop ends after one pass more (`SearchEnds` is
the liveness property of the run).

**`OneWireSystemProofs`.** The three properties speak of the end of a scan; `ScanInv` says
what is so in the middle: which buses have failed (`FailuresKnown`), that what was found is
where it was found until somebody plugs (`FoundIsThere`), that each device whose bus
answered before the first failure is among it (`AnswersNoted`), and that a scan for one
device goes on only as long as that one is not listed (`NotFoundYet`).
`ImplementsRegistry`: initial states map to initial states and, under `TypeOK`, each step
of a scan to a step of `DeviceRegistry` or a stutter.

**`SamplingProofs`.** Both properties are about the moment a value is fetched, and
hold because a delay is at least the time the chip needs. The invariant says so of
every queued read and every converter it has started: an own conversion that nobody has
touched ends before the timer of the read, and then the register holds its sample
(`OwnKnown`); a conversion under way serves all the reads that wait for it, and
ends in time for each or has interrupted one that would (`FreshKnown`). Excluded are
chips of the other family, started by a broadcast, for which the delay was not made.
`DelayAssumption` is what the comments at `one_wire/ds18b20.h:26` and
`one_wire/ds2438.h:20` say of the constants; without it both properties fail. That a second
pass does not come before its delay has passed is what the end of the module shows of
`Timer`. `ExpiresWithItsDelay` does not say where the deadline is; `TimerInv` adds that
`deadline + elapsed = millis + delay + slip`, where `slip` counts the periods by which
deadline and clock have wrapped.

**`MqttClientProofs`.** Three tasks and the network act on one connection.
`OnlineMeansListening` needs what is on the way to the broker: it is one of eight
sequences, none of an earlier connection (`WireInv`); between the two packets of `OnConnected`
the first is on its way or has arrived, unless the connection was lost (`HandshakeInv`);
and the announcement comes first on the wire only if the session is subscribed.

**`Ds2484Proofs`.** Neither `BusyIsVisible` nor `SuccessLeavesIdle` is inductive. `IInv` joins
them with `Quiet`: at every step after a wait that is over, the chip of the call is
at rest. Each supports the other: a wait is over because bit 0 of what was read is 0,
which says that the chip is at rest only if a chip at work points to its status; and
a pointer is moved away from the status without disturbing that only because the chip
is at rest. `ImplementsMaster` needs `RInv`, which adds the operation each step belongs to,
that `lines` are empty before the command and show exactly the call's own activity after it
(`LinesKnown`), where the answer is, at work in the chip or in its register
(`AnswerKnown`), and that the chip of a begin that may still succeed is configured. A restart, a lost
transfer and the time-out of a wait then map to a failed call, to its end or to nothing.

**`WebSocketLoggerProofs`.** `HistoryIsGuarded` follows from mutual exclusion (`MutexInv`), into
which enters that the kind of a message does not change while it is written.
`NoLineMissed` also needs that the ring holds the last lines by number
(`RingInv`) and, for a client not yet shown the history, that whatever is left in its
queue are the last lines written (`QueueInv`). A full queue cuts the newest lines off the
replay: since the queue is longer than the ring by one, as in the code
(`SizeAssumption`), these are lines it still holds from before. From the replay on, the
client has every line (`ShownInv`), races or not. `ImplementsLog` maps line buffer and
ring to `LineLog`; the indices modulo the size of the ring are resolved by `Wrapped`.

**`WebServerProofs`.** `SaveInOrder` compares the flash with what the save has yet to put, and is
not inductive: a put goes to the section that is open, and it puts what was loaded before. `SaveInv`
adds where the save is in the list of its calls (`SaveFollows`), from which follows that a
section is loaded just before it is stored; that only saves store, and that the event task has
nothing to do during one that it does not disturb (`Purposes`); which section is open
(`OpenKnown`); and that what the save has got and not yet put is still what the flash holds
(`ConfigCurrent`). No section is stored twice and none has a key twice
(`WebServerAssumption`, `KeysAssumption`), so what has been put is not put again. `ConfigFilled`
says that a task puts nothing it has not got. It holds however two tasks disturb each other,
and so does `FieldsStored`: even a spoiled save leaves a value, if a wrong one, in every
field. The theorem `OnlySetupOtaSpoilsSaves` is the counterpart of run `web_server_save`: what that run shows is
the only way to break a save. For the times, `RestartInv` says that a deadline which has not
wrapped is as far from the latest request as it should be until the delay has passed, and
`SessionInv` the same of sessions. A session that is over but not removed is one the loop task
has not got to: its deadline is closer than the last pass (`NotYetRemoved`), unless the
deadline lies so close before the wrap that it may have been missed. A sum that wraps does so
once (`ModWrap`).

The attempts at these proofs found no error in a property, but CASE expressions with
overlapping guards in `Ds2484` and `OneWireSearch`, of which TLC takes the first
alternative while TLA+ leaves the choice open. They are disjoint now. `Persistency` once listed
the single calls of a save, a list flattened by recursion, about which nothing could be
proved; it now lists the sections and counts the calls. Assumptions that the
instance met but the module did not state were found missing: that each section is saved once and
that none has a key twice.

Only model-checked are the liveness properties `AcceptedRequestsFinish`,
`LoneSubscriptionGoesOn`, `SearchEnds`, `ReconnectsForGood`, `RestartComes`, `IdleSessionsEnd`
and `CallsEnd`: fairness and `ENABLED` are beyond the prover. The properties of the three
runs that expect a violation are false, and so not theorems.

## What is left out

| part | why |
|---|---|
| JSON text, topics, timestamps | text; what a request contains is an input of `CommandHandler` |
| addresses as text, CRC | conversions without state, but for the text that cannot be read, which is `UnreadableAddress` |
| scratchpad bytes, CRC and scaling of the devices; DS2411 | conversions without state; the DS2411 has no operation |
| chunks of an upload, `Update` shared with ArduinoOTA | the state is in two libraries whose behaviour the code does not show |
| steps of the I2C bus recovery | a loop over pins; whether it succeeds is a choice |
| `disable_all_channels`, `Scan` and `Read64` of I2C, adjusting the 1-wire port | no caller |
| payloads of messages in several fragments (`mqtt_client.cpp:159`) | how the library cuts them is not in the code |
| serial log, levels, texts and their length | output |
| `ow_available_devices_` read by the web page during a scan | a race with undefined outcome, like that of `sessions_` |
| pages, forms and cookies as text | text; a form is the set of fields it sets |
| NTP, status LED, abort handlers | no state that a property could be about, but for the restart after an uncaught exception |

## Plan

The order of the modules was: the command layer, which every request passes
through; the timer it rests on; the search and the scans, with `DeviceRegistry`
between them and the command layer; the chips that reads share; the connection; the web
server with the persistency; the bus masters below the search, with `OneWireMaster`
between them; the log. Every safety property and refinement that a passing run checks is also
proved. What the plan leaves:

1. `Update`, shared by uploads and ArduinoOTA, once the libraries are at hand.
2. The web page's walk through `ow_available_devices_`, should the list get a lock: now any
   outcome is possible.

## Running it

    tlc -workers 2 -config CommandHandler.cfg MCCommandHandler
    tlapm CommandHandlerProofs.tla

and likewise for the other runs of `PROJECT.json`. Each takes between a second
and two and a half minutes.
