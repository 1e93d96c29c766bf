------------------------------- MODULE Ds2484 -------------------------------
(***************************************************************************)
(* The way from a 1-wire operation to the lines: the I2C bus, the TCA9548A *)
(* multiplexer and one DS2484 bus master per channel (src/firmware/src/    *)
(* i2c).  All bus masters have the same I2C address, so an access reaches  *)
(* whichever of them the multiplexer has selected.  An operation of the    *)
(* driver is a series of transfers, any of which may fail, with or without *)
(* having had its effect; meanwhile the chip works on its own and refuses  *)
(* commands.  The chips and the multiplexer keep their state over a        *)
(* restart of the firmware.                                                *)
(*                                                                         *)
(* One action is one access: the selection of the channel and the transfer *)
(* behind it.  Only the loop task uses the I2C bus.  The adjustments of    *)
(* the 1-wire port are left out, as no caller changes the default values.  *)
(***************************************************************************)
EXTENDS Naturals, Sequences

CONSTANTS
  BusCount,    \* channels in use, set up in this order
  Answers,     \* bytes and triplets the lines may answer
  NoAnswer,
  MaxPolls,    \* status reads before a wait is given up (10 in the firmware)
  Uses         \* the operations called on each channel

ASSUME BusAssumption ==
  /\ BusCount \in Nat \ {0} /\ MaxPolls \in Nat \ {0}
  /\ Answers \subseteq Nat /\ Answers # {} /\ NoAnswer \notin Answers
ASSUME UseAssumption ==
  Uses \subseteq {"reset", "write", "read", "triplet"} \X (1 .. BusCount)

Channels   == 1 .. BusCount
NoChannel  == 0
Operations == {"begin", "reset", "write", "read", "triplet"}

VARIABLES
  ready,            \* is_initialized_ of the I2C bus and of the multiplexer
  current_channel,  \* current_channel_ of Tca9548aDevice
  selected,         \* chip: the channel the multiplexer connects
  chips,            \* chip: the DS2484 of each channel
  setup,            \* the channel OneWireSystem::Begin sets up next, 0 at power-on
  call,             \* the operation of the driver under way, or done last
  lines             \* history: activities on any lines since the call began

vars == <<ready, current_channel, selected, chips, setup, call, lines>>

\* ---- The DS2484 chip ----

OneWireCommands == {"reset", "write", "read", "triplet"}
Pointers        == {"status", "data", "config", "port"}
Nothing         == [cmd |-> "none"]
AnswersTo(cmd)  == IF cmd \in {"read", "triplet"} THEN Answers ELSE {NoAnswer}
Works           == UNION {[cmd : {c}, answer : AnswersTo(c)] : c \in OneWireCommands}

Chips == [work : Works \cup {Nothing},  \* 1WB: the activity under way
          pointer : Pointers,           \* the register a read returns
          data : Answers,               \* read data register
          bits : Answers,               \* SBR, TSB and DIR of the status register
          configured : BOOLEAN]         \* the config register holds our value

Busy(ch) == chips[ch].work # Nothing

\* While it works on the lines, the chip accepts only a reset or a read pointer.
Acknowledges(chip, cmd) ==
  chip.work = Nothing \/ cmd \in {"device_reset", "to_data", "to_port"}

Executed(chip, cmd, a) ==
  CASE cmd \in OneWireCommands -> [chip EXCEPT !.work = [cmd |-> cmd, answer |-> a], !.pointer = "status"]
    [] cmd = "device_reset"    -> [chip EXCEPT !.work = Nothing, !.pointer = "status", !.configured = FALSE]
    [] cmd = "config"          -> [chip EXCEPT !.pointer = "config", !.configured = TRUE]
    [] cmd = "to_data"         -> [chip EXCEPT !.pointer = "data"]
    [] cmd = "to_port"         -> [chip EXCEPT !.pointer = "port"]

\* What a read of one byte returns: bit 0, which is 1WB in the status register
\* and the active pull-up in the config register, and the rest.
Register(chip) ==
  CASE chip.pointer = "status" -> [bit0 |-> chip.work # Nothing, rest |-> chip.bits]
    [] chip.pointer = "data"   -> [bit0 |-> chip.data % 2 = 1, rest |-> chip.data]
    [] chip.pointer = "config" -> [bit0 |-> chip.configured, rest |-> NoAnswer]
    [] chip.pointer = "port"   -> [bit0 |-> FALSE, rest |-> NoAnswer]

\* The activity ends; its answer is in the registers.
Finished(chip) ==
  [chip EXCEPT !.work = Nothing,
               !.data = IF chip.work.cmd = "read" THEN chip.work.answer ELSE @,
               !.bits = IF chip.work.cmd = "triplet" THEN chip.work.answer ELSE @]

Complete(ch) ==
  /\ Busy(ch)
  /\ chips' = [chips EXCEPT ![ch] = Finished(@)]
  /\ UNCHANGED <<ready, current_channel, selected, setup, call, lines>>

-----------------------------------------------------------------------------
\* ---- Tca9548aDevice and Tca9548aI2CBus ----

\* Mutant: the channel is remembered before the multiplexer has confirmed it.
SwitchRemembering(ch, ok) ==
  \/ ~ready /\ ~ok /\ UNCHANGED <<selected, current_channel>>
  \/ ready /\ ch = current_channel /\ ok /\ UNCHANGED <<selected, current_channel>>
  \/ /\ ready /\ ch # current_channel /\ current_channel' = ch
     /\ \/ selected' = ch
        \/ ~ok /\ UNCHANGED selected

\* The channel is written to the multiplexer; nothing ever sets current_channel_,
\* so this happens for each access.
SwitchToChannel(ch, ok) ==
  /\ \/ ~ok /\ UNCHANGED selected
     \/ ready /\ ch # current_channel /\ selected' = ch
  /\ UNCHANGED current_channel

\* A command reaches the selected chip, whose acknowledgement may get lost.
Deliver(ch, cmd, ok) ==
  \/ ~ok /\ UNCHANGED <<chips, lines>>
  \/ /\ ch # NoChannel /\ Acknowledges(chips[ch], cmd)
     /\ \E a \in AnswersTo(cmd) :
          /\ chips' = [chips EXCEPT ![ch] = Executed(@, cmd, a)]
          /\ lines' = IF cmd \in OneWireCommands
                        THEN Append(lines, [activity |-> cmd, ch |-> ch, answer |-> a])
                        ELSE lines

\* Tca9548aI2CBus::writev
Write(cmd, ok) ==
  \/ ~ok /\ SwitchToChannel(call.ch, FALSE) /\ UNCHANGED <<chips, lines>>
  \/ SwitchToChannel(call.ch, TRUE) /\ Deliver(selected', cmd, ok)

\* Tca9548aI2CBus::readv; Received is what it reads if it succeeds.
Read(ok) ==
  /\ \/ ~ok /\ \E switched \in BOOLEAN : SwitchToChannel(call.ch, switched)
     \/ ok /\ SwitchToChannel(call.ch, TRUE) /\ selected' # NoChannel
  /\ UNCHANGED <<chips, lines>>

Received == Register(chips[selected'])

-----------------------------------------------------------------------------
\* ---- Ds2484Device ----

\* polls is retry_nr, ok is result, ports says whether ow_port_config holds the
\* values of the chip.
Calls == [op : Operations, ch : Channels, polls : 0 .. MaxPolls - 1, ok : BOOLEAN,
          answer : Answers \cup {NoAnswer}, ports : BOOLEAN,
          step : {"device_reset", "reset_poll", "config", "read_back",      \* ResetDevice
                  "to_port", "read_port", "to_port_again", "read_port_again",
                  "poll_before", "command", "poll", "to_data", "read_data", "done"}]

NoCall   == [op |-> "none", step |-> "done"]
Idle     == call.step = "done"
At(step) == call.step = step

FirstStep(op) == CASE op = "begin"   -> "device_reset"
                   [] op = "triplet" -> "poll_before"
                   [] OTHER          -> "command"

Called(op, ch) ==
  /\ Idle
  /\ call' = [op |-> op, ch |-> ch, step |-> FirstStep(op), polls |-> 0, ok |-> TRUE,
              answer |-> NoAnswer, ports |-> FALSE]
  /\ lines' = <<>>
  /\ UNCHANGED <<ready, current_channel, selected, chips>>

\* OneWireSystem drives the bus masters once they are set up, whatever came of it.
Operate(op, ch) == setup > BusCount /\ Called(op, ch) /\ UNCHANGED setup

GoOn(step) == [call EXCEPT !.step = step, !.polls = 0]
Return(ok, answer) == [call EXCEPT !.step = "done", !.polls = 0, !.ports = FALSE,
                                   !.ok = ok, !.answer = answer]

\* ResetDevice returns; Begin resets the lines in any case.
DeviceResetDone(ok) == [call EXCEPT !.step = "command", !.polls = 0, !.ports = FALSE, !.ok = ok]

Driver == UNCHANGED <<ready, setup>>

ResetDevice ==
  /\ At("device_reset") /\ Driver
  /\ \E ok \in BOOLEAN :
       /\ Write("device_reset", ok)
       /\ call' = IF ok THEN GoOn("reset_poll") ELSE DeviceResetDone(FALSE)

WriteDeviceConfig ==
  /\ At("config") /\ Driver
  /\ \E ok \in BOOLEAN :
       /\ Write("config", ok)
       /\ call' = IF ok THEN GoOn("read_back") ELSE DeviceResetDone(FALSE)

\* The active pull-up is the only bit we set.
ReadBackConfig ==
  /\ At("read_back") /\ Driver
  /\ \E ok \in BOOLEAN :
       /\ Read(ok)
       /\ call' = IF ok /\ Received.bit0 THEN GoOn("to_port") ELSE DeviceResetDone(FALSE)

\* ReadOneWirePortConfig, before and after the (absent) adjustments; its result is
\* ignored, and the values are compared after the second time.
SetReadPointerToPort ==
  /\ At("to_port") \/ At("to_port_again")
  /\ Driver
  /\ \E ok \in BOOLEAN :
       /\ Write("to_port", ok)
       /\ call' = CASE At("to_port")             -> GoOn(IF ok THEN "read_port" ELSE "to_port_again")
                    [] At("to_port_again") /\ ok -> GoOn("read_port_again")
                    [] OTHER                     -> DeviceResetDone(call.ports)

ReadPort ==
  /\ At("read_port") \/ At("read_port_again")
  /\ Driver
  /\ \E ok \in BOOLEAN :
       /\ Read(ok)
       /\ call' = IF At("read_port")
                    THEN [GoOn("to_port_again") EXCEPT !.ports = ok]
                    ELSE DeviceResetDone(call.ports \/ ok)

\* Mutant: the caller of a write does not wait for the lines.
CommandedWithoutWait(ok) ==
  IF ok /\ call.op # "write" THEN GoOn("poll") ELSE Return(ok, NoAnswer)

\* Mutant: a read fetches its byte at once.
CommandedHasty(ok) ==
  IF ok THEN GoOn(IF call.op = "read" THEN "to_data" ELSE "poll") ELSE Return(FALSE, NoAnswer)

\* Write8 waits for the lines even if its command failed, the others give up.
Commanded(ok) ==
  IF ok \/ call.op = "write" THEN [GoOn("poll") EXCEPT !.ok = @ /\ ok]
  ELSE Return(FALSE, NoAnswer)

WriteCommand ==
  /\ At("command") /\ Driver
  /\ \E ok \in BOOLEAN :
       /\ Write(IF call.op = "begin" THEN "reset" ELSE call.op, ok)
       /\ call' = Commanded(ok)

\* Mutant: one poll too many.
LastPollLate == call.polls >= MaxPolls

LastPoll == call.polls + 1 >= MaxPolls

PollAgain == [call EXCEPT !.polls = @ + 1]

\* Mutant: a wait that was given up starts anew.
WaitFailedStubbornly == GoOn(call.step)

WaitFailed == IF At("reset_poll") THEN DeviceResetDone(FALSE) ELSE Return(FALSE, NoAnswer)

WaitOver ==
  CASE At("reset_poll")                    -> GoOn("config")
    [] At("poll_before")                   -> GoOn("command")
    [] At("poll") /\ call.op = "read"      -> GoOn("to_data")
    [] At("poll") /\ call.op = "triplet"   -> Return(TRUE, Received.rest)
    [] OTHER                               -> Return(call.ok, NoAnswer)

\* One round of the loop in ReadStatus.
ReadStatus ==
  /\ At("reset_poll") \/ At("poll_before") \/ At("poll")
  /\ Driver
  /\ \E ok \in BOOLEAN :
       /\ Read(ok)
       /\ call' = CASE ~ok                       -> WaitFailed
                    [] ok /\ ~Received.bit0      -> WaitOver
                    [] ok /\ Received.bit0       -> IF LastPoll THEN WaitFailed ELSE PollAgain

SetReadPointerToData ==
  /\ At("to_data") /\ Driver
  /\ \E ok \in BOOLEAN :
       Write("to_data", ok) /\ call' = IF ok THEN GoOn("read_data") ELSE Return(FALSE, NoAnswer)

ReadData ==
  /\ At("read_data") /\ Driver
  /\ \E ok \in BOOLEAN :
       Read(ok) /\ call' = IF ok THEN Return(TRUE, Received.rest) ELSE Return(FALSE, NoAnswer)

-----------------------------------------------------------------------------
\* ---- OneWireSystem::Begin and restarts ----

\* The bus is recovered and the multiplexer answers, or they do not; the results
\* are ignored, and nothing tries again before the next restart.
SystemBegin ==
  /\ setup = 0
  /\ ready' \in BOOLEAN
  /\ setup' = 1
  /\ UNCHANGED <<current_channel, selected, chips, call, lines>>

SetupBusMaster ==
  /\ setup \in Channels
  /\ Called("begin", setup)
  /\ setup' = setup + 1

\* The firmware restarts at any moment; the chips go on.
Reboot ==
  /\ setup # 0
  /\ ready' = FALSE /\ current_channel' = NoChannel /\ setup' = 0
  /\ call' = NoCall /\ lines' = <<>>
  /\ UNCHANGED <<selected, chips>>

-----------------------------------------------------------------------------
PoweredUp == [work |-> Nothing, pointer |-> "status", data |-> CHOOSE a \in Answers : TRUE,
              bits |-> CHOOSE a \in Answers : TRUE, configured |-> FALSE]

Init ==
  /\ ready = FALSE /\ current_channel = NoChannel /\ setup = 0
  /\ selected = NoChannel
  /\ chips = [ch \in Channels |-> PoweredUp]
  /\ call = NoCall /\ lines = <<>>

DriverStep ==
  \/ ResetDevice \/ WriteDeviceConfig \/ ReadBackConfig \/ SetReadPointerToPort \/ ReadPort
  \/ WriteCommand \/ ReadStatus \/ SetReadPointerToData \/ ReadData

Next ==
  \/ DriverStep
  \/ SystemBegin \/ SetupBusMaster
  \/ \E use \in Uses : Operate(use[1], use[2])
  \/ \E ch \in Channels : Complete(ch)
  \/ Reboot

Spec == Init /\ [][Next]_vars

\* The loop task runs on; nothing obliges a chip to finish, or anyone to call.
FairSpec == Spec /\ WF_vars(DriverStep)

-----------------------------------------------------------------------------
\* ---- Properties ----

TypeOK ==
  /\ ready \in BOOLEAN
  /\ current_channel \in Channels \cup {NoChannel}
  /\ selected \in Channels \cup {NoChannel}
  /\ chips \in [Channels -> Chips]
  /\ setup \in 0 .. BusCount + 1
  /\ call \in Calls \cup {NoCall}
  /\ lines \in Seq([activity : OneWireCommands, ch : Channels, answer : Answers \cup {NoAnswer}])

Succeeded == IF call # NoCall THEN Idle /\ call.ok ELSE FALSE

\* The driver learns from bit 0 of whatever register the read pointer selects
\* whether the lines are busy.  It is never misled: a chip at work has its pointer
\* on the status register, over failed and given-up calls and over restarts.
BusyIsVisible == \A ch \in Channels : Busy(ch) => chips[ch].pointer = "status"

\* After a successful operation the bus master is at rest, so that no activity of
\* it can run into the next one or refuse its command.
SuccessLeavesIdle == Succeeded => ~Busy(call.ch)

\* What a caller of the bus master sees of a call.
CallSeen ==
  CASE call = NoCall -> [op |-> "none"]
    [] ~Idle         -> [op |-> call.op, ch |-> call.ch, state |-> "running"]
    [] Succeeded     -> [op |-> call.op, ch |-> call.ch, state |-> "done", answer |-> call.answer]
    [] OTHER         -> [op |-> call.op, ch |-> call.ch, state |-> "failed"]

Master == INSTANCE OneWireMaster WITH
  call <- CallSeen, configured <- {ch \in Channels : chips[ch].configured}

\* A successful call has caused exactly the activity it was made for, on its own
\* lines, and returns their answer to it, not an older one; whatever fails, no other
\* channel is disturbed; and a begin that succeeds has configured its chip.
RefinesMaster == Master!Spec

\* With a chip that never comes to rest, and with failing transfers, every operation
\* of the driver returns.
CallsEnd == ~Idle ~> Idle

=============================================================================
