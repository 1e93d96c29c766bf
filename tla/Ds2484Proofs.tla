----------------------------- MODULE Ds2484Proofs -----------------------------
(***************************************************************************)
(* Theorems about Ds2484, for any number of channels, any answers of the   *)
(* lines and any number of polls.                                          *)
(***************************************************************************)
EXTENDS Ds2484, SequenceTheorems, TLAPS

ChipCommands == OneWireCommands \cup {"device_reset", "config", "to_data", "to_port"}

\* At these steps the driver has seen its bus master come to rest.
QuietSteps == {"config", "read_back", "to_port", "read_port", "to_port_again",
               "read_port_again", "to_data", "read_data"}

Quiet == call # NoCall /\ call.step \in QuietSteps => ~Busy(call.ch)

IInv == TypeOK /\ BusyIsVisible /\ SuccessLeavesIdle /\ Quiet

\* What the provers have to know of the state while a call is under way.
CallTyped == TypeOK /\ call \in Calls

-----------------------------------------------------------------------------
\* ---- The chip ----

LEMMA WorksAreSomething == \A w \in Works : w # Nothing
<1>1. SUFFICES ASSUME NEW c \in OneWireCommands, NEW w \in [cmd : {c}, answer : AnswersTo(c)]
               PROVE  w # Nothing
  BY DEF Works
<1>2. w.cmd = c /\ c # "none"
  BY DEF OneWireCommands
<1>. QED
  BY <1>2 DEF Nothing

LEMMA ExecutedType ==
  ASSUME NEW chip \in Chips, NEW cmd \in ChipCommands, NEW a \in AnswersTo(cmd)
  PROVE  Executed(chip, cmd, a) \in Chips
<1>1. CASE cmd \in OneWireCommands
  <2>1. [cmd |-> cmd, answer |-> a] \in Works
    BY <1>1 DEF Works
  <2>2. Executed(chip, cmd, a) = [chip EXCEPT !.work = [cmd |-> cmd, answer |-> a], !.pointer = "status"]
    BY <1>1 DEF Executed, OneWireCommands
  <2>. QED
    BY <2>1, <2>2 DEF Chips, Pointers
<1>2. CASE cmd = "device_reset"
  BY <1>2 DEF Executed, OneWireCommands, Chips, Pointers
<1>3. CASE cmd = "config"
  BY <1>3 DEF Executed, OneWireCommands, Chips, Pointers
<1>4. CASE cmd = "to_data"
  BY <1>4 DEF Executed, OneWireCommands, Chips, Pointers
<1>5. CASE cmd = "to_port"
  BY <1>5 DEF Executed, OneWireCommands, Chips, Pointers
<1>. QED
  BY <1>1, <1>2, <1>3, <1>4, <1>5 DEF ChipCommands

\* A chip told to work points to its status; no other command makes it work.
LEMMA ExecutedVisible ==
  ASSUME NEW chip \in Chips, NEW cmd \in ChipCommands, NEW a \in AnswersTo(cmd)
  PROVE  /\ cmd \in OneWireCommands \cup {"device_reset"} => Executed(chip, cmd, a).pointer = "status"
         /\ cmd \notin OneWireCommands /\ chip.work = Nothing => Executed(chip, cmd, a).work = Nothing
BY DEF Executed, OneWireCommands, ChipCommands, Chips

\* A read of an idle bit 0 does not lie: this is where BusyIsVisible is needed.
LEMMA RegisterShowsBusy ==
  ASSUME NEW chip \in Chips, chip.work # Nothing => chip.pointer = "status"
  PROVE  /\ ~Register(chip).bit0 => chip.work = Nothing
         /\ Register(chip).rest \in Answers \cup {NoAnswer}
<1>1. CASE chip.pointer = "status"
  BY <1>1 DEF Register, Chips
<1>2. CASE chip.pointer \in {"data", "config", "port"}
  BY <1>2 DEF Register, Chips
<1>. QED
  BY <1>1, <1>2 DEF Chips, Pointers

-----------------------------------------------------------------------------
\* ---- An access ----

\* A write reaches the chip of the call, or none.
LEMMA WriteOutcome ==
  ASSUME CallTyped, NEW cmd \in ChipCommands, NEW ok \in BOOLEAN, Write(cmd, ok)
  PROVE  /\ selected' \in Channels \cup {NoChannel} /\ current_channel' = current_channel
         /\ \/ ~ok /\ UNCHANGED <<chips, lines>>
            \/ /\ Acknowledges(chips[call.ch], cmd)
               /\ \E a \in AnswersTo(cmd) :
                    /\ chips' = [chips EXCEPT ![call.ch] = Executed(chips[call.ch], cmd, a)]
                    /\ lines' = IF cmd \in OneWireCommands
                                  THEN Append(lines, [activity |-> cmd, ch |-> call.ch, answer |-> a])
                                  ELSE lines
<1>1. call.ch \in Channels
  BY DEF CallTyped, Calls
<1>2. CASE ~ok /\ SwitchToChannel(call.ch, FALSE) /\ UNCHANGED <<chips, lines>>
  BY <1>1, <1>2 DEF SwitchToChannel, CallTyped, TypeOK
<1>3. CASE SwitchToChannel(call.ch, TRUE) /\ Deliver(selected', cmd, ok)
  <2>1. selected' = call.ch /\ current_channel' = current_channel
    BY <1>3 DEF SwitchToChannel
  <2>2. Deliver(call.ch, cmd, ok)
    BY <1>3, <2>1
  <2>. QED
    BY <1>1, <2>1, <2>2 DEF Deliver
<1>. QED
  BY <1>2, <1>3 DEF Write

\* The types of what a write changes, and what it does to the chips.
LEMMA WriteKeeps ==
  ASSUME CallTyped, BusyIsVisible, NEW cmd \in ChipCommands, NEW ok \in BOOLEAN, Write(cmd, ok),
         cmd \in {"to_data", "to_port"} => ~Busy(call.ch)
  PROVE  /\ selected' \in Channels \cup {NoChannel} /\ current_channel' = current_channel
         /\ chips' \in [Channels -> Chips]
         /\ lines' \in Seq([activity : OneWireCommands, ch : Channels, answer : Answers \cup {NoAnswer}])
         /\ BusyIsVisible'
         /\ cmd \notin OneWireCommands /\ ~Busy(call.ch) => chips'[call.ch].work = Nothing
<1>1. call.ch \in Channels /\ chips \in [Channels -> Chips]
  BY DEF CallTyped, Calls, TypeOK
<1>2. selected' \in Channels \cup {NoChannel} /\ current_channel' = current_channel
  BY WriteOutcome
<1>3. CASE UNCHANGED <<chips, lines>>
  BY <1>1, <1>2, <1>3 DEF CallTyped, TypeOK, BusyIsVisible, Busy
<1>4. CASE /\ Acknowledges(chips[call.ch], cmd)
           /\ \E a \in AnswersTo(cmd) :
                /\ chips' = [chips EXCEPT ![call.ch] = Executed(chips[call.ch], cmd, a)]
                /\ lines' = IF cmd \in OneWireCommands
                              THEN Append(lines, [activity |-> cmd, ch |-> call.ch, answer |-> a])
                              ELSE lines
  <2>. DEFINE chip == chips[call.ch]
  <2>1. PICK a \in AnswersTo(cmd) :
          /\ chips' = [chips EXCEPT ![call.ch] = Executed(chip, cmd, a)]
          /\ lines' = IF cmd \in OneWireCommands
                        THEN Append(lines, [activity |-> cmd, ch |-> call.ch, answer |-> a])
                        ELSE lines
    BY <1>4
  <2>2. chip \in Chips /\ Executed(chip, cmd, a) \in Chips
    BY <1>1, ExecutedType
  <2>3. chips' \in [Channels -> Chips] /\ chips'[call.ch] = Executed(chip, cmd, a)
    BY <1>1, <2>1, <2>2
  <2>4. a \in Answers \cup {NoAnswer}
    BY DEF AnswersTo
  <2>5. lines' \in Seq([activity : OneWireCommands, ch : Channels, answer : Answers \cup {NoAnswer}])
    <3>. DEFINE L == [activity : OneWireCommands, ch : Channels, answer : Answers \cup {NoAnswer}]
    <3>1. lines \in Seq(L)
      BY DEF CallTyped, TypeOK
    <3>2. cmd \in OneWireCommands => [activity |-> cmd, ch |-> call.ch, answer |-> a] \in L
      BY <1>1, <2>4
    <3>. HIDE DEF L
    <3>3. lines' \in Seq(L)
      BY <2>1, <3>1, <3>2, AppendProperties
    <3>. QED
      BY <3>3 DEF L
  <2>6. Executed(chip, cmd, a).work # Nothing => Executed(chip, cmd, a).pointer = "status"
    <3>1. CASE cmd \in OneWireCommands \cup {"device_reset"}
      BY <2>2, <3>1, ExecutedVisible
    <3>2. CASE cmd \in {"config", "to_data", "to_port"}
      <4>1. chip.work = Nothing
        BY <1>4, <3>2 DEF Acknowledges, Busy
      <4>. QED
        BY <2>2, <3>2, <4>1, ExecutedVisible DEF OneWireCommands
    <3>. QED
      BY <3>1, <3>2 DEF ChipCommands
  <2>7. BusyIsVisible'
    BY <1>1, <2>1, <2>2, <2>3, <2>6 DEF BusyIsVisible, Busy
  <2>8. cmd \notin OneWireCommands /\ ~Busy(call.ch) => chips'[call.ch].work = Nothing
    BY <2>2, <2>3, ExecutedVisible DEF Busy
  <2>. QED
    BY <1>2, <2>3, <2>5, <2>7, <2>8
<1>. QED
  BY <1>3, <1>4, WriteOutcome

\* A read that succeeds shows the register of the chip of the call.
LEMMA ReadKeeps ==
  ASSUME CallTyped, BusyIsVisible, NEW ok \in BOOLEAN, Read(ok)
  PROVE  /\ selected' \in Channels \cup {NoChannel} /\ current_channel' = current_channel
         /\ UNCHANGED <<chips, lines>>
         /\ ok => Received.rest \in Answers \cup {NoAnswer}
         /\ ok /\ ~Received.bit0 => ~Busy(call.ch)
<1>1. call.ch \in Channels /\ chips \in [Channels -> Chips]
  BY DEF CallTyped, Calls, TypeOK
<1>2. selected' \in Channels \cup {NoChannel} /\ current_channel' = current_channel
  BY <1>1 DEF Read, SwitchToChannel, CallTyped, TypeOK
<1>3. UNCHANGED <<chips, lines>>
  BY DEF Read
<1>4. ok => selected' = call.ch
  BY DEF Read, SwitchToChannel
<1>5. ok => Received = Register(chips[call.ch])
  BY <1>4 DEF Received
<1>6. chips[call.ch] \in Chips /\ (chips[call.ch].work # Nothing => chips[call.ch].pointer = "status")
  BY <1>1 DEF BusyIsVisible, Busy
<1>7. /\ ~Register(chips[call.ch]).bit0 => chips[call.ch].work = Nothing
      /\ Register(chips[call.ch]).rest \in Answers \cup {NoAnswer}
  BY <1>6, RegisterShowsBusy
<1>. QED
  BY <1>2, <1>3, <1>5, <1>7 DEF Busy

-----------------------------------------------------------------------------
\* ---- The call ----

Steps == QuietSteps \cup {"device_reset", "reset_poll", "poll_before", "command", "poll", "done"}

LEMMA UnderWay ==
  ASSUME TypeOK, ~Idle
  PROVE  call \in Calls /\ CallTyped
BY DEF TypeOK, NoCall, Idle, CallTyped

LEMMA CallsAreNotNone == \A c \in Calls : c # NoCall
<1>1. SUFFICES ASSUME NEW c \in Calls PROVE c # NoCall
  OBVIOUS
<1>2. c.op \in Operations
  BY DEF Calls
<1>. QED
  BY <1>2 DEF NoCall, Operations

LEMMA GoOnType ==
  ASSUME call \in Calls, NEW step \in Steps
  PROVE  /\ GoOn(step) \in Calls
         /\ GoOn(step).step = step /\ GoOn(step).ch = call.ch
<1>1. 0 \in 0 .. MaxPolls - 1
  BY BusAssumption
<1>2. GoOn(step) \in Calls
  BY <1>1 DEF GoOn, Calls, Steps, QuietSteps
<1>3. GoOn(step).step = step /\ GoOn(step).ch = call.ch
  BY DEF GoOn, Calls
<1>. QED
  BY <1>2, <1>3

LEMMA ReturnType ==
  ASSUME call \in Calls, NEW ok \in BOOLEAN, NEW a \in Answers \cup {NoAnswer}
  PROVE  /\ Return(ok, a) \in Calls
         /\ Return(ok, a).step = "done" /\ Return(ok, a).ch = call.ch
         /\ Return(ok, a).ok = ok
<1>1. 0 \in 0 .. MaxPolls - 1
  BY BusAssumption
<1>2. Return(ok, a) \in Calls
  BY <1>1 DEF Return, Calls
<1>3. Return(ok, a).step = "done" /\ Return(ok, a).ch = call.ch
  BY DEF Return, Calls
<1>4. Return(ok, a).ok = ok
  BY DEF Return, Calls
<1>. QED
  BY <1>2, <1>3, <1>4

LEMMA DeviceResetDoneType ==
  ASSUME call \in Calls, NEW ok \in BOOLEAN
  PROVE  /\ DeviceResetDone(ok) \in Calls
         /\ DeviceResetDone(ok).step = "command" /\ DeviceResetDone(ok).ch = call.ch
<1>1. 0 \in 0 .. MaxPolls - 1
  BY BusAssumption
<1>2. DeviceResetDone(ok) \in Calls
  BY <1>1 DEF DeviceResetDone, Calls
<1>3. DeviceResetDone(ok).step = "command" /\ DeviceResetDone(ok).ch = call.ch
  BY DEF DeviceResetDone, Calls
<1>. QED
  BY <1>2, <1>3

\* What every step of the driver establishes, apart from the call.
Access ==
  /\ selected' \in Channels \cup {NoChannel} /\ current_channel' = current_channel
  /\ chips' \in [Channels -> Chips]
  /\ lines' \in Seq([activity : OneWireCommands, ch : Channels, answer : Answers \cup {NoAnswer}])
  /\ BusyIsVisible'
  /\ UNCHANGED <<ready, setup>>

LEMMA WriteAccess ==
  ASSUME CallTyped, BusyIsVisible, Driver, NEW cmd \in ChipCommands, NEW ok \in BOOLEAN, Write(cmd, ok),
         cmd \in {"to_data", "to_port"} => ~Busy(call.ch)
  PROVE  /\ Access
         /\ cmd \notin OneWireCommands /\ ~Busy(call.ch) => chips'[call.ch].work = Nothing
BY WriteKeeps DEF Access, Driver

LEMMA ReadAccess ==
  ASSUME CallTyped, BusyIsVisible, Driver, NEW ok \in BOOLEAN, Read(ok)
  PROVE  /\ Access
         /\ ok => Received.rest \in Answers \cup {NoAnswer}
         /\ (ok /\ ~Received.bit0) \/ ~Busy(call.ch) => chips'[call.ch].work = Nothing
<1>1. BusyIsVisible'
  BY ReadKeeps DEF BusyIsVisible, Busy
<1>. QED
  BY <1>1, ReadKeeps DEF Access, Driver, CallTyped, TypeOK, Busy

\* A call that goes on to a quiet step, or succeeds, must have a chip at rest.
LEMMA StepKeeps ==
  ASSUME TypeOK, Access, call' \in Calls,
         call'.step \in QuietSteps \/ (call'.step = "done" /\ call'.ok) => chips'[call'.ch].work = Nothing
  PROVE  IInv'
<1>1. TypeOK'
  BY DEF Access, TypeOK
<1>2. SuccessLeavesIdle'
  BY CallsAreNotNone DEF SuccessLeavesIdle, Succeeded, Idle, Busy
<1>3. Quiet'
  BY DEF Quiet, Busy
<1>. QED
  BY <1>1, <1>2, <1>3 DEF IInv, Access

-----------------------------------------------------------------------------
\* ---- The steps ----

LEMMA ResetDeviceKeeps == IInv /\ ResetDevice => IInv'
<1>. SUFFICES ASSUME IInv, ResetDevice PROVE IInv'
  OBVIOUS
<1>1. CallTyped /\ BusyIsVisible /\ TypeOK /\ Driver
  BY UnderWay DEF IInv, ResetDevice, At, Idle
<1>2. PICK ok \in BOOLEAN :
        Write("device_reset", ok)
        /\ call' = IF ok THEN GoOn("reset_poll") ELSE DeviceResetDone(FALSE)
  BY DEF ResetDevice
<1>3. Access
  BY <1>1, <1>2, WriteAccess DEF ChipCommands
<1>4. call' \in Calls /\ call'.step \in {"reset_poll", "command"}
  BY <1>1, <1>2, GoOnType, DeviceResetDoneType DEF Steps, CallTyped
<1>. QED
  BY <1>1, <1>3, <1>4, StepKeeps DEF QuietSteps

LEMMA WriteDeviceConfigKeeps == IInv /\ WriteDeviceConfig => IInv'
<1>. SUFFICES ASSUME IInv, WriteDeviceConfig PROVE IInv'
  OBVIOUS
<1>1. CallTyped /\ BusyIsVisible /\ TypeOK /\ Driver
  BY UnderWay DEF IInv, WriteDeviceConfig, At, Idle
<1>2. PICK ok \in BOOLEAN :
        Write("config", ok) /\ call' = IF ok THEN GoOn("read_back") ELSE DeviceResetDone(FALSE)
  BY DEF WriteDeviceConfig
<1>3. ~Busy(call.ch)
  BY <1>1, CallsAreNotNone DEF IInv, Quiet, QuietSteps, WriteDeviceConfig, At, CallTyped
<1>4. Access /\ chips'[call.ch].work = Nothing
  BY <1>1, <1>2, <1>3, WriteAccess DEF ChipCommands, OneWireCommands
<1>5. call' \in Calls /\ call'.ch = call.ch
  BY <1>1, <1>2, GoOnType, DeviceResetDoneType DEF Steps, QuietSteps, CallTyped
<1>. QED
  BY <1>1, <1>4, <1>5, StepKeeps

LEMMA ReadBackConfigKeeps == IInv /\ ReadBackConfig => IInv'
<1>. SUFFICES ASSUME IInv, ReadBackConfig PROVE IInv'
  OBVIOUS
<1>1. CallTyped /\ BusyIsVisible /\ TypeOK /\ Driver
  BY UnderWay DEF IInv, ReadBackConfig, At, Idle
<1>2. PICK ok \in BOOLEAN :
        Read(ok) /\ call' = IF ok /\ Received.bit0 THEN GoOn("to_port") ELSE DeviceResetDone(FALSE)
  BY DEF ReadBackConfig
<1>3. ~Busy(call.ch)
  BY <1>1, CallsAreNotNone DEF IInv, Quiet, QuietSteps, ReadBackConfig, At, CallTyped
<1>4. Access /\ chips'[call.ch].work = Nothing
  BY <1>1, <1>2, <1>3, ReadAccess
<1>5. call' \in Calls /\ call'.ch = call.ch
  BY <1>1, <1>2, GoOnType, DeviceResetDoneType DEF Steps, QuietSteps, CallTyped
<1>. QED
  BY <1>1, <1>4, <1>5, StepKeeps

LEMMA SetReadPointerToPortKeeps == IInv /\ SetReadPointerToPort => IInv'
<1>. SUFFICES ASSUME IInv, SetReadPointerToPort PROVE IInv'
  OBVIOUS
<1>1. CallTyped /\ BusyIsVisible /\ TypeOK /\ Driver
  BY UnderWay DEF IInv, SetReadPointerToPort, At, Idle
<1>2. PICK ok \in BOOLEAN :
        /\ Write("to_port", ok)
        /\ call' = CASE At("to_port")             -> GoOn(IF ok THEN "read_port" ELSE "to_port_again")
                     [] At("to_port_again") /\ ok -> GoOn("read_port_again")
                     [] OTHER                     -> DeviceResetDone(call.ports)
  BY DEF SetReadPointerToPort
<1>3. ~Busy(call.ch)
  BY <1>1, CallsAreNotNone DEF IInv, Quiet, QuietSteps, SetReadPointerToPort, At, CallTyped
<1>4. Access /\ chips'[call.ch].work = Nothing
  BY <1>1, <1>2, <1>3, WriteAccess DEF ChipCommands, OneWireCommands
<1>5. call' = GoOn("read_port") \/ call' = GoOn("to_port_again") \/ call' = GoOn("read_port_again")
      \/ call' = DeviceResetDone(call.ports)
  BY <1>2 DEF SetReadPointerToPort, At
<1>6. call.ports \in BOOLEAN
  BY <1>1 DEF CallTyped, Calls
<1>7. call' \in Calls /\ call'.ch = call.ch
  BY <1>1, <1>5, <1>6, GoOnType, DeviceResetDoneType DEF Steps, QuietSteps, CallTyped
<1>. QED
  BY <1>1, <1>4, <1>7, StepKeeps

LEMMA ReadPortKeeps == IInv /\ ReadPort => IInv'
<1>. SUFFICES ASSUME IInv, ReadPort PROVE IInv'
  OBVIOUS
<1>1. CallTyped /\ BusyIsVisible /\ TypeOK /\ Driver
  BY UnderWay DEF IInv, ReadPort, At, Idle
<1>2. PICK ok \in BOOLEAN :
        /\ Read(ok)
        /\ call' = IF At("read_port") THEN [GoOn("to_port_again") EXCEPT !.ports = ok]
                   ELSE DeviceResetDone(call.ports \/ ok)
  BY DEF ReadPort
<1>3. ~Busy(call.ch)
  BY <1>1, CallsAreNotNone DEF IInv, Quiet, QuietSteps, ReadPort, At, CallTyped
<1>4. Access /\ chips'[call.ch].work = Nothing
  BY <1>1, <1>2, <1>3, ReadAccess
<1>5. GoOn("to_port_again") \in Calls /\ GoOn("to_port_again").ch = call.ch
  BY <1>1, GoOnType DEF Steps, QuietSteps, CallTyped
<1>6. [GoOn("to_port_again") EXCEPT !.ports = ok] \in Calls
      /\ [GoOn("to_port_again") EXCEPT !.ports = ok].ch = call.ch
  BY <1>5 DEF Calls
<1>7. (call.ports \/ ok) \in BOOLEAN
  OBVIOUS
<1>8. DeviceResetDone(call.ports \/ ok) \in Calls /\ DeviceResetDone(call.ports \/ ok).ch = call.ch
  BY <1>1, <1>7, DeviceResetDoneType DEF CallTyped
<1>9. call' \in Calls /\ call'.ch = call.ch
  BY <1>2, <1>6, <1>8
<1>. QED
  BY <1>1, <1>4, <1>9, StepKeeps

LEMMA WriteCommandKeeps == IInv /\ WriteCommand => IInv'
<1>. SUFFICES ASSUME IInv, WriteCommand PROVE IInv'
  OBVIOUS
<1>1. CallTyped /\ BusyIsVisible /\ TypeOK /\ Driver
  BY UnderWay DEF IInv, WriteCommand, At, Idle
<1>. DEFINE cmd == IF call.op = "begin" THEN "reset" ELSE call.op
<1>2. PICK ok \in BOOLEAN : Write(cmd, ok) /\ call' = Commanded(ok)
  BY DEF WriteCommand
<1>3. cmd \in ChipCommands /\ cmd \notin {"to_data", "to_port"}
  BY <1>1 DEF CallTyped, Calls, Operations, ChipCommands, OneWireCommands
<1>4. Access
  BY <1>1, <1>2, <1>3, WriteAccess
<1>5. GoOn("poll") \in Calls /\ GoOn("poll").step = "poll"
  BY <1>1, GoOnType DEF Steps, CallTyped
<1>6. \A b \in BOOLEAN : [GoOn("poll") EXCEPT !.ok = b] \in Calls
                         /\ [GoOn("poll") EXCEPT !.ok = b].step = "poll"
  BY <1>5 DEF Calls
<1>7. (GoOn("poll").ok /\ ok) \in BOOLEAN
  OBVIOUS
<1>8. Return(FALSE, NoAnswer) \in Calls /\ Return(FALSE, NoAnswer).step = "done" /\ ~Return(FALSE, NoAnswer).ok
  BY <1>1, ReturnType DEF CallTyped
<1>9. call' \in Calls /\ (call'.step = "poll" \/ (call'.step = "done" /\ ~call'.ok))
  BY <1>2, <1>6, <1>7, <1>8 DEF Commanded
<1>. QED
  BY <1>1, <1>4, <1>9, StepKeeps DEF QuietSteps

\* The outcomes of a wait: given up, over with the chip at rest, or another poll.
LEMMA WaitFailedType ==
  ASSUME call \in Calls
  PROVE  WaitFailed \in Calls /\ (WaitFailed.step = "command" \/ (WaitFailed.step = "done" /\ ~WaitFailed.ok))
BY ReturnType, DeviceResetDoneType DEF WaitFailed

LEMMA WaitOverType ==
  ASSUME call \in Calls, Received.rest \in Answers \cup {NoAnswer}
  PROVE  WaitOver \in Calls /\ WaitOver.ch = call.ch
<1>1. /\ GoOn("config") \in Calls /\ GoOn("config").ch = call.ch
      /\ GoOn("command") \in Calls /\ GoOn("command").ch = call.ch
      /\ GoOn("to_data") \in Calls /\ GoOn("to_data").ch = call.ch
  BY GoOnType DEF Steps, QuietSteps
<1>2. Return(TRUE, Received.rest) \in Calls /\ Return(TRUE, Received.rest).ch = call.ch
  BY ReturnType
<1>3. call.ok \in BOOLEAN
  BY DEF Calls
<1>4. Return(call.ok, NoAnswer) \in Calls /\ Return(call.ok, NoAnswer).ch = call.ch
  BY <1>3, ReturnType
<1>. QED
  BY <1>1, <1>2, <1>4 DEF WaitOver

LEMMA PollAgainType ==
  ASSUME call \in Calls, ~LastPoll
  PROVE  PollAgain \in Calls /\ PollAgain.step = call.step
<1>1. call.polls + 1 \in 0 .. MaxPolls - 1
  BY BusAssumption DEF Calls, LastPoll
<1>. QED
  BY <1>1 DEF PollAgain, Calls

LEMMA ReadStatusKeeps == IInv /\ ReadStatus => IInv'
<1>. SUFFICES ASSUME IInv, ReadStatus PROVE IInv'
  OBVIOUS
<1>1. CallTyped /\ BusyIsVisible /\ TypeOK /\ Driver
  BY UnderWay DEF IInv, ReadStatus, At, Idle
<1>2. PICK ok \in BOOLEAN :
        /\ Read(ok)
        /\ call' = CASE ~ok                    -> WaitFailed
                     [] ok /\ ~Received.bit0   -> WaitOver
                     [] ok /\ Received.bit0    -> IF LastPoll THEN WaitFailed ELSE PollAgain
  BY DEF ReadStatus
<1>3. \/ call' = WaitFailed
      \/ ok /\ ~Received.bit0 /\ call' = WaitOver
      \/ ~LastPoll /\ call' = PollAgain
  BY <1>2
<1>4. /\ Access
      /\ ok => Received.rest \in Answers \cup {NoAnswer}
      /\ ok /\ ~Received.bit0 => chips'[call.ch].work = Nothing
  BY <1>1, <1>2, ReadAccess
<1>5. CASE call' = WaitFailed
  BY <1>1, <1>4, <1>5, WaitFailedType, StepKeeps DEF QuietSteps, CallTyped
<1>6. CASE ok /\ ~Received.bit0 /\ call' = WaitOver
  BY <1>1, <1>4, <1>6, WaitOverType, StepKeeps DEF CallTyped
<1>7. CASE ~LastPoll /\ call' = PollAgain
  <2>1. call'.step \in {"reset_poll", "poll_before", "poll"} /\ call' \in Calls
    BY <1>1, <1>7, PollAgainType DEF ReadStatus, At, CallTyped
  <2>. QED
    BY <1>1, <1>4, <2>1, StepKeeps DEF QuietSteps
<1>. QED
  BY <1>3, <1>5, <1>6, <1>7

LEMMA SetReadPointerToDataKeeps == IInv /\ SetReadPointerToData => IInv'
<1>. SUFFICES ASSUME IInv, SetReadPointerToData PROVE IInv'
  OBVIOUS
<1>1. CallTyped /\ BusyIsVisible /\ TypeOK /\ Driver
  BY UnderWay DEF IInv, SetReadPointerToData, At, Idle
<1>2. PICK ok \in BOOLEAN :
        Write("to_data", ok) /\ call' = IF ok THEN GoOn("read_data") ELSE Return(FALSE, NoAnswer)
  BY DEF SetReadPointerToData
<1>3. ~Busy(call.ch)
  BY <1>1, CallsAreNotNone DEF IInv, Quiet, QuietSteps, SetReadPointerToData, At, CallTyped
<1>4. Access /\ chips'[call.ch].work = Nothing
  BY <1>1, <1>2, <1>3, WriteAccess DEF ChipCommands, OneWireCommands
<1>5. call' \in Calls /\ call'.ch = call.ch
  BY <1>1, <1>2, GoOnType, ReturnType DEF Steps, QuietSteps, CallTyped
<1>. QED
  BY <1>1, <1>4, <1>5, StepKeeps

LEMMA ReadDataKeeps == IInv /\ ReadData => IInv'
<1>. SUFFICES ASSUME IInv, ReadData PROVE IInv'
  OBVIOUS
<1>1. CallTyped /\ BusyIsVisible /\ TypeOK /\ Driver
  BY UnderWay DEF IInv, ReadData, At, Idle
<1>2. PICK ok \in BOOLEAN :
        Read(ok) /\ call' = IF ok THEN Return(TRUE, Received.rest) ELSE Return(FALSE, NoAnswer)
  BY DEF ReadData
<1>3. ~Busy(call.ch)
  BY <1>1, CallsAreNotNone DEF IInv, Quiet, QuietSteps, ReadData, At, CallTyped
<1>4. /\ Access /\ chips'[call.ch].work = Nothing
      /\ ok => Received.rest \in Answers \cup {NoAnswer}
  BY <1>1, <1>2, <1>3, ReadAccess
<1>5. call' \in Calls /\ call'.ch = call.ch
  BY <1>1, <1>2, <1>4, ReturnType DEF CallTyped
<1>. QED
  BY <1>1, <1>4, <1>5, StepKeeps

-----------------------------------------------------------------------------
\* ---- Chips, setup and restarts ----

LEMMA CompleteKeeps == ASSUME NEW ch \in Channels PROVE IInv /\ Complete(ch) => IInv'
<1>. SUFFICES ASSUME IInv, Complete(ch) PROVE IInv'
  OBVIOUS
<1>. DEFINE chip == chips[ch]
<1>1. chips \in [Channels -> Chips] /\ chip \in Chips
  BY DEF IInv, TypeOK
<1>2. chip.work \in Works
  BY <1>1 DEF Complete, Busy, Chips
<1>3. chip.work.cmd \in {"read", "triplet"} => chip.work.answer \in Answers
  BY <1>2 DEF Works, AnswersTo
<1>4. chips' = [chips EXCEPT ![ch] = Finished(chip)]
  BY DEF Complete
<1>5. Finished(chip) \in Chips /\ Finished(chip).work = Nothing
  BY <1>1, <1>3 DEF Chips, Finished
<1>. HIDE DEF chip
<1>6. chips' \in [Channels -> Chips]
  BY <1>1, <1>4, <1>5
<1>7. \A c \in Channels : chips'[c].work = Nothing \/ chips'[c] = chips[c]
  BY <1>1, <1>4, <1>5
<1>8. UNCHANGED <<ready, current_channel, selected, setup, call, lines>>
  BY DEF Complete
<1>9. TypeOK'
  BY <1>6, <1>8 DEF IInv, TypeOK
<1>10. BusyIsVisible'
  BY <1>7 DEF IInv, BusyIsVisible, Busy
<1>11. call # NoCall => call.ch \in Channels
  BY DEF IInv, TypeOK, Calls
<1>12. SuccessLeavesIdle' /\ Quiet'
  BY <1>7, <1>8, <1>11 DEF IInv, SuccessLeavesIdle, Quiet, Succeeded, Idle, Busy
<1>. QED
  BY <1>9, <1>10, <1>12 DEF IInv

\* A new call: no step of it is quiet yet.
LEMMA CalledKeeps ==
  ASSUME IInv, NEW op \in Operations, NEW ch \in Channels, Called(op, ch), setup' \in 0 .. BusCount + 1
  PROVE  IInv'
<1>1. FirstStep(op) \in {"device_reset", "poll_before", "command"}
  BY DEF FirstStep
<1>2. 0 \in 0 .. MaxPolls - 1
  BY BusAssumption
<1>3. call' \in Calls /\ call'.step \in {"device_reset", "poll_before", "command"}
  BY <1>1, <1>2 DEF Called, Calls
<1>4. lines' \in Seq([activity : OneWireCommands, ch : Channels, answer : Answers \cup {NoAnswer}])
  BY DEF Called
<1>5. UNCHANGED <<ready, current_channel, selected, chips>>
  BY DEF Called
<1>6. TypeOK'
  BY <1>3, <1>4, <1>5 DEF IInv, TypeOK
<1>7. BusyIsVisible'
  BY <1>5 DEF IInv, BusyIsVisible, Busy
<1>8. SuccessLeavesIdle' /\ Quiet'
  BY <1>3 DEF SuccessLeavesIdle, Quiet, QuietSteps, Succeeded, Idle
<1>. QED
  BY <1>6, <1>7, <1>8 DEF IInv

LEMMA SetupKeeps == IInv /\ SetupBusMaster => IInv'
<1>. SUFFICES ASSUME IInv, SetupBusMaster PROVE IInv'
  OBVIOUS
<1>1. setup \in Channels /\ Called("begin", setup) /\ setup' = setup + 1
  BY DEF SetupBusMaster
<1>2. setup' \in 0 .. BusCount + 1
  BY <1>1, BusAssumption DEF Channels
<1>. QED
  BY <1>1, <1>2, CalledKeeps DEF Operations

LEMMA OperateKeeps == ASSUME NEW use \in Uses PROVE IInv /\ Operate(use[1], use[2]) => IInv'
<1>1. use[1] \in Operations /\ use[2] \in Channels
  BY UseAssumption DEF Operations, Channels
<1>2. IInv /\ Operate(use[1], use[2]) => setup' \in 0 .. BusCount + 1
  BY DEF IInv, TypeOK, Operate
<1>. QED
  BY <1>1, <1>2, CalledKeeps DEF Operate

LEMMA RestartKeeps == IInv /\ (SystemBegin \/ Reboot \/ UNCHANGED vars) => IInv'
<1>1. CASE IInv /\ SystemBegin
  <2>1. TypeOK'
    BY <1>1, BusAssumption DEF SystemBegin, IInv, TypeOK
  <2>2. BusyIsVisible' /\ SuccessLeavesIdle' /\ Quiet'
    BY <1>1 DEF SystemBegin, IInv, BusyIsVisible, SuccessLeavesIdle, Succeeded, Idle, Quiet, Busy
  <2>. QED
    BY <2>1, <2>2 DEF IInv
<1>2. CASE IInv /\ Reboot
  <2>1. 0 \in 0 .. BusCount + 1 /\ <<>> \in Seq([activity : OneWireCommands, ch : Channels, answer : Answers \cup {NoAnswer}])
    BY BusAssumption
  <2>2. TypeOK'
    BY <1>2, <2>1 DEF Reboot, IInv, TypeOK
  <2>3. BusyIsVisible' /\ SuccessLeavesIdle' /\ Quiet'
    BY <1>2 DEF Reboot, IInv, BusyIsVisible, SuccessLeavesIdle, Succeeded, Quiet, Busy
  <2>. QED
    BY <2>2, <2>3 DEF IInv
<1>3. CASE IInv /\ UNCHANGED vars
  <2>1. TypeOK'
    BY <1>3 DEF vars, IInv, TypeOK
  <2>2. BusyIsVisible' /\ SuccessLeavesIdle' /\ Quiet'
    BY <1>3 DEF vars, IInv, BusyIsVisible, SuccessLeavesIdle, Succeeded, Idle, Quiet, Busy
  <2>. QED
    BY <2>1, <2>2 DEF IInv
<1>. QED
  BY <1>1, <1>2, <1>3

LEMMA InitIInv == Init => IInv
<1>. SUFFICES ASSUME Init PROVE IInv
  OBVIOUS
<1>1. (CHOOSE a \in Answers : TRUE) \in Answers
  BY BusAssumption
<1>2. PoweredUp \in Chips
  BY <1>1 DEF PoweredUp, Chips, Pointers
<1>3. TypeOK
  <2>1. 0 \in 0 .. BusCount + 1 /\ <<>> \in Seq([activity : OneWireCommands, ch : Channels, answer : Answers \cup {NoAnswer}])
    BY BusAssumption
  <2>2. chips \in [Channels -> Chips]
    BY <1>2 DEF Init
  <2>. QED
    BY <2>1, <2>2 DEF Init, TypeOK
<1>4. BusyIsVisible /\ SuccessLeavesIdle /\ Quiet
  BY DEF Init, BusyIsVisible, Busy, PoweredUp, SuccessLeavesIdle, Succeeded, Quiet
<1>. QED
  BY <1>3, <1>4 DEF IInv

LEMMA NextIInv == IInv /\ [Next]_vars => IInv'
BY ResetDeviceKeeps, WriteDeviceConfigKeeps, ReadBackConfigKeeps, SetReadPointerToPortKeeps,
   ReadPortKeeps, WriteCommandKeeps, ReadStatusKeeps, SetReadPointerToDataKeeps, ReadDataKeeps,
   CompleteKeeps, SetupKeeps, OperateKeeps, RestartKeeps DEF Next, DriverStep

-----------------------------------------------------------------------------
\* ---- Theorems ----

\* The state of bus, multiplexer, chips and driver is well formed, whatever transfers
\* fail and whenever the firmware restarts.
THEOREM TypeCorrect == Spec => []TypeOK
<1>1. IInv => TypeOK
  BY DEF IInv
<1>. QED
  BY <1>1, InitIInv, NextIInv, PTL DEF Spec

\* The driver is never misled about a chip at work: over failed and given-up calls
\* and restarts, the read pointer of such a chip is on its status register.
THEOREM BusyStaysVisible == Spec => []BusyIsVisible
<1>1. IInv => BusyIsVisible
  BY DEF IInv
<1>. QED
  BY <1>1, InitIInv, NextIInv, PTL DEF Spec

\* An operation that reports success leaves its bus master at rest, for any number of
\* channels and polls and any time the chips take.
THEOREM SuccessMeansIdle == Spec => []SuccessLeavesIdle
<1>1. IInv => SuccessLeavesIdle
  BY DEF IInv
<1>. QED
  BY <1>1, InitIInv, NextIInv, PTL DEF Spec

-----------------------------------------------------------------------------
\* ---- What the 1-wire layer relies on ----

ResetSteps == {"device_reset", "reset_poll", "config", "read_back", "to_port", "read_port",
               "to_port_again", "read_port_again"}
PortSteps  == {"read_back", "to_port", "read_port", "to_port_again", "read_port_again"}
Before     == ResetSteps \cup {"poll_before", "command"}
After      == {"poll", "to_data", "read_data"}

\* What a call must know at each of its steps to keep its promise at the end: which
\* operation it is, ...
OperationKnown ==
  call # NoCall =>
    /\ call.step \in ResetSteps => call.op = "begin"
    /\ call.step = "poll_before" => call.op = "triplet"
    /\ call.step \in {"to_data", "read_data"} => call.op = "read"

\* ... that the lines have seen nothing before the command and only what it asked for
\* after it, or nothing because the command of a write got lost, ...
OwnActivity == \E a \in Master!Activities(call.op, call.ch) : lines = <<a>>
LinesKnown ==
  call # NoCall =>
    /\ call.step \in Before => lines = <<>>
    /\ call.step \in After  => OwnActivity \/ (lines = <<>> /\ call.op = "write" /\ ~call.ok)

\* ... where the answer of the lines is, at work or in its register, ...
AnswerIn(chip, cmd, register) ==
  IF chip.work = Nothing THEN register = lines[1].answer
  ELSE chip.work = [cmd |-> cmd, answer |-> lines[1].answer]
AnswerKnown ==
  call # NoCall /\ call.step \in After =>
    /\ call.op = "read"    => AnswerIn(chips[call.ch], "read", chips[call.ch].data)
    /\ call.op = "triplet" => AnswerIn(chips[call.ch], "triplet", chips[call.ch].bits)
                              /\ chips[call.ch].pointer = "status"
    /\ call.step = "read_data" => chips[call.ch].pointer = "data"

\* ... and that the chip of a begin that may still succeed is configured.
ConfigKnown ==
  call # NoCall /\ call.op = "begin" =>
    /\ call.step \in PortSteps => chips[call.ch].configured
    /\ call.step \in {"command", "poll"} /\ call.ok => chips[call.ch].configured

RInv == IInv /\ OperationKnown /\ LinesKnown /\ AnswerKnown /\ ConfigKnown

\* ---- How a step looks to the 1-wire layer ----

Configured == {ch \in Channels : chips[ch].configured}

RunningSeen == [op |-> call.op, ch |-> call.ch, state |-> "running"]
DoneSeen    == [op |-> call.op, ch |-> call.ch, state |-> "done", answer |-> call.answer]
FailedSeen  == [op |-> call.op, ch |-> call.ch, state |-> "failed"]

SeenOK == /\ call = NoCall => CallSeen = Master!NoCall
          /\ ~Idle => CallSeen = RunningSeen
          /\ Idle /\ call # NoCall /\ call.ok  => CallSeen = DoneSeen
          /\ Idle /\ call # NoCall /\ ~call.ok => CallSeen = FailedSeen

LEMMA SeenFacts == SeenOK
<1>1. CASE call = NoCall
  BY <1>1 DEF SeenOK, CallSeen, Idle, NoCall, Succeeded, Master!NoCall
<1>2. CASE call # NoCall /\ ~Idle
  BY <1>2 DEF SeenOK, CallSeen, Succeeded, RunningSeen
<1>3. CASE call # NoCall /\ Idle /\ call.ok
  BY <1>3 DEF SeenOK, CallSeen, Succeeded, DoneSeen
<1>4. CASE call # NoCall /\ Idle /\ ~call.ok
  BY <1>4 DEF SeenOK, CallSeen, Succeeded, FailedSeen
<1>. QED
  BY <1>1, <1>2, <1>3, <1>4

LEMMA NextSeenFacts == SeenOK'
BY SeenFacts, PTL

\* A call is seen as running exactly as long as it is not done.
LEMMA RunningFacts ==
  ASSUME TypeOK
  PROVE  ~Idle <=> Master!Running
<1>1. CASE ~Idle
  <2>1. call.op \in Operations
    BY <1>1, UnderWay DEF Calls
  <2>2. RunningSeen # Master!NoCall
    BY <2>1 DEF RunningSeen, Master!NoCall, Operations
  <2>. QED
    BY <1>1, <2>2, SeenFacts DEF SeenOK, RunningSeen, Master!Running
<1>2. CASE Idle
  BY <1>2, SeenFacts DEF SeenOK, DoneSeen, FailedSeen, Master!Running
<1>. QED
  BY <1>1, <1>2

\* The same call before and after.
SameCall == ~Idle /\ call' \in Calls /\ call'.op = call.op /\ call'.ch = call.ch

LEMMA SeenAsStutter ==
  ASSUME TypeOK, SameCall, call'.step # "done", UNCHANGED lines, Configured' = Configured
  PROVE  UNCHANGED Master!vars
<1>1. CallSeen' = CallSeen
  BY SeenFacts, NextSeenFacts DEF SeenOK, SameCall, RunningSeen, Idle
<1>. QED
  BY <1>1 DEF Master!vars, Configured

LEMMA SeenAsAct ==
  ASSUME TypeOK, SameCall, call'.step # "done", lines = <<>>,
         NEW a \in Master!Activities(call.op, call.ch), lines' = <<a>>, Configured' = Configured
  PROVE  Master!Act
<1>1. CallSeen' = CallSeen /\ CallSeen.op = call.op /\ CallSeen.ch = call.ch
  BY SeenFacts, NextSeenFacts DEF SeenOK, SameCall, RunningSeen, Idle
<1>2. Master!Running
  BY RunningFacts DEF SameCall
<1>. QED
  BY <1>1, <1>2 DEF Master!Act, Configured

LEMMA SeenAsConfigure ==
  ASSUME TypeOK, SameCall, call'.step # "done", call.op = "begin", UNCHANGED lines,
         \A d \in Channels : d # call.ch => chips'[d].configured = chips[d].configured
  PROVE  Master!Configure
<1>1. CallSeen' = CallSeen /\ CallSeen.op = call.op /\ CallSeen.ch = call.ch
  BY SeenFacts, NextSeenFacts DEF SeenOK, SameCall, RunningSeen, Idle
<1>2. Master!Running /\ call.ch \in Channels
  BY RunningFacts, UnderWay DEF SameCall, Calls
<1>3. Configured' \in {Configured \cup {call.ch}, Configured \ {call.ch}}
  BY <1>2 DEF Configured
<1>. QED
  BY <1>1, <1>2, <1>3 DEF Master!Configure, Configured

LEMMA SeenAsSucceed ==
  ASSUME TypeOK, SameCall, call'.step = "done", call'.ok, UNCHANGED lines, Configured' = Configured,
         NEW a, lines = <<a>>, call'.answer = a.answer,
         call.op = "begin" => chips[call.ch].configured
  PROVE  Master!Succeed
<1>1. CallSeen.op = call.op /\ CallSeen.ch = call.ch
  BY SeenFacts DEF SeenOK, SameCall, RunningSeen
<1>2. CallSeen' = [op |-> call.op, ch |-> call.ch, state |-> "done", answer |-> lines[1].answer]
  BY NextSeenFacts, CallsAreNotNone DEF SeenOK, SameCall, DoneSeen, Idle
<1>3. Master!Running /\ call.ch \in Channels
  BY RunningFacts, UnderWay DEF SameCall, Calls
<1>. QED
  BY <1>1, <1>2, <1>3 DEF Master!Succeed, Configured

LEMMA SeenAsFail ==
  ASSUME TypeOK, SameCall, call'.step = "done", ~call'.ok, Configured' = Configured,
         \/ UNCHANGED lines
         \/ lines = <<>> /\ \E a \in Master!Activities(call.op, call.ch) : lines' = <<a>>
  PROVE  Master!Fail
<1>1. CallSeen.op = call.op /\ CallSeen.ch = call.ch
  BY SeenFacts DEF SeenOK, SameCall, RunningSeen
<1>2. CallSeen' = [op |-> call.op, ch |-> call.ch, state |-> "failed"]
  BY NextSeenFacts, CallsAreNotNone DEF SeenOK, SameCall, FailedSeen, Idle
<1>3. Master!Running
  BY RunningFacts DEF SameCall
<1>. QED
  BY <1>1, <1>2, <1>3 DEF Master!Fail, Configured

\* ---- The refinement, step by step ----

LEMMA ExecutedFacts ==
  ASSUME NEW chip \in Chips, NEW cmd \in ChipCommands, NEW a \in AnswersTo(cmd)
  PROVE  LET e == Executed(chip, cmd, a)
         IN  /\ cmd \in OneWireCommands => e.work = [cmd |-> cmd, answer |-> a] /\ e.pointer = "status"
             /\ cmd \notin OneWireCommands \cup {"device_reset"} => e.work = chip.work
             /\ cmd \notin {"device_reset", "config"} => e.configured = chip.configured
             /\ cmd = "config" => e.configured
             /\ cmd = "to_data" => e.pointer = "data"
             /\ e.data = chip.data /\ e.bits = chip.bits
BY DEF Executed, OneWireCommands, ChipCommands, Chips

\* A write changes the chip of the call and no other, or fails.
Wrote(cmd, a) ==
  /\ chips'[call.ch] = Executed(chips[call.ch], cmd, a)
  /\ lines' = IF cmd \in OneWireCommands
                THEN Append(lines, [activity |-> cmd, ch |-> call.ch, answer |-> a]) ELSE lines

LEMMA WriteEffect ==
  ASSUME CallTyped, NEW cmd \in ChipCommands, NEW ok \in BOOLEAN, Write(cmd, ok)
  PROVE  /\ \A d \in Channels : d # call.ch => chips'[d] = chips[d]
         /\ chips[call.ch] \in Chips /\ call.ch \in Channels
         /\ \/ ~ok /\ UNCHANGED <<chips, lines>>
            \/ \E a \in AnswersTo(cmd) : Wrote(cmd, a)
<1>1. call.ch \in Channels /\ chips \in [Channels -> Chips]
  BY DEF CallTyped, Calls, TypeOK
<1>. QED
  BY <1>1, WriteOutcome DEF Wrote

LEMMA CallFields ==
  ASSUME call \in Calls
  PROVE  /\ \A step \in Steps : /\ GoOn(step).op = call.op /\ GoOn(step).ch = call.ch
                                /\ GoOn(step).step = step /\ GoOn(step).ok = call.ok
         /\ \A ok \in BOOLEAN : /\ DeviceResetDone(ok).op = call.op /\ DeviceResetDone(ok).ch = call.ch
                                /\ DeviceResetDone(ok).step = "command" /\ DeviceResetDone(ok).ok = ok
         /\ \A ok \in BOOLEAN, a \in Answers \cup {NoAnswer} :
              /\ Return(ok, a).op = call.op /\ Return(ok, a).ch = call.ch
              /\ Return(ok, a).step = "done" /\ Return(ok, a).ok = ok /\ Return(ok, a).answer = a
BY DEF GoOn, DeviceResetDone, Return, Calls

\* The state after a step that stays before the command, or that ends the call.
LEMMA BeforeKeeps ==
  ASSUME IInv', SameCall, lines' = <<>>, call'.step \in Before,
         call'.step \in ResetSteps => call.op = "begin",
         call'.step = "poll_before" => call.op = "triplet",
         call.op = "begin" /\ (call'.step \in PortSteps \/ call'.ok) /\ call'.step \in PortSteps \cup {"command"}
           => chips'[call.ch].configured
  PROVE  RInv'
BY DEF RInv, SameCall, OperationKnown, LinesKnown, AnswerKnown, ConfigKnown, Before, After,
       ResetSteps, PortSteps

LEMMA DoneKeeps ==
  ASSUME IInv', call'.step = "done"
  PROVE  RInv'
BY DEF RInv, OperationKnown, LinesKnown, AnswerKnown, ConfigKnown, Before, After, ResetSteps, PortSteps

\* What a step of the driver has to establish.
Refined == RInv' /\ [Master!Next]_Master!vars

\* What is known of a call while its chip is being reset.
LEMMA ResettingFacts ==
  ASSUME RInv, call.step \in ResetSteps, NEW ok \in BOOLEAN
  PROVE  /\ CallTyped /\ call \in Calls /\ TypeOK /\ ~Idle /\ call.op = "begin" /\ lines = <<>>
         /\ call.step \in PortSteps => chips[call.ch].configured
         /\ LET d == DeviceResetDone(ok)
            IN  d \in Calls /\ d.op = "begin" /\ d.ch = call.ch /\ d.step = "command" /\ d.ok = ok
<1>1. TypeOK /\ ~Idle
  BY DEF RInv, IInv, Idle, ResetSteps
<1>2. call \in Calls /\ CallTyped /\ call # NoCall
  BY <1>1, UnderWay, CallsAreNotNone
<1>3. call.op = "begin" /\ lines = <<>> /\ (call.step \in PortSteps => chips[call.ch].configured)
  BY <1>2 DEF RInv, OperationKnown, LinesKnown, ConfigKnown, Before
<1>. QED
  BY <1>1, <1>2, <1>3, CallFields, DeviceResetDoneType

\* A step of ResetDevice that does not disturb the lines.
LEMMA ResettingRefines ==
  ASSUME RInv, IInv', SameCall, call.step \in ResetSteps, call'.step \in ResetSteps \cup {"command"},
         UNCHANGED lines, \A d \in Channels : d # call.ch => chips'[d].configured = chips[d].configured,
         call'.step \in PortSteps \/ (call'.step = "command" /\ call'.ok) => chips'[call.ch].configured
  PROVE  Refined
<1>1. TypeOK /\ call.op = "begin" /\ lines = <<>>
  BY ResettingFacts
<1>2. RInv'
  BY <1>1, BeforeKeeps DEF Before, ResetSteps
<1>3. Master!Configure
  BY <1>1, SeenAsConfigure DEF ResetSteps
<1>. QED
  BY <1>2, <1>3 DEF Refined, Master!Next

LEMMA ResetDeviceRefines == RInv /\ ResetDevice => Refined
<1>. SUFFICES ASSUME RInv, ResetDevice PROVE Refined
  OBVIOUS
<1>1. IInv' /\ call.step \in ResetSteps
  BY ResetDeviceKeeps DEF RInv, ResetDevice, At, ResetSteps
<1>2. PICK ok \in BOOLEAN :
        Write("device_reset", ok)
        /\ call' = IF ok THEN GoOn("reset_poll") ELSE DeviceResetDone(FALSE)
  BY DEF ResetDevice
<1>3. CallTyped /\ call \in Calls /\ ~Idle /\ lines = <<>>
  BY <1>1, ResettingFacts
<1>4. SameCall /\ (call'.step = "reset_poll" \/ (call'.step = "command" /\ ~call'.ok))
  BY <1>2, <1>3, CallFields, GoOnType, DeviceResetDoneType DEF SameCall, Steps
<1>5. UNCHANGED lines /\ \A d \in Channels : d # call.ch => chips'[d].configured = chips[d].configured
  BY <1>2, <1>3, WriteEffect DEF ChipCommands, OneWireCommands, Wrote
<1>. QED
  BY <1>1, <1>4, <1>5, ResettingRefines DEF ResetSteps, PortSteps

LEMMA WriteDeviceConfigRefines == RInv /\ WriteDeviceConfig => Refined
<1>. SUFFICES ASSUME RInv, WriteDeviceConfig PROVE Refined
  OBVIOUS
<1>1. IInv' /\ call.step \in ResetSteps
  BY WriteDeviceConfigKeeps DEF RInv, WriteDeviceConfig, At, ResetSteps
<1>2. PICK ok \in BOOLEAN :
        Write("config", ok) /\ call' = IF ok THEN GoOn("read_back") ELSE DeviceResetDone(FALSE)
  BY DEF WriteDeviceConfig
<1>3. CallTyped /\ call \in Calls /\ ~Idle /\ lines = <<>>
  BY <1>1, ResettingFacts
<1>4. SameCall /\ ((ok /\ call'.step = "read_back") \/ (call'.step = "command" /\ ~call'.ok))
  BY <1>2, <1>3, CallFields, GoOnType, DeviceResetDoneType DEF SameCall, Steps, QuietSteps
<1>5. UNCHANGED lines /\ \A d \in Channels : d # call.ch => chips'[d].configured = chips[d].configured
  BY <1>2, <1>3, WriteEffect DEF ChipCommands, OneWireCommands, Wrote
<1>6. ok => chips'[call.ch].configured
  <2>. SUFFICES ASSUME ok PROVE chips'[call.ch].configured
    OBVIOUS
  <2>1. "config" \in ChipCommands
    BY DEF ChipCommands
  <2>2. PICK a \in AnswersTo("config") : Wrote("config", a)
    BY <1>2, <1>3, <2>1, WriteEffect
  <2>3. chips[call.ch] \in Chips
    BY <1>2, <1>3, <2>1, WriteEffect
  <2>4. Executed(chips[call.ch], "config", a).configured
    BY <2>1, <2>3, ExecutedFacts
  <2>. QED
    BY <2>2, <2>4 DEF Wrote
<1>. QED
  BY <1>1, <1>4, <1>5, <1>6, ResettingRefines DEF ResetSteps, PortSteps

LEMMA ReadBackConfigRefines == RInv /\ ReadBackConfig => Refined
<1>. SUFFICES ASSUME RInv, ReadBackConfig PROVE Refined
  OBVIOUS
<1>1. IInv' /\ call.step \in ResetSteps /\ call.step \in PortSteps
  BY ReadBackConfigKeeps DEF RInv, ReadBackConfig, At, ResetSteps, PortSteps
<1>2. PICK ok \in BOOLEAN :
        Read(ok) /\ call' = IF ok /\ Received.bit0 THEN GoOn("to_port") ELSE DeviceResetDone(FALSE)
  BY DEF ReadBackConfig
<1>3. call \in Calls /\ ~Idle /\ chips[call.ch].configured
  BY <1>1, ResettingFacts
<1>4. SameCall /\ (call'.step = "to_port" \/ (call'.step = "command" /\ ~call'.ok))
  BY <1>2, <1>3, CallFields, GoOnType, DeviceResetDoneType DEF SameCall, Steps, QuietSteps
<1>5. UNCHANGED <<chips, lines>>
  BY <1>2 DEF Read
<1>. QED
  BY <1>1, <1>3, <1>4, <1>5, ResettingRefines DEF ResetSteps, PortSteps, SameCall

LEMMA SetReadPointerToPortRefines == RInv /\ SetReadPointerToPort => Refined
<1>. SUFFICES ASSUME RInv, SetReadPointerToPort PROVE Refined
  OBVIOUS
<1>1. IInv' /\ call.step \in ResetSteps /\ call.step \in PortSteps
  BY SetReadPointerToPortKeeps DEF RInv, SetReadPointerToPort, At, ResetSteps, PortSteps
<1>2. PICK ok \in BOOLEAN :
        /\ Write("to_port", ok)
        /\ call' = CASE At("to_port")             -> GoOn(IF ok THEN "read_port" ELSE "to_port_again")
                     [] At("to_port_again") /\ ok -> GoOn("read_port_again")
                     [] OTHER                     -> DeviceResetDone(call.ports)
  BY DEF SetReadPointerToPort
<1>3. CallTyped /\ call \in Calls /\ ~Idle /\ chips[call.ch].configured
  BY <1>1, ResettingFacts
<1>4. call' = GoOn("read_port") \/ call' = GoOn("to_port_again") \/ call' = GoOn("read_port_again")
      \/ call' = DeviceResetDone(call.ports)
  BY <1>2 DEF SetReadPointerToPort, At
<1>5. call.ports \in BOOLEAN
  BY <1>3 DEF Calls
<1>6. SameCall /\ call'.step \in {"read_port", "to_port_again", "read_port_again", "command"}
  BY <1>3, <1>4, <1>5, CallFields, GoOnType, DeviceResetDoneType DEF SameCall, Steps, QuietSteps
<1>7. /\ UNCHANGED lines
      /\ \A d \in Channels : d # call.ch => chips'[d].configured = chips[d].configured
      /\ chips'[call.ch].configured
  BY <1>2, <1>3, WriteEffect, ExecutedFacts DEF ChipCommands, OneWireCommands, Wrote
<1>. QED
  BY <1>1, <1>6, <1>7, ResettingRefines DEF ResetSteps, PortSteps, SameCall

LEMMA ReadPortRefines == RInv /\ ReadPort => Refined
<1>. SUFFICES ASSUME RInv, ReadPort PROVE Refined
  OBVIOUS
<1>1. IInv' /\ call.step \in ResetSteps /\ call.step \in PortSteps
  BY ReadPortKeeps DEF RInv, ReadPort, At, ResetSteps, PortSteps
<1>2. PICK ok \in BOOLEAN :
        /\ Read(ok)
        /\ call' = IF At("read_port") THEN [GoOn("to_port_again") EXCEPT !.ports = ok]
                   ELSE DeviceResetDone(call.ports \/ ok)
  BY DEF ReadPort
<1>3. call \in Calls /\ ~Idle /\ chips[call.ch].configured /\ call.step # "done"
  BY <1>1, ResettingFacts DEF Idle
<1>4. SameCall /\ call'.step \in {"to_port_again", "command"}
  <2>1. /\ GoOn("to_port_again") \in Calls /\ GoOn("to_port_again").op = call.op
        /\ GoOn("to_port_again").ch = call.ch /\ GoOn("to_port_again").step = "to_port_again"
    BY <1>3, CallFields, GoOnType DEF Steps, QuietSteps
  <2>2. [GoOn("to_port_again") EXCEPT !.ports = ok] \in Calls
    BY <2>1 DEF Calls
  <2>3. LET c == [GoOn("to_port_again") EXCEPT !.ports = ok]
        IN  c.op = call.op /\ c.ch = call.ch /\ c.step = "to_port_again"
    BY <2>1 DEF Calls
  <2>4. (call.ports \/ ok) \in BOOLEAN
    OBVIOUS
  <2>5. LET d == DeviceResetDone(call.ports \/ ok)
        IN  d \in Calls /\ d.op = call.op /\ d.ch = call.ch /\ d.step = "command"
    BY <1>3, <2>4, CallFields, DeviceResetDoneType
  <2>. QED
    BY <1>2, <1>3, <2>2, <2>3, <2>5 DEF SameCall, Idle
<1>5. UNCHANGED <<chips, lines>>
  BY <1>2 DEF Read
<1>. QED
  BY <1>1, <1>3, <1>4, <1>5, ResettingRefines DEF ResetSteps, PortSteps, SameCall

LEMMA SameConfiguration ==
  ASSUME \A d \in Channels : chips'[d].configured = chips[d].configured
  PROVE  Configured' = Configured
BY DEF Configured

\* The command an operation gives to the chip.
CommandOf(op) == IF op = "begin" THEN "reset" ELSE op

LEMMA CommandFacts ==
  ASSUME NEW op \in Operations
  PROVE  /\ CommandOf(op) \in OneWireCommands /\ CommandOf(op) \in ChipCommands
         /\ \A a \in AnswersTo(CommandOf(op)), ch \in Channels :
              [activity |-> CommandOf(op), ch |-> ch, answer |-> a] \in Master!Activities(op, ch)
BY DEF Operations, CommandOf, OneWireCommands, ChipCommands, AnswersTo, Master!Activities,
       Master!ActivityOf, Master!AnswersTo

\* The command has reached the chip: the lines are at it.
LEMMA CommandReaches ==
  ASSUME TypeOK, call \in Calls, lines = <<>>, chips[call.ch] \in Chips,
         NEW a \in AnswersTo(CommandOf(call.op)), Wrote(CommandOf(call.op), a)
  PROVE  /\ \E r \in Master!Activities(call.op, call.ch) : lines' = <<r>> /\ r.answer = a
         /\ chips'[call.ch].work = [cmd |-> CommandOf(call.op), answer |-> a]
         /\ chips'[call.ch].pointer = "status"
         /\ chips'[call.ch].configured = chips[call.ch].configured
<1>. DEFINE r == [activity |-> CommandOf(call.op), ch |-> call.ch, answer |-> a]
<1>1. call.op \in Operations /\ call.ch \in Channels
  BY DEF Calls
<1>2. r \in Master!Activities(call.op, call.ch) /\ r.answer = a
  BY <1>1, CommandFacts
<1>3. CommandOf(call.op) \in OneWireCommands /\ CommandOf(call.op) \in ChipCommands
  BY <1>1, CommandFacts
<1>4. lines' = <<r>>
  BY <1>3 DEF Wrote
<1>5. CommandOf(call.op) \notin {"device_reset", "config"}
  BY <1>3 DEF OneWireCommands
<1>. QED
  BY <1>2, <1>3, <1>4, <1>5, ExecutedFacts DEF Wrote

LEMMA WriteCommandRefines == RInv /\ WriteCommand => Refined
<1>. SUFFICES ASSUME RInv, WriteCommand PROVE Refined
  OBVIOUS
<1>1. IInv' /\ TypeOK /\ ~Idle /\ call.step = "command"
  BY WriteCommandKeeps DEF RInv, IInv, WriteCommand, At, Idle
<1>2. call \in Calls /\ CallTyped /\ call # NoCall /\ call.op \in Operations
  BY <1>1, UnderWay, CallsAreNotNone DEF Calls
<1>3. lines = <<>>
  BY <1>1, <1>2 DEF RInv, LinesKnown, Before
<1>4. PICK ok \in BOOLEAN : Write(CommandOf(call.op), ok) /\ call' = Commanded(ok)
  BY DEF WriteCommand, CommandOf
<1>5. /\ \A d \in Channels : d # call.ch => chips'[d] = chips[d]
      /\ chips[call.ch] \in Chips
      /\ \/ ~ok /\ UNCHANGED <<chips, lines>>
         \/ \E a \in AnswersTo(CommandOf(call.op)) : Wrote(CommandOf(call.op), a)
  BY <1>2, <1>4, CommandFacts, WriteEffect
<1>6. Configured' = Configured
  BY <1>1, <1>2, <1>3, <1>5, CommandReaches, SameConfiguration
<1>7. CASE ok \/ call.op = "write"
  <2>1. call' = [GoOn("poll") EXCEPT !.ok = GoOn("poll").ok /\ ok]
    BY <1>4, <1>7 DEF Commanded
  <2>2. GoOn("poll") \in Calls /\ GoOn("poll").op = call.op /\ GoOn("poll").ch = call.ch
        /\ GoOn("poll").step = "poll" /\ GoOn("poll").ok = call.ok
    BY <1>2, CallFields, GoOnType DEF Steps
  <2>3. (GoOn("poll").ok /\ ok) \in BOOLEAN
    OBVIOUS
  <2>4. call' \in Calls /\ call'.op = call.op /\ call'.ch = call.ch /\ call'.step = "poll"
        /\ call'.ok = (GoOn("poll").ok /\ ok)
    BY <2>1, <2>2, <2>3 DEF Calls
  <2>5. call'.ok <=> (call.ok /\ ok)
    BY <2>2, <2>4, Zenon
  <2>6. SameCall
    BY <1>1, <2>4 DEF SameCall
  <2>7. CASE UNCHANGED <<chips, lines>> /\ ~ok
    <3>1. call.op = "write" /\ ~call'.ok
      BY <1>7, <2>5, <2>7
    <3>2. OperationKnown' /\ LinesKnown' /\ AnswerKnown' /\ ConfigKnown'
      BY <1>3, <2>4, <2>7, <3>1 DEF OperationKnown, LinesKnown, AnswerKnown, ConfigKnown,
         ResetSteps, Before, After
    <3>. QED
      BY <1>1, <1>6, <2>4, <2>6, <2>7, <3>2, SeenAsStutter DEF Refined, RInv
  <2>8. ASSUME NEW a \in AnswersTo(CommandOf(call.op)), Wrote(CommandOf(call.op), a)
        PROVE  Refined
    <3>1. PICK r \in Master!Activities(call.op, call.ch) : lines' = <<r>> /\ r.answer = a
      BY <1>1, <1>2, <1>3, <1>5, <2>8, CommandReaches
    <3>2. /\ chips'[call.ch].work = [cmd |-> CommandOf(call.op), answer |-> a]
          /\ chips'[call.ch].pointer = "status"
          /\ chips'[call.ch].configured = chips[call.ch].configured
      BY <1>1, <1>2, <1>3, <1>5, <2>8, CommandReaches
    <3>3. OperationKnown' /\ LinesKnown'
      BY <2>4, <3>1 DEF OperationKnown, LinesKnown, OwnActivity, ResetSteps, Before, After
    <3>4. AnswerKnown'
      <4>1. lines'[1].answer = a
        BY <3>1
      <4>2. [cmd |-> CommandOf(call.op), answer |-> a] # Nothing
        BY <1>2, CommandFacts DEF Nothing, OneWireCommands
      <4>. QED
        BY <2>4, <3>2, <4>1, <4>2 DEF AnswerKnown, AnswerIn, CommandOf
    <3>5. ConfigKnown'
      <4>1. call.op = "begin" /\ call.ok => chips[call.ch].configured
        BY <1>1, <1>2 DEF RInv, ConfigKnown
      <4>. QED
        BY <2>4, <2>5, <3>2, <4>1 DEF ConfigKnown, PortSteps
    <3>6. Master!Act
      BY <1>1, <1>3, <1>6, <2>4, <2>6, <3>1, SeenAsAct
    <3>. QED
      BY <1>1, <3>3, <3>4, <3>5, <3>6 DEF Refined, RInv, Master!Next
  <2>. QED
    BY <1>5, <2>7, <2>8
<1>8. CASE ~ok /\ call.op # "write"
  <2>1. call' = Return(FALSE, NoAnswer)
    BY <1>4, <1>8 DEF Commanded
  <2>2. SameCall /\ call'.step = "done" /\ ~call'.ok
    BY <1>1, <1>2, <2>1, CallFields, ReturnType DEF SameCall
  <2>3. \/ UNCHANGED lines
        \/ lines = <<>> /\ \E r \in Master!Activities(call.op, call.ch) : lines' = <<r>>
    BY <1>1, <1>2, <1>3, <1>5, CommandReaches
  <2>4. Master!Fail
    BY <1>1, <1>6, <2>2, <2>3, SeenAsFail
  <2>. QED
    BY <1>1, <2>2, <2>4, DoneKeeps DEF Refined, Master!Next
<1>. QED
  BY <1>7, <1>8

\* What a read that succeeds returns.
LEMMA ReadReturns ==
  ASSUME CallTyped, NEW ok \in BOOLEAN, Read(ok)
  PROVE  /\ UNCHANGED <<chips, lines>> /\ Configured' = Configured
         /\ chips[call.ch] \in Chips
         /\ ok => Received = Register(chips[call.ch])
<1>1. UNCHANGED <<chips, lines>>
  BY DEF Read
<1>2. chips[call.ch] \in Chips
  BY DEF CallTyped, Calls, TypeOK
<1>3. ok => selected' = call.ch
  BY DEF Read, SwitchToChannel
<1>4. ok => Received = Register(chips[call.ch])
  BY <1>3 DEF Received
<1>. QED
  BY <1>1, <1>2, <1>4 DEF Configured

LEMMA ReturnsOk ==
  ASSUME call \in Calls, ~Idle, NEW a \in Answers \cup {NoAnswer}, call' = Return(TRUE, a)
  PROVE  SameCall /\ call'.step = "done" /\ call'.ok /\ call'.answer = a
<1>1. call' \in Calls
  BY ReturnType
<1>2. Return(TRUE, a).ok = TRUE
  BY ReturnType
<1>3. call'.op = call.op /\ call'.ch = call.ch /\ call'.step = "done" /\ call'.answer = a
  BY CallFields
<1>. QED
  BY <1>1, <1>2, <1>3 DEF SameCall

\* The call gives up: seen as a failure, whatever it knew.
LEMMA GivesUp ==
  ASSUME RInv, IInv', call \in Calls, ~Idle, call' = Return(FALSE, NoAnswer), UNCHANGED lines,
         Configured' = Configured
  PROVE  Refined
<1>1. SameCall /\ call'.step = "done" /\ ~call'.ok
  BY CallFields, ReturnType DEF SameCall
<1>2. Master!Fail
  BY <1>1, SeenAsFail DEF RInv, IInv
<1>. QED
  BY <1>1, <1>2, DoneKeeps DEF Refined, Master!Next

\* While the lines are at work, or the answer is fetched, nothing changes what is known.
LEMMA WaitingRefines ==
  ASSUME RInv, IInv', SameCall, call.step = "poll", call'.ok = call.ok, UNCHANGED <<chips, lines>>,
         call'.step = "poll" \/ (call'.step = "to_data" /\ call.op = "read")
  PROVE  Refined
<1>1. TypeOK /\ call # NoCall
  BY CallsAreNotNone, UnderWay DEF RInv, IInv, SameCall
<1>2. Configured' = Configured
  BY DEF Configured
<1>3. OperationKnown' /\ LinesKnown' /\ ConfigKnown'
  BY <1>1 DEF RInv, SameCall, OperationKnown, LinesKnown, OwnActivity, ConfigKnown,
     ResetSteps, PortSteps, Before, After
<1>4. AnswerKnown'
  BY <1>1 DEF RInv, SameCall, AnswerKnown, AnswerIn, After
<1>. QED
  BY <1>1, <1>2, <1>3, <1>4, SeenAsStutter DEF Refined, RInv

LEMMA WaitEndRefines ==
  ASSUME RInv, IInv', CallTyped, ~Idle, call.step = "poll", Read(TRUE), ~Received.bit0, call' = WaitOver
  PROVE  Refined
<1>1. call \in Calls /\ call # NoCall /\ TypeOK /\ BusyIsVisible
  BY CallsAreNotNone DEF CallTyped, RInv, IInv
<1>2. /\ UNCHANGED <<chips, lines>> /\ Configured' = Configured
      /\ chips[call.ch] \in Chips /\ Received = Register(chips[call.ch])
  BY ReadReturns
<1>3. chips[call.ch].work = Nothing
  <2>1. call.ch \in Channels
    BY <1>1 DEF Calls
  <2>2. chips[call.ch].work # Nothing => chips[call.ch].pointer = "status"
    BY <1>1, <2>1 DEF BusyIsVisible, Busy
  <2>. QED
    BY <1>2, <2>2, RegisterShowsBusy
<1>4. OwnActivity \/ (lines = <<>> /\ call.op = "write" /\ ~call.ok)
  BY <1>1 DEF RInv, LinesKnown, After
<1>5. CASE call.op = "read"
  <2>1. call' = GoOn("to_data")
    BY <1>5 DEF WaitOver, At
  <2>2. SameCall /\ call'.step = "to_data" /\ call'.ok = call.ok
    BY <1>1, <2>1, CallFields, GoOnType DEF SameCall, Steps, QuietSteps
  <2>. QED
    BY <1>2, <1>5, <2>2, WaitingRefines
<1>6. CASE call.op = "triplet"
  <2>1. call' = Return(TRUE, Received.rest)
    BY <1>6 DEF WaitOver, At
  <2>2. PICK a : lines = <<a>>
    BY <1>4, <1>6 DEF OwnActivity
  <2>3. chips[call.ch].bits = lines[1].answer /\ chips[call.ch].pointer = "status"
    BY <1>1, <1>3, <1>6 DEF RInv, AnswerKnown, AnswerIn, After
  <2>4. Received.rest = a.answer /\ Received.rest \in Answers \cup {NoAnswer}
    BY <1>2, <2>2, <2>3 DEF Register, Chips
  <2>5. SameCall /\ call'.step = "done" /\ call'.ok /\ call'.answer = a.answer
    BY <1>1, <2>1, <2>4, ReturnsOk
  <2>6. Master!Succeed
    BY <1>1, <1>2, <1>6, <2>2, <2>5, SeenAsSucceed
  <2>. QED
    BY <2>5, <2>6, DoneKeeps DEF Refined, Master!Next
<1>7. CASE call.op \notin {"read", "triplet"}
  <2>1. call' = Return(call.ok, NoAnswer)
    BY <1>7 DEF WaitOver, At
  <2>2. CASE ~call.ok
    <3>1. call' = Return(FALSE, NoAnswer)
      <4>1. call.ok = FALSE
        BY <1>1, <2>2 DEF Calls
      <4>. QED
        BY <2>1, <4>1
    <3>. QED
      BY <1>1, <1>2, <3>1, GivesUp
  <2>3. CASE call.ok
    <3>1. PICK a \in Master!Activities(call.op, call.ch) : lines = <<a>>
      BY <1>4, <2>3 DEF OwnActivity
    <3>2. a.answer = NoAnswer
      BY <1>7 DEF Master!Activities, Master!AnswersTo
    <3>3. call' = Return(TRUE, NoAnswer)
      <4>1. call.ok = TRUE
        BY <1>1, <2>3 DEF Calls
      <4>. QED
        BY <2>1, <4>1
    <3>4. SameCall /\ call'.step = "done" /\ call'.ok /\ call'.answer = a.answer
      BY <1>1, <3>2, <3>3, ReturnsOk
    <3>5. call.op = "begin" => chips[call.ch].configured
      BY <1>1, <2>3 DEF RInv, ConfigKnown
    <3>6. Master!Succeed
      BY <1>1, <1>2, <3>1, <3>4, <3>5, SeenAsSucceed
    <3>. QED
      BY <3>4, <3>6, DoneKeeps DEF Refined, Master!Next
  <2>. QED
    BY <2>2, <2>3
<1>. QED
  BY <1>5, <1>6, <1>7

LEMMA ReadStatusRefines == RInv /\ ReadStatus => Refined
<1>. SUFFICES ASSUME RInv, ReadStatus PROVE Refined
  OBVIOUS
<1>1. IInv' /\ TypeOK /\ ~Idle /\ call.step \in {"reset_poll", "poll_before", "poll"}
  BY ReadStatusKeeps DEF RInv, IInv, ReadStatus, At, Idle
<1>2. call \in Calls /\ CallTyped /\ call # NoCall
  BY <1>1, UnderWay, CallsAreNotNone
<1>3. PICK ok \in BOOLEAN :
        /\ Read(ok)
        /\ call' = CASE ~ok                    -> WaitFailed
                     [] ok /\ ~Received.bit0   -> WaitOver
                     [] ok /\ Received.bit0    -> IF LastPoll THEN WaitFailed ELSE PollAgain
  BY DEF ReadStatus
<1>4. \/ call' = WaitFailed
      \/ ok /\ ~Received.bit0 /\ call' = WaitOver
      \/ ~LastPoll /\ call' = PollAgain
  BY <1>3
<1>5. UNCHANGED <<chips, lines>> /\ Configured' = Configured
  BY <1>2, <1>3, ReadReturns
<1>6. ~LastPoll /\ call' = PollAgain => SameCall /\ call'.step = call.step /\ call'.ok = call.ok
  <2>. SUFFICES ASSUME ~LastPoll, call' = PollAgain
                PROVE  SameCall /\ call'.step = call.step /\ call'.ok = call.ok
    OBVIOUS
  <2>1. call' \in Calls /\ call'.step = call.step
    BY <1>2, PollAgainType
  <2>2. PollAgain.op = call.op /\ PollAgain.ch = call.ch /\ PollAgain.ok = call.ok
    BY <1>2 DEF PollAgain, Calls
  <2>. QED
    BY <1>1, <2>1, <2>2 DEF SameCall
<1>7. CASE call.step = "reset_poll"
  <2>1. WaitFailed = DeviceResetDone(FALSE) /\ WaitOver = GoOn("config")
    BY <1>7 DEF WaitFailed, WaitOver, At
  <2>2. SameCall /\ (call'.step \in {"config", "reset_poll"} \/ (call'.step = "command" /\ ~call'.ok))
    <3>1. CASE call' = DeviceResetDone(FALSE)
      BY <1>1, <1>2, <3>1, CallFields, DeviceResetDoneType DEF SameCall
    <3>2. CASE call' = GoOn("config")
      BY <1>1, <1>2, <3>2, CallFields, GoOnType DEF SameCall, Steps, QuietSteps
    <3>. QED
      BY <1>4, <1>6, <1>7, <2>1, <3>1, <3>2
  <2>. QED
    BY <1>1, <1>5, <1>7, <2>2, ResettingRefines DEF ResetSteps, PortSteps
<1>8. CASE call.step = "poll_before"
  <2>1. WaitFailed = Return(FALSE, NoAnswer) /\ WaitOver = GoOn("command")
    BY <1>8 DEF WaitFailed, WaitOver, At
  <2>2. call.op = "triplet" /\ lines = <<>>
    BY <1>2, <1>8 DEF RInv, OperationKnown, LinesKnown, Before
  <2>3. CASE call' = Return(FALSE, NoAnswer)
    BY <1>1, <1>2, <1>5, <2>3, GivesUp
  <2>4. CASE call' # Return(FALSE, NoAnswer)
    <3>1. SameCall /\ call'.step \in {"command", "poll_before"}
      <4>1. CASE call' = GoOn("command")
        BY <1>1, <1>2, <4>1, CallFields, GoOnType DEF SameCall, Steps
      <4>. QED
        BY <1>4, <1>6, <1>8, <2>1, <2>4, <4>1
    <3>2. RInv'
      BY <1>1, <1>5, <2>2, <3>1, BeforeKeeps DEF Before, ResetSteps, PortSteps
    <3>3. UNCHANGED Master!vars
      BY <1>1, <1>5, <3>1, SeenAsStutter
    <3>. QED
      BY <3>2, <3>3 DEF Refined
  <2>. QED
    BY <2>3, <2>4
<1>9. CASE call.step = "poll"
  <2>1. WaitFailed = Return(FALSE, NoAnswer)
    BY <1>9 DEF WaitFailed, At
  <2>2. CASE call' = WaitFailed
    BY <1>1, <1>2, <1>5, <2>1, <2>2, GivesUp
  <2>3. CASE ok /\ ~Received.bit0 /\ call' = WaitOver
    <3>1. Read(TRUE)
      BY <1>3, <2>3
    <3>. QED
      BY <1>1, <1>2, <1>9, <2>3, <3>1, WaitEndRefines
  <2>4. CASE ~LastPoll /\ call' = PollAgain
    BY <1>1, <1>5, <1>6, <1>9, <2>4, WaitingRefines
  <2>. QED
    BY <1>4, <2>2, <2>3, <2>4
<1>. QED
  BY <1>1, <1>7, <1>8, <1>9

\* What is known of a call that fetches the byte it has read.
LEMMA FetchingFacts ==
  ASSUME RInv, call.step \in {"to_data", "read_data"}
  PROVE  /\ CallTyped /\ call \in Calls /\ call # NoCall /\ TypeOK /\ ~Idle
         /\ call.op = "read" /\ OwnActivity
         /\ AnswerIn(chips[call.ch], "read", chips[call.ch].data)
         /\ call.step = "read_data" => chips[call.ch].pointer = "data"
<1>1. TypeOK /\ ~Idle
  BY DEF RInv, IInv, Idle
<1>2. call \in Calls /\ CallTyped /\ call # NoCall
  BY <1>1, UnderWay, CallsAreNotNone
<1>3. call.op = "read"
  BY <1>2 DEF RInv, OperationKnown
<1>. QED
  BY <1>1, <1>2, <1>3 DEF RInv, LinesKnown, AnswerKnown, After

LEMMA SetReadPointerToDataRefines == RInv /\ SetReadPointerToData => Refined
<1>. SUFFICES ASSUME RInv, SetReadPointerToData PROVE Refined
  OBVIOUS
<1>1. IInv' /\ call.step = "to_data"
  BY SetReadPointerToDataKeeps DEF RInv, SetReadPointerToData, At
<1>2. PICK ok \in BOOLEAN :
        Write("to_data", ok) /\ call' = IF ok THEN GoOn("read_data") ELSE Return(FALSE, NoAnswer)
  BY DEF SetReadPointerToData
<1>3. /\ CallTyped /\ call \in Calls /\ call # NoCall /\ TypeOK /\ ~Idle /\ call.op = "read" /\ OwnActivity
      /\ AnswerIn(chips[call.ch], "read", chips[call.ch].data)
  BY <1>1, FetchingFacts
<1>4. "to_data" \in ChipCommands /\ "to_data" \notin OneWireCommands
  BY DEF ChipCommands, OneWireCommands
<1>5. /\ \A d \in Channels : d # call.ch => chips'[d] = chips[d]
      /\ chips[call.ch] \in Chips /\ call.ch \in Channels
      /\ \/ ~ok /\ UNCHANGED <<chips, lines>>
         \/ \E a \in AnswersTo("to_data") : Wrote("to_data", a)
  BY <1>2, <1>3, <1>4, WriteEffect
<1>6. ASSUME NEW a \in AnswersTo("to_data"), Wrote("to_data", a)
      PROVE  /\ chips'[call.ch].configured = chips[call.ch].configured
             /\ chips'[call.ch].work = chips[call.ch].work
             /\ chips'[call.ch].data = chips[call.ch].data
             /\ chips'[call.ch].pointer = "data" /\ UNCHANGED lines
  <2>1. LET e == Executed(chips[call.ch], "to_data", a)
        IN  /\ e.configured = chips[call.ch].configured /\ e.work = chips[call.ch].work
            /\ e.data = chips[call.ch].data /\ e.pointer = "data"
    BY <1>5, <1>6 DEF Executed, OneWireCommands, Chips
  <2>. QED
    BY <1>4, <1>6, <2>1 DEF Wrote
<1>7. UNCHANGED lines /\ Configured' = Configured
  BY <1>5, <1>6, SameConfiguration
<1>8. CASE ~ok
  BY <1>1, <1>2, <1>3, <1>7, <1>8, GivesUp
<1>9. CASE ok
  <2>1. SameCall /\ call'.step = "read_data"
    BY <1>2, <1>3, <1>9, CallFields, GoOnType DEF SameCall, Steps, QuietSteps
  <2>2. /\ chips'[call.ch].work = chips[call.ch].work /\ chips'[call.ch].data = chips[call.ch].data
        /\ chips'[call.ch].pointer = "data"
    BY <1>5, <1>6, <1>9
  <2>3. OperationKnown' /\ LinesKnown' /\ ConfigKnown'
    BY <1>3, <1>7, <2>1 DEF SameCall, OperationKnown, LinesKnown, OwnActivity, ConfigKnown,
       ResetSteps, PortSteps, Before, After
  <2>4. AnswerKnown'
    BY <1>3, <1>7, <2>1, <2>2 DEF SameCall, AnswerKnown, AnswerIn, After
  <2>5. UNCHANGED Master!vars
    BY <1>3, <1>7, <2>1, SeenAsStutter
  <2>. QED
    BY <1>1, <2>3, <2>4, <2>5 DEF Refined, RInv
<1>. QED
  BY <1>8, <1>9

LEMMA ReadDataRefines == RInv /\ ReadData => Refined
<1>. SUFFICES ASSUME RInv, ReadData PROVE Refined
  OBVIOUS
<1>1. IInv' /\ call.step = "read_data"
  BY ReadDataKeeps DEF RInv, ReadData, At
<1>2. PICK ok \in BOOLEAN :
        Read(ok) /\ call' = IF ok THEN Return(TRUE, Received.rest) ELSE Return(FALSE, NoAnswer)
  BY DEF ReadData
<1>3. /\ CallTyped /\ call \in Calls /\ call # NoCall /\ TypeOK /\ ~Idle /\ call.op = "read" /\ OwnActivity
      /\ AnswerIn(chips[call.ch], "read", chips[call.ch].data) /\ chips[call.ch].pointer = "data"
  BY <1>1, FetchingFacts
<1>4. /\ UNCHANGED <<chips, lines>> /\ Configured' = Configured
      /\ chips[call.ch] \in Chips /\ (ok => Received = Register(chips[call.ch]))
  BY <1>2, <1>3, ReadReturns
<1>5. CASE ~ok
  BY <1>1, <1>2, <1>3, <1>4, <1>5, GivesUp
<1>6. CASE ok
  <2>1. chips[call.ch].work = Nothing
    BY <1>1, <1>3 DEF RInv, IInv, Quiet, QuietSteps, Busy
  <2>2. PICK a : lines = <<a>>
    BY <1>3 DEF OwnActivity
  <2>3. Received.rest = a.answer /\ Received.rest \in Answers \cup {NoAnswer}
    BY <1>3, <1>4, <1>6, <2>1, <2>2 DEF AnswerIn, Register, Chips
  <2>4. SameCall /\ call'.step = "done" /\ call'.ok /\ call'.answer = a.answer
    BY <1>2, <1>3, <1>6, <2>3, ReturnsOk
  <2>5. Master!Succeed
    BY <1>3, <1>4, <2>2, <2>4, SeenAsSucceed
  <2>. QED
    BY <1>1, <2>4, <2>5, DoneKeeps DEF Refined, Master!Next
<1>. QED
  BY <1>5, <1>6

\* A chip that comes to rest has moved its answer to the register.
LEMMA FinishedFacts ==
  ASSUME NEW chip \in Chips, chip.work # Nothing
  PROVE  LET f == Finished(chip)
         IN  /\ f.configured = chip.configured /\ f.pointer = chip.pointer /\ f.work = Nothing
             /\ chip.work.cmd = "read" => f.data = chip.work.answer
             /\ chip.work.cmd = "triplet" => f.bits = chip.work.answer
BY DEF Finished, Chips

LEMMA CompleteRefines == ASSUME NEW ch \in Channels PROVE RInv /\ Complete(ch) => Refined
<1>. SUFFICES ASSUME RInv, Complete(ch) PROVE Refined
  OBVIOUS
<1>1. IInv' /\ TypeOK
  BY CompleteKeeps DEF RInv, IInv
<1>2. /\ chips[ch] \in Chips /\ chips[ch].work # Nothing /\ chips'[ch] = Finished(chips[ch])
      /\ \A d \in Channels : d # ch => chips'[d] = chips[d]
      /\ UNCHANGED <<call, lines>>
  BY <1>1 DEF Complete, Busy, TypeOK
<1>3. \A d \in Channels : chips'[d].configured = chips[d].configured /\ chips'[d].pointer = chips[d].pointer
  BY <1>2, FinishedFacts
<1>4. call # NoCall => call.ch \in Channels
  BY <1>1 DEF TypeOK, Calls
<1>5. OperationKnown' /\ LinesKnown' /\ ConfigKnown'
  BY <1>2, <1>3, <1>4 DEF RInv, OperationKnown, LinesKnown, OwnActivity, ConfigKnown, PortSteps
<1>6. AnswerKnown'
  <2>. SUFFICES ASSUME call # NoCall, call.step \in After PROVE AnswerKnown'
    BY <1>2 DEF AnswerKnown
  <2>. DEFINE c == call.ch
  <2>1. \/ chips'[c] = chips[c]
        \/ c = ch
    BY <1>2, <1>4
  <2>2. AnswerIn(chips[c], "read", chips[c].data) => AnswerIn(chips[c], "read", chips[c].data)'
    BY <1>2, <2>1, FinishedFacts DEF AnswerIn
  <2>3. AnswerIn(chips[c], "triplet", chips[c].bits) => AnswerIn(chips[c], "triplet", chips[c].bits)'
    BY <1>2, <2>1, FinishedFacts DEF AnswerIn
  <2>. QED
    BY <1>2, <1>3, <1>4, <2>2, <2>3 DEF RInv, AnswerKnown
<1>7. CallSeen' = CallSeen
  BY <1>2 DEF CallSeen, Idle, Succeeded
<1>8. UNCHANGED Master!vars
  BY <1>2, <1>3, <1>7, SameConfiguration DEF Master!vars, Configured
<1>. QED
  BY <1>1, <1>5, <1>6, <1>8 DEF Refined, RInv

\* A new call begins without any activity.
LEMMA CalledRefines ==
  ASSUME RInv, IInv', NEW op \in Operations, NEW ch \in Channels, Called(op, ch)
  PROVE  Refined
<1>1. TypeOK /\ ~Master!Running
  BY RunningFacts DEF RInv, IInv, Called
<1>2. /\ call'.op = op /\ call'.ch = ch /\ call'.step = FirstStep(op)
      /\ lines' = <<>> /\ UNCHANGED chips
  BY DEF Called
<1>3. /\ FirstStep(op) \in {"device_reset", "poll_before", "command"}
      /\ FirstStep(op) = "device_reset" <=> op = "begin"
      /\ FirstStep(op) = "poll_before" <=> op = "triplet"
  BY DEF FirstStep
<1>4. OperationKnown' /\ LinesKnown' /\ AnswerKnown' /\ ConfigKnown'
  BY <1>2, <1>3 DEF OperationKnown, LinesKnown, AnswerKnown, ConfigKnown, ResetSteps, PortSteps,
     Before, After
<1>5. CallSeen' = [op |-> op, ch |-> ch, state |-> "running"]
  BY <1>2, <1>3, NextSeenFacts DEF SeenOK, RunningSeen, Idle
<1>6. Master!Start(op, ch)
  BY <1>1, <1>2, <1>5 DEF Master!Start
<1>7. op \in Master!Operations
  BY DEF Operations, Master!Operations
<1>. QED
  BY <1>4, <1>6, <1>7 DEF Refined, RInv, Master!Next

LEMMA SetupRefines == RInv /\ SetupBusMaster => Refined
<1>. SUFFICES ASSUME RInv, SetupBusMaster PROVE Refined
  OBVIOUS
<1>1. setup \in Channels /\ Called("begin", setup) /\ IInv'
  BY SetupKeeps DEF SetupBusMaster, RInv
<1>. QED
  BY <1>1, CalledRefines DEF Operations

LEMMA OperateRefines == ASSUME NEW use \in Uses PROVE RInv /\ Operate(use[1], use[2]) => Refined
<1>. SUFFICES ASSUME RInv, Operate(use[1], use[2]) PROVE Refined
  OBVIOUS
<1>1. use[1] \in Operations /\ use[2] \in Channels
  BY UseAssumption DEF Operations, Channels
<1>2. Called(use[1], use[2]) /\ IInv'
  BY OperateKeeps DEF Operate, RInv
<1>. QED
  BY <1>1, <1>2, CalledRefines

LEMMA RestartRefines == RInv /\ (SystemBegin \/ Reboot \/ UNCHANGED vars) => Refined
<1>. SUFFICES ASSUME RInv, SystemBegin \/ Reboot \/ UNCHANGED vars PROVE Refined
  OBVIOUS
<1>1. IInv'
  BY RestartKeeps DEF RInv
<1>2. CASE SystemBegin \/ UNCHANGED vars
  <2>1. UNCHANGED <<chips, call, lines>>
    BY <1>2 DEF SystemBegin, vars
  <2>2. OperationKnown' /\ LinesKnown' /\ AnswerKnown' /\ ConfigKnown'
    BY <2>1 DEF RInv, OperationKnown, LinesKnown, OwnActivity, AnswerKnown, AnswerIn, ConfigKnown
  <2>3. UNCHANGED Master!vars
    BY <2>1 DEF Master!vars, CallSeen, Idle, Succeeded
  <2>. QED
    BY <1>1, <2>2, <2>3 DEF Refined, RInv
<1>3. CASE Reboot
  <2>1. call' = NoCall /\ lines' = <<>> /\ UNCHANGED chips
    BY <1>3 DEF Reboot
  <2>2. OperationKnown' /\ LinesKnown' /\ AnswerKnown' /\ ConfigKnown'
    BY <2>1 DEF OperationKnown, LinesKnown, AnswerKnown, ConfigKnown
  <2>3. CallSeen' = Master!NoCall
    BY <2>1, NextSeenFacts DEF SeenOK, NoCall
  <2>4. Master!Reboot
    BY <2>1, <2>3 DEF Master!Reboot
  <2>. QED
    BY <1>1, <2>2, <2>4 DEF Refined, RInv, Master!Next
<1>. QED
  BY <1>2, <1>3

LEMMA InitRefines == Init => RInv /\ Master!Init
<1>. SUFFICES ASSUME Init PROVE RInv /\ Master!Init
  OBVIOUS
<1>1. IInv /\ call = NoCall /\ lines = <<>>
  BY InitIInv DEF Init
<1>2. OperationKnown /\ LinesKnown /\ AnswerKnown /\ ConfigKnown
  BY <1>1 DEF OperationKnown, LinesKnown, AnswerKnown, ConfigKnown
<1>3. CallSeen = Master!NoCall
  BY <1>1, SeenFacts DEF SeenOK
<1>. QED
  BY <1>1, <1>2, <1>3 DEF RInv, Master!Init

LEMMA NextRefines == RInv /\ [Next]_vars => Refined
BY ResetDeviceRefines, WriteDeviceConfigRefines, ReadBackConfigRefines, SetReadPointerToPortRefines,
   ReadPortRefines, WriteCommandRefines, ReadStatusRefines, SetReadPointerToDataRefines,
   ReadDataRefines, CompleteRefines, SetupRefines, OperateRefines, RestartRefines DEF Next, DriverStep

\* Each driver call does what the 1-wire layer relies on: one that succeeds has caused
\* exactly the activity it was made for, on its own lines, and returns their answer to
\* it; whatever fails, no other channel is disturbed; only a begin changes what is
\* configured, and a begin that succeeds has configured its chip.
THEOREM ImplementsMaster == Spec => RefinesMaster
<1>1. RInv /\ [Next]_vars => RInv' /\ [Master!Next]_Master!vars
  BY NextRefines DEF Refined
<1>. QED
  BY <1>1, InitRefines, PTL DEF Spec, RefinesMaster, Master!Spec

=============================================================================
