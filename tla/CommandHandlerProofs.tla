------------------------ MODULE CommandHandlerProofs ------------------------
(***************************************************************************)
(* Theorems about CommandHandler, for every set of devices and families,   *)
(* every queue size and any number of client requests.                     *)
(***************************************************************************)
EXTENDS CommandHandler, FunctionTheorems, FiniteSetTheorems, SequenceTheorems, TLAPS

LEMMA CommandsHaveNoZeroId == \A c \in Commands : c.id # 0 /\ c # NoCommand
<1>1. SUFFICES ASSUME NEW c \in Commands PROVE c.id # 0 /\ c # NoCommand
  OBVIOUS
<1>2. c.id \in 1 .. MaxRequests
  BY DEF Commands, Requests
<1>3. c.id # 0
  BY <1>2, BoundAssumption
<1>. QED
  BY <1>3 DEF NoCommand

LEMMA SubscriptionsAreNotNone == NotSubscribed \notin Subscriptions
<1>1. SUFFICES ASSUME NotSubscribed \in Subscriptions PROVE FALSE
  OBVIOUS
<1>2. "command" \in DOMAIN NotSubscribed
  BY <1>1 DEF Subscriptions
<1>. QED
  BY <1>2 DEF NotSubscribed

LEMMA KeysAreTargets ==
  /\ \A i \in 1 .. Len(SubscriptionOrder) : SubscriptionOrder[i] \in Keys
  /\ Len(SubscriptionOrder) \in Nat \ {0}
  /\ 1 \in 1 .. Len(SubscriptionOrder)
BY OrderAssumption DEF Keys

\* Queue operations keep the queue well typed and within its capacity.
LEMMA EnqueueType ==
  ASSUME NEW q \in Seq(Commands), Len(q) <= QueueSize, NEW c \in Commands
  PROVE  LET r == IF Len(q) < QueueSize THEN Append(q, c) ELSE q
         IN  r \in Seq(Commands) /\ Len(r) <= QueueSize
BY BoundAssumption

LEMMA DequeueType ==
  ASSUME NEW q \in Seq(Commands), q # <<>>, Len(q) <= QueueSize
  PROVE  /\ Head(q) \in Commands
         /\ Tail(q) \in Seq(Commands)
         /\ Len(Tail(q)) = Len(q) - 1
BY HeadTailProperties

-----------------------------------------------------------------------------
\* ---- Type correctness ----

\* Sending a response or dropping a command leaves a legal status.
LEMMA FinishType ==
  ASSUME TypeOK, NEW c \in Commands, NEW o \in Statuses, Finish(c, o)
  PROVE  status' \in [Requests -> Statuses]
BY DEF TypeOK, Finish

\* Re-queueing a command keeps queue and status well typed.
LEMMA RequeueType ==
  ASSUME TypeOK, NEW c \in Commands, Requeue(c)
  PROVE  /\ queue' \in Seq(Commands) /\ Len(queue') <= QueueSize
         /\ status' \in [Requests -> Statuses]
<1>1. queue' \in Seq(Commands) /\ Len(queue') <= QueueSize
  BY EnqueueType DEF TypeOK, Requeue, EnqueueCommand, Room
<1>2. "lost" \in Statuses
  BY DEF Statuses
<1>. QED
  BY <1>1, <1>2, FinishType DEF TypeOK, Requeue

\* What every branch of a handler that only responds or re-queues establishes.
HandlerType ==
  /\ queue' \in Seq(Commands) /\ Len(queue') <= QueueSize
  /\ status' \in [Requests -> Statuses]

LEMMA RespondType ==
  ASSUME TypeOK, current \in Commands, NEW o \in Statuses, Respond(o)
  PROVE  HandlerType
BY FinishType DEF TypeOK, Respond, HandlerType

LEMMA SampleAndReadType ==
  ASSUME TypeOK, current \in Commands, NEW f \in FamilyCodes, SampleAndRead(f)
  PROVE  HandlerType
<1>0. {"answered", "failed"} \subseteq Statuses
  BY DEF Statuses
<1>1. PICK ok \in BOOLEAN :
        \/ Requeue([current EXCEPT !.sub_action = "ReadResult",
                                   !.timer = Reset(SamplingTime[f])])
        \/ Respond("failed")
        \/ Respond(IF ok THEN "answered" ELSE "failed")
  BY DEF SampleAndRead
<1>2. [current EXCEPT !.sub_action = "ReadResult", !.timer = Reset(SamplingTime[f])] \in Commands
  BY BoundAssumption DEF Commands, Reset
<1>. QED
  BY <1>0, <1>1, <1>2, RequeueType, RespondType DEF HandlerType

\* A reboot leads to a well-typed state, whatever becomes of the requests.
LEMMA RestartType ==
  ASSUME Restarted, status' \in [Requests -> Statuses]
  PROVE  TypeOK'
<1>1. queue' \in Seq(Commands) /\ Len(queue') <= QueueSize
  BY BoundAssumption DEF Restarted
<1>2. subscriptions' \in [Keys -> Subscriptions \cup {NotSubscribed}]
  BY DEF Restarted
<1>3. registry' \in [Devices -> Entries]
  BY DEF Restarted, Entries
<1>4. current' = NoCommand /\ pc' = "receive" /\ cursor' = 1 /\ intruded' = FALSE
  BY DEF Restarted
<1>. QED
  BY <1>1, <1>2, <1>3, <1>4, KeysAreTargets DEF TypeOK

LEMMA RebootType ==
  ASSUME TypeOK, NEW o \in Statuses, Reboot(o)
  PROVE  TypeOK'
BY RestartType DEF Reboot, TypeOK, Statuses

\* A handler that returns does so with a well-typed state.
LEMMA HandledType ==
  ASSUME TypeOK, HandlerType, Handled, registry' \in [Devices -> Entries]
  PROVE  TypeOK'
BY DEF TypeOK, HandlerType, Handled, Done

LEMMA PresenceType ==
  ASSUME TypeOK, current \in Commands, ProcessPresence
  PROVE  TypeOK'
<1>0. {"answered", "failed", "lost"} \subseteq Statuses
  BY DEF Statuses
<1>1. PICK found \in ScanResults(current.target), ok \in BOOLEAN :
        \/ Reboot("lost")
        \/ registry' = found /\ Respond(IF ok THEN "answered" ELSE "failed") /\ Handled
  BY DEF ProcessPresence
<1>2. CASE Reboot("lost")
  BY <1>0, <1>2, RebootType
<1>3. CASE registry' = found /\ Respond(IF ok THEN "answered" ELSE "failed") /\ Handled
  <2>1. HandlerType
    BY <1>0, <1>3, RespondType
  <2>2. registry' \in [Devices -> Entries]
    BY <1>1, <1>3 DEF ScanResults
  <2>. QED
    BY <1>3, <2>1, <2>2, HandledType
<1>. QED
  BY <1>1, <1>2, <1>3

LEMMA ReadType ==
  ASSUME TypeOK, current \in Commands, ProcessActionRead
  PROVE  TypeOK'
<1>0. {"answered", "failed", "silent", "lost"} \subseteq Statuses
  BY DEF Statuses
<1>1. \A d \in Devices : FamilyOf[d] \in FamilyCodes
  BY FamilyAssumption
<1>2. Respond("failed") => HandlerType
  BY <1>0, RespondType
<1>3. UNCHANGED registry => registry' \in [Devices -> Entries]
  BY DEF TypeOK
<1>4. ASSUME NEW d \in Devices, ReadDevice(d) PROVE TypeOK'
  <2>1. ProcessReadSingleDevice(d) => HandlerType
    BY <1>1, <1>2, SampleAndReadType DEF ProcessReadSingleDevice
  <2>. QED
    BY <1>2, <1>3, <1>4, <2>1, HandledType DEF ReadDevice
<1>5. ASSUME NEW f \in FamilyCodes, ReadFamily(f) PROVE TypeOK'
  <2>1. ProcessReadDeviceFamily(f) => HandlerType
    BY <1>0, RespondType, SampleAndReadType DEF ProcessReadDeviceFamily
  <2>. QED
    BY <1>0, <1>2, <1>3, <1>5, <2>1, RebootType, HandledType DEF ReadFamily
<1>. QED
  BY <1>2, <1>3, <1>4, <1>5, PresenceType, HandledType, FamilyAssumption DEF ProcessActionRead

LEMMA RequestIsCommand ==
  ASSUME NEW r \in Requests, NEW c \in ClientCommands
  PROVE  InitEmptyCommand(r, c) \in Commands
BY RequestAssumption DEF InitEmptyCommand, Commands, RequestContents

\* Subscribing stores a well-typed entry and re-queues a well-typed command.
LEMMA ConvertType ==
  ASSUME NEW c \in Commands
  PROVE  ConvertSubscribeToReadCommand(c) \in Commands
BY DEF ConvertSubscribeToReadCommand, Commands

LEMMA CountDownType ==
  ASSUME NEW c \in Commands
  PROVE  [c EXCEPT !.timer = CountDown(@)] \in Commands
BY DEF Commands, CountDown

LEMMA TickQueue ==
  ASSUME TypeOK, Tick
  PROVE  /\ queue' \in Seq(Commands)
         /\ Len(queue') = Len(queue)
         /\ DOMAIN queue' = DOMAIN queue
         /\ \A i \in DOMAIN queue : queue'[i] = [queue[i] EXCEPT !.timer = CountDown(@)]
<1>. DEFINE e(i) == [queue[i] EXCEPT !.timer = CountDown(@)]
<1>1. queue' = [i \in 1 .. Len(queue) |-> e(i)]
  BY DEF Tick, TypeOK
<1>2. \A i \in 1 .. Len(queue) : queue[i] \in Commands
  BY DEF TypeOK
<1>3. \A i \in 1 .. Len(queue) : e(i) \in Commands
  BY <1>2, CountDownType
<1>4. Len(queue) \in Nat /\ DOMAIN queue = 1 .. Len(queue)
  BY DEF TypeOK
<1>. HIDE DEF e
<1>5. queue' \in Seq(Commands) /\ Len(queue') = Len(queue)
  BY <1>1, <1>3, <1>4
<1>6. DOMAIN queue' = DOMAIN queue /\ \A i \in DOMAIN queue : queue'[i] = e(i)
  BY <1>1, <1>4
<1>. QED
  BY <1>5, <1>6 DEF e

LEMMA MqttTaskType == TypeOK /\ MqttTask => TypeOK'
<1>. SUFFICES ASSUME TypeOK, MqttTask PROVE TypeOK'
  OBVIOUS
<1>0. {"failed", "pending", "refused"} \subseteq Statuses
  BY DEF Statuses
<1>1. ASSUME NEW r \in Requests, NEW c \in ClientCommands, MqttMessage(r, c)
      PROVE  TypeOK'
  <2>1. queue' \in Seq(Commands) /\ Len(queue') <= QueueSize
    BY <1>1, EnqueueType, RequestIsCommand DEF MqttMessage, EnqueueCommand, Room, TypeOK
  <2>2. status' \in [Requests -> Statuses] /\ intruded' \in BOOLEAN
    BY <1>0, <1>1 DEF MqttMessage, TypeOK, Room
  <2>. QED
    BY <1>1, <2>1, <2>2 DEF MqttMessage, TypeOK
<1>2. ASSUME NEW r \in Requests, MalformedMessage(r)
      PROVE  TypeOK'
  BY <1>0, <1>2 DEF MalformedMessage, TypeOK
<1>3. ASSUME NEW r \in Requests, UnreadableAddress(r)
      PROVE  TypeOK'
  BY <1>3, RestartType DEF UnreadableAddress, TypeOK, Statuses
<1>. QED
  BY <1>1, <1>2, <1>3 DEF MqttTask

LEMMA TickType == TypeOK /\ Tick => TypeOK'
<1>. SUFFICES ASSUME TypeOK, Tick PROVE TypeOK'
  OBVIOUS
<1>1. queue' \in Seq(Commands) /\ Len(queue') <= QueueSize
  BY TickQueue DEF TypeOK
<1>2. current' \in Commands \cup {NoCommand} /\ (pc = "process" <=> current' # NoCommand)
  <2>1. CASE current = NoCommand
    BY <2>1 DEF Tick, TypeOK
  <2>2. CASE current \in Commands
    BY <2>2, CountDownType, CommandsHaveNoZeroId DEF Tick, TypeOK
  <2>. QED
    BY <2>1, <2>2 DEF TypeOK
<1>3. subscriptions' \in [Keys -> Subscriptions \cup {NotSubscribed}]
  <2>. SUFFICES ASSUME NEW k \in Keys, Subscribed(k)
                PROVE  [subscriptions[k] EXCEPT !.timer = CountDown(@)] \in Subscriptions
    BY DEF Tick
  <2>1. subscriptions[k] \in Subscriptions
    BY DEF Subscribed, TypeOK
  <2>. QED
    BY <2>1 DEF Subscriptions, CountDown
<1>. QED
  BY <1>1, <1>2, <1>3 DEF Tick, TypeOK

LEMMA SubscribeType == TypeOK /\ ProcessActionSubscribe => TypeOK'
<1>. SUFFICES ASSUME TypeOK, ProcessActionSubscribe PROVE TypeOK'
  OBVIOUS
<1>. DEFINE read == ConvertSubscribeToReadCommand(current)
            entry == [delay |-> current.interval, timer |-> Reset(current.interval),
                      command |-> read]
<1>0. {"updated", "subscribed"} \subseteq Statuses
  BY DEF Statuses
<1>1. current \in Commands
  BY DEF TypeOK, ProcessActionSubscribe, Dispatch
<1>2. read \in Commands
  BY <1>1, ConvertType
<1>3. entry \in Subscriptions
  BY <1>1, <1>2 DEF Subscriptions, Commands, Reset
<1>4. subscriptions' \in [Keys -> Subscriptions \cup {NotSubscribed}]
  BY <1>3 DEF ProcessActionSubscribe, TypeOK
<1>5. queue' \in Seq(Commands) /\ Len(queue') <= QueueSize
  BY <1>2, EnqueueType DEF ProcessActionSubscribe, EnqueueCommand, Room, TypeOK
<1>6. status' \in [Requests -> Statuses]
  BY <1>0, <1>1, FinishType DEF ProcessActionSubscribe
<1>. QED
  BY <1>4, <1>5, <1>6 DEF ProcessActionSubscribe, Dispatch, Done, TypeOK

LEMMA UnsubscribeType == TypeOK /\ ProcessActionUnsubscribe => TypeOK'
<1>. SUFFICES ASSUME TypeOK, ProcessActionUnsubscribe PROVE TypeOK'
  OBVIOUS
<1>0. {"answered", "failed"} \subseteq Statuses
  BY DEF Statuses
<1>1. HandlerType
  BY <1>0, RespondType DEF TypeOK, ProcessActionUnsubscribe, Dispatch
<1>. QED
  BY <1>1 DEF HandlerType, ProcessActionUnsubscribe, Dispatch, Done, TypeOK

LEMMA SubscriptionsLoopType == TypeOK /\ SubscriptionsLoop => TypeOK'
<1>. SUFFICES ASSUME TypeOK, SubscriptionsLoop PROVE TypeOK'
  OBVIOUS
<1>. DEFINE k == SubscriptionOrder[cursor]
            s == subscriptions[k]
<1>1. k \in Keys
  BY KeysAreTargets DEF TypeOK
<1>2. Subscribed(k) => s \in Subscriptions
  BY <1>1 DEF Subscribed, TypeOK
<1>3. queue' \in Seq(Commands) /\ Len(queue') <= QueueSize
  BY <1>2, EnqueueType DEF SubscriptionsLoop, EnqueueCommand, Room, TypeOK, Subscriptions
<1>4. subscriptions' \in [Keys -> Subscriptions \cup {NotSubscribed}]
  <2>1. Subscribed(k) => [s EXCEPT !.timer = Reset(s.delay)] \in Subscriptions
    BY <1>2 DEF Subscriptions, Reset
  <2>2. \/ UNCHANGED subscriptions
        \/ /\ Subscribed(k)
           /\ subscriptions' = [subscriptions EXCEPT ![k] = [s EXCEPT !.timer = Reset(s.delay)]]
    BY DEF SubscriptionsLoop
  <2>. QED
    BY <2>1, <2>2 DEF TypeOK
<1>5. cursor' \in 1 .. Len(SubscriptionOrder) /\ pc' \in {"subscriptions", "receive"}
  BY KeysAreTargets DEF SubscriptionsLoop, TypeOK
<1>. QED
  BY <1>3, <1>4, <1>5 DEF SubscriptionsLoop, TypeOK

LEMMA NextType == TypeOK /\ [Next]_vars => TypeOK'
<1>. SUFFICES ASSUME TypeOK, [Next]_vars PROVE TypeOK'
  OBVIOUS
<1>1. CASE Receive
  <2>1. CASE queue = <<>>
    BY <1>1, <2>1 DEF Receive, TypeOK
  <2>2. CASE queue # <<>>
    <3>1. queue' \in Seq(Commands) /\ current' \in Commands /\ Len(queue') = Len(queue) - 1
      BY <1>1, <2>2, DequeueType DEF Receive, TypeOK
    <3>2. Len(queue') <= QueueSize
      BY <3>1, BoundAssumption DEF TypeOK
    <3>3. current' # NoCommand
      BY <3>1, CommandsHaveNoZeroId
    <3>. QED
      BY <1>1, <2>2, <3>1, <3>2, <3>3 DEF Receive, TypeOK
  <2>. QED
    BY <2>1, <2>2
<1>2. CASE Postpone
  <2>1. current \in Commands
    BY <1>2 DEF Postpone, TypeOK
  <2>. QED
    BY <1>2, <2>1, RequeueType DEF Postpone, Done, TypeOK
<1>3. CASE pc = "process" /\ (ProcessActionScan \/ ProcessActionRead \/ ProcessActionRestart)
  <2>1. current \in Commands
    BY <1>3 DEF TypeOK
  <2>2. "answered" \in Statuses
    BY DEF Statuses
  <2>. QED
    BY <1>3, <2>1, <2>2, PresenceType, ReadType, RebootType
    DEF ProcessActionScan, ProcessActionRestart
<1>4. CASE UNCHANGED vars
  BY <1>4 DEF vars, TypeOK
<1>5. ProcessActionScan \/ ProcessActionRead \/ ProcessActionRestart => pc = "process"
  BY DEF ProcessActionScan, ProcessActionRead, ProcessActionRestart, Dispatch
<1>. QED
  BY <1>1, <1>2, <1>3, <1>4, <1>5, SubscribeType, UnsubscribeType,
     SubscriptionsLoopType, MqttTaskType, TickType DEF Next, LoopTask

LEMMA InitType == Init => TypeOK
<1>. SUFFICES ASSUME Init PROVE TypeOK
  OBVIOUS
<1>1. queue \in Seq(Commands) /\ Len(queue) <= QueueSize
  BY BoundAssumption DEF Init
<1>2. status \in [Requests -> Statuses] /\ registry \in [Devices -> Entries]
  BY DEF Init, Statuses, Entries
<1>. QED
  BY <1>1, <1>2, KeysAreTargets DEF Init, TypeOK

\* The state stays well typed: in particular the command queue never holds more
\* than its capacity, and the loop task holds a command exactly between
\* xQueueReceive and the end of the handler.
THEOREM TypeCorrect == Spec => []TypeOK
BY InitType, NextType, PTL DEF Spec

-----------------------------------------------------------------------------
\* ---- The slot of a received command ----

\* The free slot is created by Receive and can only be taken by the MQTT task.
LEMMA NextSlot == TypeOK /\ SlotReserved /\ [Next]_vars => SlotReserved'
<1>. SUFFICES ASSUME TypeOK, SlotReserved, [Next]_vars PROVE SlotReserved'
  OBVIOUS
<1>1. CASE Receive
  <2>. SUFFICES ASSUME queue # <<>> PROVE Len(queue') < QueueSize
    BY <1>1 DEF Receive, SlotReserved, Room
  <2>1. Len(queue') = Len(queue) - 1 /\ Len(queue) \in Nat
    BY <1>1, DequeueType DEF Receive, TypeOK
  <2>. QED
    BY <2>1, BoundAssumption DEF TypeOK
<1>2. CASE \E r \in Requests : MalformedMessage(r) \/ \E c \in ClientCommands : MqttMessage(r, c)
  <2>1. CASE Room
    <3>1. intruded' \/ UNCHANGED <<pc, queue, intruded>>
      BY <1>2, <2>1 DEF MqttMessage, MalformedMessage
    <3>. QED
      BY <3>1 DEF SlotReserved, Room
  <2>2. CASE ~Room
    <3>1. pc' = pc
      BY <1>2 DEF MqttMessage, MalformedMessage
    <3>2. pc = "process" => intruded
      BY <2>2, Zenon DEF SlotReserved
    <3>3. intruded => intruded'
      BY <1>2, Zenon DEF MqttMessage, MalformedMessage
    <3>. QED
      BY <3>1, <3>2, <3>3, Zenon DEF SlotReserved
  <2>. QED
    BY <2>1, <2>2
<1>3. CASE Tick
  BY <1>3, TickQueue DEF Tick, SlotReserved, Room
<1>4. CASE LoopTask /\ ~Receive
  <2>1. pc' # "process"
    BY <1>4 DEF LoopTask, Postpone, ProcessActionScan, ProcessActionRead,
         ProcessActionSubscribe, ProcessActionUnsubscribe, ProcessActionRestart, ProcessPresence,
         ReadDevice, ReadFamily, SubscriptionsLoop, Handled, Done, Reboot, Restarted
  <2>. QED
    BY <2>1 DEF SlotReserved
<1>5. CASE UNCHANGED vars
  BY <1>5 DEF vars, SlotReserved, Room
<1>6. CASE \E r \in Requests : UnreadableAddress(r)
  BY <1>6 DEF UnreadableAddress, Restarted, SlotReserved
<1>. QED
  BY <1>1, <1>2, <1>3, <1>4, <1>5, <1>6 DEF Next, MqttTask

\* Whatever the loop task does by itself, the command it holds can go back into
\* the queue.
THEOREM SlotIsReserved == Spec => []SlotReserved
<1>1. Init => SlotReserved
  BY DEF Init, SlotReserved
<1>. QED
  BY <1>1, NextSlot, TypeCorrect, PTL DEF Spec

-----------------------------------------------------------------------------
\* ---- Requests lost in the queue ----

\* What LostOnlyToIntruder says of one request in one step.
LossExplained(r) == status[r] = "pending" /\ status'[r] = "lost" => intruded \/ Rebooting

\* A response is never the loss of a request.
LEMMA FinishLosesNothing ==
  ASSUME TypeOK, NEW r \in Requests, NEW c \in Commands, NEW o, o # "lost", Finish(c, o)
  PROVE  ~(status[r] = "pending" /\ status'[r] = "lost")
BY DEF TypeOK, Finish

\* A command that goes back into the queue finds its slot, unless somebody took it.
LEMMA RequeueLosesNothing ==
  ASSUME SlotReserved, pc = "process", ~intruded, NEW c, Requeue(c)
  PROVE  UNCHANGED status
BY DEF SlotReserved, Requeue

\* Both passes of a read, of a device or of a family.
LEMMA SampleAndReadLoses ==
  ASSUME TypeOK, SlotReserved, pc = "process", current \in Commands,
         NEW r \in Requests, NEW f, SampleAndRead(f)
  PROVE  LossExplained(r)
<1>1. PICK ok \in BOOLEAN :
        \/ Requeue([current EXCEPT !.sub_action = "ReadResult",
                                   !.timer = Reset(SamplingTime[f])])
        \/ Respond("failed")
        \/ Respond(IF ok THEN "answered" ELSE "failed")
  BY DEF SampleAndRead
<1>2. CASE Respond("failed") \/ Respond(IF ok THEN "answered" ELSE "failed")
  BY <1>2, FinishLosesNothing DEF Respond, LossExplained
<1>3. CASE Requeue([current EXCEPT !.sub_action = "ReadResult",
                                   !.timer = Reset(SamplingTime[f])])
  <2>1. intruded \/ UNCHANGED status
    BY <1>3, RequeueLosesNothing
  <2>. QED
    BY <2>1 DEF LossExplained
<1>. QED
  BY <1>1, <1>2, <1>3

LEMMA RespondLoses ==
  ASSUME TypeOK, current \in Commands, NEW r \in Requests, NEW o, o # "lost", Respond(o)
  PROVE  LossExplained(r)
BY FinishLosesNothing DEF Respond, LossExplained

LEMMA PresenceLoses ==
  ASSUME TypeOK, pc = "process", current \in Commands, NEW r \in Requests, ProcessPresence
  PROVE  LossExplained(r)
<1>1. PICK ok \in BOOLEAN : Reboot("lost") \/ Respond(IF ok THEN "answered" ELSE "failed")
  BY DEF ProcessPresence
<1>2. CASE Reboot("lost")
  BY <1>2 DEF Reboot, Restarted, Rebooting, LossExplained
<1>. QED
  BY <1>1, <1>2, RespondLoses

LEMMA ReadLoses ==
  ASSUME TypeOK, SlotReserved, pc = "process", current \in Commands,
         NEW r \in Requests, ProcessActionRead
  PROVE  LossExplained(r)
<1>1. ASSUME NEW d, ReadDevice(d) PROVE LossExplained(r)
  BY <1>1, RespondLoses, SampleAndReadLoses DEF ReadDevice, ProcessReadSingleDevice
<1>2. ASSUME NEW f, ReadFamily(f) PROVE LossExplained(r)
  <2>1. CASE Reboot("lost")
    BY <2>1 DEF Reboot, Restarted, Rebooting, LossExplained
  <2>2. CASE ProcessReadDeviceFamily(f)
    BY <2>2, RespondLoses, SampleAndReadLoses DEF ProcessReadDeviceFamily
  <2>3. CASE Respond("failed")
    BY <2>3, RespondLoses
  <2>. QED
    BY <1>2, <2>1, <2>2, <2>3 DEF ReadFamily
<1>. QED
  BY <1>1, <1>2, PresenceLoses, RespondLoses DEF ProcessActionRead

LEMMA NextLoses ==
  ASSUME TypeOK, SlotReserved, [Next]_vars, NEW r \in Requests
  PROVE  LossExplained(r)
<1>1. CASE Receive \/ SubscriptionsLoop \/ Tick \/ UNCHANGED vars
  BY <1>1 DEF Receive, SubscriptionsLoop, Tick, vars, LossExplained
<1>2. CASE MqttTask
  <2>1. ASSUME NEW s \in Requests, MalformedMessage(s) \/ \E c \in ClientCommands : MqttMessage(s, c)
        PROVE  LossExplained(r)
    BY <2>1 DEF MqttMessage, MalformedMessage, NextRequest, TypeOK, LossExplained
  <2>2. ASSUME NEW s \in Requests, UnreadableAddress(s) PROVE LossExplained(r)
    <3>1. status[s] = "unsent" /\ status'[s] = "lost"
      BY <2>2 DEF UnreadableAddress, NextRequest
    <3>. QED
      BY <3>1 DEF Rebooting, LossExplained
  <2>. QED
    BY <1>2, <2>1, <2>2 DEF MqttTask
<1>3. CASE Postpone
  <2>1. intruded \/ UNCHANGED status
    BY <1>3, RequeueLosesNothing DEF Postpone
  <2>. QED
    BY <2>1 DEF LossExplained
<1>4. pc = "process" => current \in Commands
  BY DEF TypeOK
<1>5. CASE ProcessActionScan
  BY <1>4, <1>5, PresenceLoses DEF ProcessActionScan, Dispatch
<1>6. CASE ProcessActionRead
  BY <1>4, <1>6, ReadLoses DEF ProcessActionRead, Dispatch
<1>7. CASE ProcessActionSubscribe
  <2>1. PICK o \in {"updated", "subscribed"} : Finish(current, o)
    BY <1>7 DEF ProcessActionSubscribe
  <2>. QED
    BY <1>4, <1>7, <2>1, FinishLosesNothing DEF ProcessActionSubscribe, Dispatch, LossExplained
<1>8. CASE ProcessActionUnsubscribe
  <2>1. PICK o \in {"answered", "failed"} : Respond(o)
    BY <1>8 DEF ProcessActionUnsubscribe
  <2>. QED
    BY <1>4, <1>8, <2>1, RespondLoses DEF ProcessActionUnsubscribe, Dispatch
<1>9. CASE ProcessActionRestart
  BY <1>9 DEF ProcessActionRestart, Dispatch, Reboot, Restarted, Rebooting, LossExplained
<1>. QED
  BY <1>1, <1>2, <1>3, <1>5, <1>6, <1>7, <1>8, <1>9 DEF Next, LoopTask

\* An accepted request that does not come back into the queue has lost its place
\* to the MQTT task, or the chip has rebooted: the loop task by itself loses none.
THEOREM LossNeedsIntruder == Spec => LostOnlyToIntruder
<1>1. TypeOK /\ SlotReserved /\ [Next]_vars =>
        [\A r \in Requests :
           status[r] = "pending" /\ status'[r] = "lost" => intruded \/ Rebooting]_vars
  BY NextLoses DEF LossExplained
<1>. QED
  BY <1>1, TypeCorrect, SlotIsReserved, PTL DEF Spec, LostOnlyToIntruder

-----------------------------------------------------------------------------
\* ---- One carrier per request ----

\* Where a request is in a sequence of commands, and that it is there once at most.
InQueue(q, r) == \E i \in DOMAIN q : q[i].id = r
Unique(q, r)  == \A i, j \in DOMAIN q : q[i].id = r /\ q[j].id = r => i = j

LEMMA AppendCarrier ==
  ASSUME NEW q \in Seq(Commands), NEW c \in Commands, NEW r
  PROVE  /\ InQueue(Append(q, c), r) <=> InQueue(q, r) \/ c.id = r
         /\ Unique(q, r) /\ (c.id # r \/ ~InQueue(q, r)) => Unique(Append(q, c), r)
<1>. DEFINE p == Append(q, c)
<1>1. /\ Len(q) \in Nat /\ DOMAIN q = 1 .. Len(q) /\ DOMAIN p = 1 .. Len(q) + 1
      /\ p[Len(q) + 1] = c /\ \A i \in 1 .. Len(q) : p[i] = q[i]
  OBVIOUS
<1>. HIDE DEF p
<1>2. \A i \in DOMAIN p : (i \in DOMAIN q /\ p[i] = q[i]) \/ (i = Len(q) + 1 /\ p[i] = c)
  BY <1>1
<1>3. DOMAIN q \subseteq DOMAIN p /\ Len(q) + 1 \in DOMAIN p
  BY <1>1
<1>4. InQueue(p, r) <=> InQueue(q, r) \/ c.id = r
  BY <1>1, <1>2, <1>3 DEF InQueue
<1>5. Unique(q, r) /\ (c.id # r \/ ~InQueue(q, r)) => Unique(p, r)
  BY <1>2 DEF Unique, InQueue
<1>. QED
  BY <1>4, <1>5 DEF p

LEMMA TailCarrier ==
  ASSUME NEW q \in Seq(Commands), q # <<>>, NEW r
  PROVE  /\ InQueue(q, r) <=> Head(q).id = r \/ InQueue(Tail(q), r)
         /\ Unique(q, r) => /\ Unique(Tail(q), r)
                            /\ Head(q).id = r => ~InQueue(Tail(q), r)
<1>. DEFINE p == Tail(q)
<1>1. /\ Len(q) \in Nat \ {0} /\ DOMAIN q = 1 .. Len(q) /\ DOMAIN p = 1 .. Len(q) - 1
      /\ Head(q) = q[1] /\ \A i \in 1 .. Len(q) - 1 : p[i] = q[i + 1]
  OBVIOUS
<1>. HIDE DEF p
<1>2. \A i \in DOMAIN p : i \in Nat /\ i + 1 \in DOMAIN q /\ i + 1 # 1 /\ p[i] = q[i + 1]
  BY <1>1
<1>3. \A i \in DOMAIN q : i = 1 \/ (i - 1 \in DOMAIN p /\ p[i - 1] = q[i])
  BY <1>1
<1>4. 1 \in DOMAIN q
  BY <1>1
<1>5. InQueue(q, r) <=> Head(q).id = r \/ InQueue(p, r)
  BY <1>1, <1>2, <1>3, <1>4 DEF InQueue
<1>6. ASSUME Unique(q, r)
      PROVE  Unique(p, r) /\ (Head(q).id = r => ~InQueue(p, r))
  <2>1. ASSUME NEW i \in DOMAIN p, NEW j \in DOMAIN p, p[i].id = r, p[j].id = r
        PROVE  i = j
    <3>1. i + 1 = j + 1
      BY <1>2, <1>6, <2>1 DEF Unique
    <3>. QED
      BY <1>2, <3>1
  <2>2. Head(q).id = r => ~InQueue(p, r)
    BY <1>1, <1>2, <1>4, <1>6 DEF Unique, InQueue
  <2>. QED
    BY <2>1, <2>2 DEF Unique
<1>. QED
  BY <1>5, <1>6 DEF p

\* What OneCarrierPerRequest says of one request.
Carrier(r) ==
  /\ status[r] = "pending" => CarriedOnce(r)
  /\ status[r] \notin {"pending", "subscribed", "updated"} => ~Carries(r) /\ ~Holds(r)

\* A command that is not a read has never been through a first pass.
Plain(c)    == c.action # "read" => c.sub_action = "None"
PlainQueue  == \A i \in DOMAIN queue : Plain(queue[i])
PlainInHand == current # NoCommand => Plain(current)

CarrierInv == OneCarrierPerRequest /\ SubscriptionsSampleAfresh /\ PlainQueue /\ PlainInHand

\* CarriedOnce in terms of the queue as a sequence.
LEMMA CarriedInQueue ==
  ASSUME NEW r \in Requests
  PROVE  /\ Carries(r) <=> InQueue(queue, r)
         /\ CarriedOnce(r) <=> /\ InQueue(queue, r) \/ Holds(r)
                               /\ Holds(r) => ~InQueue(queue, r)
                               /\ Unique(queue, r)
BY DEF Carries, CarriedOnce, InQueue, Unique

\* What the handlers leave of the command they are given: its chip reboots, it is
\* answered, or it goes back to the queue with the same request, action and target.
Outcomes == {"answered", "failed", "silent", "lost"}
Continues(c) == /\ c.id = current.id /\ c.action = current.action /\ Key(c) = Key(current)
                /\ Plain(c)
Effect ==
  \/ \E o \in Outcomes : Reboot(o)
  \/ /\ current' = NoCommand /\ UNCHANGED subscriptions
     /\ \/ \E o \in Outcomes : Respond(o)
        \/ \E c \in Commands : Continues(c) /\ Requeue(c)

LEMMA SampleAndReadEffect ==
  ASSUME TypeOK, current \in Commands, current.action = "read",
         NEW f \in FamilyCodes, SampleAndRead(f)
  PROVE  \/ \E o \in Outcomes : Respond(o)
         \/ \E c \in Commands : Continues(c) /\ Requeue(c)
<1>. DEFINE c == [current EXCEPT !.sub_action = "ReadResult", !.timer = Reset(SamplingTime[f])]
<1>1. PICK ok \in BOOLEAN : \/ Requeue(c)
                            \/ Respond("failed")
                            \/ Respond(IF ok THEN "answered" ELSE "failed")
  BY DEF SampleAndRead
<1>2. c \in Commands /\ Continues(c)
  BY BoundAssumption DEF Commands, Reset, Plain, Key, Continues
<1>. HIDE DEF c
<1>. QED
  BY <1>1, <1>2 DEF Outcomes

LEMMA PresenceEffect == ProcessPresence => Effect
<1>. SUFFICES ASSUME ProcessPresence PROVE Effect
  OBVIOUS
<1>1. PICK ok \in BOOLEAN :
        Reboot("lost") \/ (Respond(IF ok THEN "answered" ELSE "failed") /\ Handled)
  BY DEF ProcessPresence
<1>. QED
  BY <1>1 DEF Effect, Outcomes, Handled, Done

LEMMA ReadEffect == TypeOK /\ ProcessActionRead => Effect
<1>. SUFFICES ASSUME TypeOK, ProcessActionRead PROVE Effect
  OBVIOUS
<1>1. current \in Commands /\ current.action = "read"
  BY DEF TypeOK, ProcessActionRead, Dispatch
<1>2. \A d \in Devices : FamilyOf[d] \in FamilyCodes
  BY FamilyAssumption
<1>3. Respond("failed") /\ Handled => Effect
  BY DEF Effect, Outcomes, Handled, Done
<1>4. ASSUME NEW f \in FamilyCodes, SampleAndRead(f), Handled PROVE Effect
  BY <1>1, <1>4, SampleAndReadEffect DEF Effect, Handled, Done
<1>5. ASSUME NEW d \in Devices, ReadDevice(d) PROVE Effect
  BY <1>2, <1>3, <1>4, <1>5 DEF ReadDevice, ProcessReadSingleDevice
<1>6. ASSUME NEW f \in FamilyCodes, ReadFamily(f) PROVE Effect
  <2>1. Reboot("lost") \/ (Respond("silent") /\ Handled) => Effect
    BY DEF Effect, Outcomes, Handled, Done
  <2>. QED
    BY <1>3, <1>4, <1>6, <2>1 DEF ReadFamily, ProcessReadDeviceFamily
<1>. QED
  BY <1>3, <1>5, <1>6, PresenceEffect, FamilyAssumption DEF ProcessActionRead

LEMMA HandlerEffect ==
  ASSUME TypeOK, PlainInHand,
         Postpone \/ ProcessActionScan \/ ProcessActionRead \/ ProcessActionRestart
  PROVE  Effect
<1>1. CASE Postpone
  <2>1. current \in Commands /\ Plain(current)
    BY <1>1 DEF Postpone, TypeOK, PlainInHand
  <2>. QED
    BY <1>1, <2>1 DEF Postpone, Done, Effect, Continues
<1>2. CASE ProcessActionRestart
  BY <1>2 DEF ProcessActionRestart, Effect, Outcomes
<1>. QED
  BY <1>1, <1>2, PresenceEffect, ReadEffect DEF ProcessActionScan

\* The command in hand is the only one of its request, if that request is pending.
LEMMA HeldCarrier ==
  ASSUME TypeOK, OneCarrierPerRequest, current \in Commands
  PROVE  /\ current.id \in Requests
         /\ status[current.id] \in {"pending", "subscribed", "updated"}
         /\ status[current.id] = "pending" => ~InQueue(queue, current.id)
         /\ \A r \in Requests : Holds(r) <=> r = current.id
<1>1. current.id \in Requests /\ current # NoCommand
  BY CommandsHaveNoZeroId DEF Commands
<1>. QED
  BY <1>1, CarriedInQueue DEF OneCarrierPerRequest, Holds, CarriedOnce

\* The next state of one request, when neither the queue nor the hand changes its
\* part in it.
LEMMA OthersCarried ==
  ASSUME OneCarrierPerRequest, NEW r \in Requests, status'[r] = status[r],
         Carries(r)' <=> Carries(r), Holds(r)' <=> Holds(r),
         Unique(queue, r) => Unique(queue, r)'
  PROVE  Carrier(r)'
BY CarriedInQueue DEF OneCarrierPerRequest, Carrier, CarriedOnce, Unique

\* A response, a loss or the way back into the queue keep the carriers apart.
LEMMA RespondCarrier ==
  ASSUME TypeOK, OneCarrierPerRequest, current \in Commands, current' = NoCommand,
         NEW o \in Outcomes, Finish(current, o), UNCHANGED queue, NEW r \in Requests
  PROVE  Carrier(r)'
<1>1. ~Holds(r)' /\ (Carries(r)' <=> Carries(r)) /\ (Unique(queue, r) => Unique(queue, r)')
  BY DEF Holds, Carries, Unique
<1>2. CASE r = current.id
  <2>1. \/ status[r] = "pending" /\ status'[r] = o
        \/ status[r] \in {"subscribed", "updated"} /\ status'[r] = status[r]
    BY <1>2, HeldCarrier DEF Finish, TypeOK
  <2>2. status[r] = "pending" => ~Carries(r)
    BY <1>2, HeldCarrier, CarriedInQueue
  <2>. QED
    BY <1>1, <2>1, <2>2 DEF Carrier, Outcomes
<1>3. CASE r # current.id
  <2>1. status'[r] = status[r] /\ ~Holds(r)
    BY <1>3, HeldCarrier DEF Finish, TypeOK
  <2>. QED
    BY <1>1, <2>1, OthersCarried
<1>. QED
  BY <1>2, <1>3

\* What a command does to the carriers when it is appended.
LEMMA EnqueueCarrier ==
  ASSUME TypeOK, NEW c \in Commands, queue' = Append(queue, c), NEW r \in Requests
  PROVE  /\ Carries(r)' <=> Carries(r) \/ c.id = r
         /\ Unique(queue, r) /\ (c.id # r \/ ~Carries(r)) => Unique(queue, r)'
<1>1. queue \in Seq(Commands)
  BY DEF TypeOK
<1>2. /\ Carries(r) <=> InQueue(queue, r)
      /\ Carries(r)' <=> InQueue(queue', r)
      /\ Unique(queue, r)' <=> Unique(queue', r)
  BY DEF Carries, InQueue, Unique
<1>3. /\ InQueue(queue', r) <=> InQueue(queue, r) \/ c.id = r
      /\ Unique(queue, r) /\ (c.id # r \/ ~InQueue(queue, r)) => Unique(queue', r)
  BY <1>1, AppendCarrier
<1>. QED
  BY <1>2, <1>3

LEMMA RequeueCarrier ==
  ASSUME TypeOK, OneCarrierPerRequest, current \in Commands, current' = NoCommand,
         NEW c \in Commands, c.id = current.id, Requeue(c), NEW r \in Requests
  PROVE  Carrier(r)'
<1>1. CASE ~Room
  BY <1>1, RespondCarrier DEF Requeue, EnqueueCommand, Finish, Outcomes
<1>2. CASE Room
  <2>1. queue' = Append(queue, c) /\ status' = status /\ ~Holds(r)'
    BY <1>2 DEF Requeue, EnqueueCommand, Holds
  <2>2. CASE r = current.id
    <3>1. status[r] \in {"pending", "subscribed", "updated"}
      BY <2>2, HeldCarrier
    <3>2. Carries(r)'
      BY <2>1, <2>2, EnqueueCarrier
    <3>3. status[r] = "pending" => Unique(queue, r)'
      BY <2>1, <2>2, HeldCarrier, CarriedInQueue, EnqueueCarrier DEF OneCarrierPerRequest
    <3>. QED
      BY <2>1, <3>1, <3>2, <3>3 DEF Carrier, CarriedOnce, Unique
  <2>3. CASE r # current.id
    <3>1. (Carries(r)' <=> Carries(r)) /\ (Unique(queue, r) => Unique(queue, r)')
      BY <2>1, <2>3, EnqueueCarrier
    <3>2. ~Holds(r)
      BY <2>3, HeldCarrier
    <3>. QED
      BY <2>1, <3>1, <3>2, OthersCarried
  <2>. QED
    BY <2>2, <2>3
<1>. QED
  BY <1>1, <1>2

LEMMA RestartCarrier ==
  ASSUME Restarted, NEW r \in Requests, status'[r] # "pending"
  PROVE  Carrier(r)'
<1>1. ~Carries(r)' /\ ~Holds(r)'
  BY DEF Restarted, Carries, Holds
<1>. QED
  BY <1>1 DEF Carrier

\* The elements of a queue after an append or a removal.
LEMMA AppendElements ==
  ASSUME NEW q \in Seq(Commands), NEW c \in Commands
  PROVE  \A i \in DOMAIN Append(q, c) :
           Append(q, c)[i] = c \/ \E j \in DOMAIN q : Append(q, c)[i] = q[j]
OBVIOUS

LEMMA TailElements ==
  ASSUME NEW q \in Seq(Commands), q # <<>>
  PROVE  /\ \E j \in DOMAIN q : Head(q) = q[j]
         /\ \A i \in DOMAIN Tail(q) : \E j \in DOMAIN q : Tail(q)[i] = q[j]
<1>1. Len(q) \in Nat \ {0} /\ DOMAIN q = 1 .. Len(q) /\ Head(q) = q[1]
      /\ DOMAIN Tail(q) = 1 .. Len(q) - 1
  OBVIOUS
<1>2. \A i \in DOMAIN Tail(q) : i + 1 \in DOMAIN q /\ Tail(q)[i] = q[i + 1]
  BY <1>1
<1>. QED
  BY <1>1, <1>2

LEMMA EnqueuePlain ==
  ASSUME TypeOK, PlainQueue, NEW c \in Commands, Plain(c), EnqueueCommand(c)
  PROVE  PlainQueue'
<1>1. queue \in Seq(Commands) /\ (queue' = queue \/ queue' = Append(queue, c))
  BY DEF TypeOK, EnqueueCommand
<1>2. \A i \in DOMAIN queue' : queue'[i] = c \/ \E j \in DOMAIN queue : queue'[i] = queue[j]
  BY <1>1, AppendElements
<1>. QED
  BY <1>2 DEF PlainQueue

\* What has been decided about a request is not decided again.
LEMMA FinishSettles ==
  ASSUME TypeOK, NEW c, NEW o, Finish(c, o), NEW r \in Requests, status[r] # "pending"
  PROVE  status'[r] = status[r]
BY DEF TypeOK, Finish

\* The stored commands stay fresh if the subscriptions stay, and their requests
\* have been acknowledged before.
LEMMA SubscriptionsKept ==
  ASSUME TypeOK, SubscriptionsSampleAfresh, UNCHANGED subscriptions,
         \A r \in Requests : status[r] \in {"subscribed", "updated"} => status'[r] = status[r]
  PROVE  SubscriptionsSampleAfresh'
<1>. SUFFICES ASSUME NEW k \in Keys, Subscribed(k)
              PROVE  status'[subscriptions[k].command.id] = status[subscriptions[k].command.id]
  BY DEF SubscriptionsSampleAfresh, Subscribed
<1>1. subscriptions[k].command.id \in Requests
  BY DEF Subscribed, TypeOK, Subscriptions, Commands
<1>2. status[subscriptions[k].command.id] \in {"subscribed", "updated"}
  BY DEF SubscriptionsSampleAfresh
<1>. QED
  BY <1>1, <1>2

\* A reboot leaves no command and no subscription.
LEMMA RestartKeeps ==
  ASSUME Restarted, \A r \in Requests : status'[r] # "pending"
  PROVE  CarrierInv'
<1>1. OneCarrierPerRequest'
  BY RestartCarrier DEF OneCarrierPerRequest, Carrier
<1>. QED
  BY <1>1 DEF CarrierInv, Restarted, SubscriptionsSampleAfresh, Subscribed, PlainQueue, PlainInHand

LEMMA EffectKeeps ==
  ASSUME TypeOK, CarrierInv, current \in Commands, Effect
  PROVE  CarrierInv'
<1>1. ASSUME NEW o \in Outcomes, Reboot(o) PROVE CarrierInv'
  BY <1>1, RestartKeeps DEF Reboot, Outcomes
<1>2. ASSUME NEW o \in Outcomes, current' = NoCommand, UNCHANGED subscriptions, Respond(o)
      PROVE  CarrierInv'
  <2>1. OneCarrierPerRequest'
    BY <1>2, RespondCarrier DEF CarrierInv, Respond, OneCarrierPerRequest, Carrier
  <2>2. SubscriptionsSampleAfresh'
    BY <1>2, FinishSettles, SubscriptionsKept DEF CarrierInv, Respond
  <2>. QED
    BY <1>2, <2>1, <2>2 DEF CarrierInv, Respond, PlainQueue, PlainInHand
<1>3. ASSUME NEW c \in Commands, Continues(c), Requeue(c), current' = NoCommand,
             UNCHANGED subscriptions
      PROVE  CarrierInv'
  <2>1. OneCarrierPerRequest'
    BY <1>3, RequeueCarrier DEF CarrierInv, Continues, OneCarrierPerRequest, Carrier
  <2>2. \A r \in Requests : status[r] \in {"subscribed", "updated"} => status'[r] = status[r]
    BY <1>3, FinishSettles DEF Requeue
  <2>3. SubscriptionsSampleAfresh'
    BY <1>3, <2>2, SubscriptionsKept DEF CarrierInv
  <2>4. PlainQueue'
    BY <1>3, EnqueuePlain DEF CarrierInv, Continues, Requeue
  <2>. QED
    BY <1>3, <2>1, <2>3, <2>4 DEF CarrierInv, PlainInHand
<1>. QED
  BY <1>1, <1>2, <1>3 DEF Effect

LEMMA UnsubscribeKeeps ==
  ASSUME TypeOK, CarrierInv, current \in Commands, ProcessActionUnsubscribe
  PROVE  CarrierInv'
<1>1. PICK o \in Outcomes : Respond(o)
  BY DEF ProcessActionUnsubscribe, Outcomes
<1>2. current' = NoCommand
  BY DEF ProcessActionUnsubscribe, Done
<1>3. OneCarrierPerRequest'
  BY <1>1, <1>2, RespondCarrier DEF CarrierInv, Respond, OneCarrierPerRequest, Carrier
<1>4. SubscriptionsSampleAfresh'
  <2>. SUFFICES ASSUME NEW k \in Keys, Subscribed(k)'
                PROVE  /\ Subscribed(k) /\ subscriptions'[k] = subscriptions[k]
                       /\ status'[subscriptions[k].command.id] = status[subscriptions[k].command.id]
    BY DEF CarrierInv, SubscriptionsSampleAfresh
  <2>1. Subscribed(k) /\ subscriptions'[k] = subscriptions[k]
    BY DEF ProcessActionUnsubscribe, Subscribed, TypeOK
  <2>2. subscriptions[k].command.id \in Requests
    BY <2>1 DEF Subscribed, TypeOK, Subscriptions, Commands
  <2>3. status[subscriptions[k].command.id] \in {"subscribed", "updated"}
    BY <2>1 DEF CarrierInv, SubscriptionsSampleAfresh
  <2>. QED
    BY <1>1, <2>1, <2>2, <2>3, FinishSettles DEF Respond
<1>. QED
  BY <1>1, <1>2, <1>3, <1>4 DEF CarrierInv, Respond, PlainQueue, PlainInHand

\* A subscription that is there before and after with the same command keeps it
\* fresh, whatever is decided about other requests.
LEMMA SubscriptionKept ==
  ASSUME TypeOK, SubscriptionsSampleAfresh, NEW k \in Keys, Subscribed(k),
         subscriptions'[k].command = subscriptions[k].command,
         \A r \in Requests : status[r] \in {"subscribed", "updated"} => status'[r] = status[r]
  PROVE  LET c == subscriptions'[k].command
         IN  /\ c.action = "read" /\ c.sub_action = "None" /\ IsExpired(c.timer)
             /\ Key(c) = k /\ status'[c.id] \in {"subscribed", "updated"}
<1>1. subscriptions[k].command.id \in Requests
  BY DEF Subscribed, TypeOK, Subscriptions, Commands
<1>. QED
  BY <1>1 DEF SubscriptionsSampleAfresh

LEMMA SubscribeKeeps ==
  ASSUME TypeOK, CarrierInv, current \in Commands, ProcessActionSubscribe
  PROVE  CarrierInv'
<1>. DEFINE read  == ConvertSubscribeToReadCommand(current)
            entry == [delay |-> current.interval, timer |-> Reset(current.interval),
                      command |-> read]
<1>1. /\ read \in Commands /\ read.id = current.id /\ Plain(read) /\ Key(read) = Key(current)
      /\ read.action = "read" /\ read.sub_action = "None" /\ IsExpired(read.timer)
  BY CommandsHaveNoZeroId, ConvertType
  DEF ConvertSubscribeToReadCommand, Commands, Plain, Key, CarrierInv, PlainInHand,
      ProcessActionSubscribe, Dispatch, IsExpired
<1>2. PICK o \in {"subscribed", "updated"} : Finish(current, o)
  BY DEF ProcessActionSubscribe
<1>3. current' = NoCommand /\ subscriptions' = [subscriptions EXCEPT ![Key(current)] = entry]
  BY DEF ProcessActionSubscribe, Done
<1>4. UNCHANGED queue \/ EnqueueCommand(read)
  BY DEF ProcessActionSubscribe
<1>. HIDE DEF read
<1>5. status'[current.id] \in {"subscribed", "updated"}
  BY <1>2, HeldCarrier DEF Finish, TypeOK, CarrierInv
<1>6. \A r \in Requests : status[r] \in {"subscribed", "updated"} => status'[r] = status[r]
  BY <1>2, FinishSettles
<1>7. OneCarrierPerRequest'
  <2>. SUFFICES ASSUME NEW r \in Requests, r # current.id PROVE Carrier(r)'
    BY <1>5 DEF OneCarrierPerRequest, Carrier
  <2>1. status'[r] = status[r] /\ ~Holds(r) /\ ~Holds(r)'
    BY <1>2, <1>3, HeldCarrier DEF Finish, TypeOK, CarrierInv, Holds
  <2>2. (Carries(r)' <=> Carries(r)) /\ (Unique(queue, r) => Unique(queue, r)')
    <3>1. CASE UNCHANGED queue
      BY <3>1 DEF Carries, Unique
    <3>2. CASE queue' = Append(queue, read)
      BY <1>1, <3>2, EnqueueCarrier
    <3>. QED
      BY <1>4, <3>1, <3>2 DEF EnqueueCommand
  <2>. QED
    BY <2>1, <2>2, OthersCarried DEF CarrierInv
<1>8. SubscriptionsSampleAfresh'
  <2>. SUFFICES ASSUME NEW k \in Keys, Subscribed(k)'
                PROVE  LET c == subscriptions'[k].command
                       IN  /\ c.action = "read" /\ c.sub_action = "None" /\ IsExpired(c.timer)
                           /\ Key(c) = k /\ status'[c.id] \in {"subscribed", "updated"}
    BY DEF SubscriptionsSampleAfresh, Key
  <2>1. CASE k = Key(current)
    BY <1>1, <1>3, <1>5, <2>1 DEF TypeOK
  <2>2. CASE k # Key(current)
    <3>1. subscriptions'[k] = subscriptions[k] /\ Subscribed(k)
      BY <1>3, <2>2 DEF TypeOK, Subscribed
    <3>. QED
      BY <1>6, <3>1, SubscriptionKept DEF CarrierInv
  <2>. QED
    BY <2>1, <2>2
<1>9. PlainQueue'
  BY <1>1, <1>4, EnqueuePlain DEF CarrierInv, PlainQueue
<1>. QED
  BY <1>3, <1>7, <1>8, <1>9 DEF CarrierInv, PlainInHand

LEMMA SubscriptionsLoopKeeps ==
  ASSUME TypeOK, CarrierInv, SubscriptionsLoop
  PROVE  CarrierInv'
<1>. DEFINE k == SubscriptionOrder[cursor]
            c == subscriptions[k].command
<1>1. k \in Keys
  BY KeysAreTargets DEF TypeOK
<1>2. UNCHANGED <<current, status>> /\ current = NoCommand
  BY DEF SubscriptionsLoop, TypeOK
<1>3. \/ UNCHANGED <<queue, subscriptions>>
      \/ /\ Subscribed(k) /\ EnqueueCommand(c)
         /\ subscriptions' = [subscriptions EXCEPT ![k].timer = Reset(subscriptions[k].delay)]
  BY DEF SubscriptionsLoop
<1>4. Subscribed(k) => /\ subscriptions[k] \in Subscriptions
                       /\ c \in Commands /\ c.id \in Requests /\ Plain(c)
                       /\ status[c.id] \in {"subscribed", "updated"}
  BY <1>1 DEF Subscribed, TypeOK, Subscriptions, Commands, CarrierInv, SubscriptionsSampleAfresh, Plain
<1>. HIDE DEF c
<1>5. OneCarrierPerRequest'
  <2>. SUFFICES ASSUME NEW r \in Requests PROVE Carrier(r)'
    BY DEF OneCarrierPerRequest, Carrier
  <2>1. ~Holds(r) /\ ~Holds(r)'
    BY <1>2 DEF Holds
  <2>2. CASE status[r] \in {"subscribed", "updated"}
    BY <1>2, <2>2 DEF Carrier
  <2>3. CASE status[r] \notin {"subscribed", "updated"}
    <3>1. UNCHANGED queue \/ (queue' = Append(queue, c) /\ c \in Commands /\ c.id # r)
      BY <1>3, <1>4, <2>3 DEF EnqueueCommand
    <3>2. (Carries(r)' <=> Carries(r)) /\ (Unique(queue, r) => Unique(queue, r)')
      <4>1. CASE UNCHANGED queue
        BY <4>1 DEF Carries, Unique
      <4>2. CASE queue' = Append(queue, c) /\ c \in Commands /\ c.id # r
        BY <4>2, EnqueueCarrier
      <4>. QED
        BY <3>1, <4>1, <4>2
    <3>. QED
      BY <1>2, <2>1, <3>2, OthersCarried DEF CarrierInv
  <2>. QED
    BY <2>2, <2>3
<1>6. SubscriptionsSampleAfresh'
  <2>. SUFFICES ASSUME NEW j \in Keys, Subscribed(j)'
                PROVE  Subscribed(j) /\ subscriptions'[j].command = subscriptions[j].command
    BY <1>2, SubscriptionKept DEF CarrierInv, SubscriptionsSampleAfresh, Key
  <2>1. CASE UNCHANGED subscriptions
    BY <2>1 DEF Subscribed
  <2>2. CASE /\ Subscribed(k)
             /\ subscriptions' = [subscriptions EXCEPT ![k].timer = Reset(subscriptions[k].delay)]
    <3>1. subscriptions'[j] = IF j = k THEN [subscriptions[k] EXCEPT !.timer = Reset(subscriptions[k].delay)]
                              ELSE subscriptions[j]
      BY <2>2 DEF TypeOK
    <3>. QED
      BY <1>4, <2>2, <3>1 DEF Subscribed, Subscriptions
  <2>. QED
    BY <1>3, <2>1, <2>2
<1>7. PlainQueue'
  BY <1>3, <1>4, EnqueuePlain DEF CarrierInv, PlainQueue
<1>. QED
  BY <1>2, <1>5, <1>6, <1>7 DEF CarrierInv, PlainInHand

LEMMA MessageKeeps ==
  ASSUME TypeOK, CarrierInv, NEW s \in Requests,
         MalformedMessage(s) \/ \E c \in ClientCommands : MqttMessage(s, c)
  PROVE  CarrierInv'
<1>2. status[s] = "unsent" /\ ~Carries(s) /\ ~Holds(s)
  BY DEF MalformedMessage, MqttMessage, NextRequest, CarrierInv, OneCarrierPerRequest
<1>3. UNCHANGED <<current, subscriptions>> /\ \A r \in Requests : r # s => status'[r] = status[r]
  BY DEF MalformedMessage, MqttMessage, TypeOK
<1>4. SubscriptionsSampleAfresh' /\ PlainInHand'
  BY <1>2, <1>3, SubscriptionsKept DEF CarrierInv, PlainInHand
<1>5. \A r \in Requests : Holds(r)' <=> Holds(r)
  BY <1>3 DEF Holds
<1>6. ASSUME UNCHANGED queue, status'[s] # "pending"
      PROVE  OneCarrierPerRequest' /\ PlainQueue'
  <2>1. \A r \in Requests : (Carries(r)' <=> Carries(r)) /\ (Unique(queue, r) => Unique(queue, r)')
    BY <1>6 DEF Carries, Unique
  <2>2. Carrier(s)'
    BY <1>2, <1>5, <1>6, <2>1 DEF Carrier
  <2>3. \A r \in Requests : r # s => Carrier(r)'
    BY <1>3, <1>5, <2>1, OthersCarried DEF CarrierInv
  <2>. QED
    BY <1>6, <2>2, <2>3 DEF OneCarrierPerRequest, Carrier, CarrierInv, PlainQueue
<1>7. ASSUME NEW c \in Commands, c.id = s, Plain(c), queue' = Append(queue, c),
             status'[s] = "pending"
      PROVE  OneCarrierPerRequest' /\ PlainQueue'
  <2>1. Carries(s)' /\ ~Holds(s)'
    BY <1>2, <1>5, <1>7, EnqueueCarrier
  <2>2. Unique(queue, s)
    BY <1>2 DEF Carries, Unique
  <2>3. Carrier(s)'
    BY <1>2, <1>7, <2>1, <2>2, EnqueueCarrier DEF Carrier, CarriedOnce, Unique
  <2>4. ASSUME NEW r \in Requests, r # s PROVE Carrier(r)'
    <3>1. (Carries(r)' <=> Carries(r)) /\ (Unique(queue, r) => Unique(queue, r)')
      BY <1>7, <2>4, EnqueueCarrier
    <3>. QED
      BY <1>3, <1>5, <2>4, <3>1, OthersCarried DEF CarrierInv
  <2>5. PlainQueue'
    BY <1>7, AppendElements DEF TypeOK, CarrierInv, PlainQueue
  <2>. QED
    BY <2>3, <2>4, <2>5 DEF OneCarrierPerRequest, Carrier
<1>8. CASE MalformedMessage(s)
  BY <1>4, <1>6, <1>8 DEF MalformedMessage, TypeOK, CarrierInv
<1>9. ASSUME NEW c \in ClientCommands, MqttMessage(s, c) PROVE CarrierInv'
  <2>. DEFINE cmd == InitEmptyCommand(s, c)
  <2>1. cmd \in Commands /\ cmd.id = s /\ Plain(cmd)
    BY RequestIsCommand DEF InitEmptyCommand, Plain
  <2>. HIDE DEF cmd
  <2>2. CASE Room
    BY <1>4, <1>7, <1>9, <2>1, <2>2 DEF MqttMessage, EnqueueCommand, TypeOK, CarrierInv, cmd
  <2>3. CASE ~Room
    BY <1>4, <1>6, <1>9, <2>3 DEF MqttMessage, EnqueueCommand, TypeOK, CarrierInv
  <2>. QED
    BY <2>2, <2>3
<1>. QED
  BY <1>8, <1>9

LEMMA MqttKeeps ==
  ASSUME TypeOK, CarrierInv, MqttTask
  PROVE  CarrierInv'
<1>1. ASSUME NEW s \in Requests, UnreadableAddress(s) PROVE CarrierInv'
  BY <1>1, RestartKeeps DEF UnreadableAddress
<1>. QED
  BY <1>1, MessageKeeps DEF MqttTask

LEMMA ReceiveKeeps ==
  ASSUME TypeOK, CarrierInv, Receive
  PROVE  CarrierInv'
<1>1. UNCHANGED <<subscriptions, status>> /\ current = NoCommand
  BY DEF Receive, TypeOK
<1>2. SubscriptionsSampleAfresh'
  BY <1>1, SubscriptionsKept DEF CarrierInv
<1>3. CASE queue = <<>>
  <2>1. UNCHANGED <<queue, current>>
    BY <1>3 DEF Receive
  <2>. QED
    BY <1>1, <1>2, <2>1 DEF CarrierInv, OneCarrierPerRequest, CarriedOnce, Carries, Holds,
       PlainQueue, PlainInHand
<1>4. CASE queue # <<>>
  <2>1. queue \in Seq(Commands) /\ queue' = Tail(queue) /\ current' = Head(queue)
    BY <1>4 DEF Receive, TypeOK
  <2>2. current' \in Commands /\ current' # NoCommand
    BY <1>4, <2>1, DequeueType, CommandsHaveNoZeroId DEF TypeOK
  <2>3. ASSUME NEW r \in Requests PROVE Carrier(r)'
    <3>1. ~Holds(r) /\ (Holds(r)' <=> Head(queue).id = r)
      BY <1>1, <2>1, <2>2 DEF Holds
    <3>2. /\ Carries(r) <=> Head(queue).id = r \/ Carries(r)'
          /\ Unique(queue, r) => Unique(queue, r)' /\ (Head(queue).id = r => ~Carries(r)')
      <4>1. /\ Carries(r) <=> InQueue(queue, r)
            /\ Carries(r)' <=> InQueue(Tail(queue), r)
            /\ Unique(queue, r)' <=> Unique(Tail(queue), r)
        BY <2>1 DEF InQueue, Carries, Unique
      <4>. QED
        BY <1>4, <2>1, <4>1, TailCarrier
    <3>. QED
      BY <1>1, <3>1, <3>2, CarriedInQueue
      DEF CarrierInv, OneCarrierPerRequest, Carrier, CarriedOnce, Unique
  <2>4. PlainQueue' /\ PlainInHand'
    BY <1>4, <2>1, TailElements DEF CarrierInv, PlainQueue, PlainInHand
  <2>. QED
    BY <1>2, <2>3, <2>4 DEF CarrierInv, OneCarrierPerRequest, Carrier
<1>. QED
  BY <1>3, <1>4

LEMMA TickKeeps ==
  ASSUME TypeOK, CarrierInv, Tick
  PROVE  CarrierInv'
<1>1. \A c \in Commands : LET d == [c EXCEPT !.timer = CountDown(@)]
                          IN  /\ d.id = c.id /\ (Plain(d) <=> Plain(c)) /\ Key(d) = Key(c)
                              /\ d.action = c.action /\ d.sub_action = c.sub_action
                              /\ IsExpired(c.timer) => IsExpired(d.timer)
  BY DEF Commands, Plain, Key, IsExpired, CountDown
<1>2. DOMAIN queue' = DOMAIN queue
      /\ \A i \in DOMAIN queue : queue'[i].id = queue[i].id /\ (Plain(queue'[i]) <=> Plain(queue[i]))
  <2>. SUFFICES ASSUME NEW i \in DOMAIN queue
                PROVE  queue'[i].id = queue[i].id /\ (Plain(queue'[i]) <=> Plain(queue[i]))
    BY TickQueue
  <2>1. queue[i] \in Commands /\ queue'[i] = [queue[i] EXCEPT !.timer = CountDown(@)]
    BY TickQueue DEF TypeOK
  <2>. QED
    BY <1>1, <2>1
<1>3. (current' = NoCommand <=> current = NoCommand)
      /\ (current # NoCommand => current'.id = current.id /\ (Plain(current') <=> Plain(current)))
  <2>1. current # NoCommand => current \in Commands /\ current' = [current EXCEPT !.timer = CountDown(@)]
    BY DEF Tick, TypeOK
  <2>. QED
    BY <1>1, <2>1, CountDownType, CommandsHaveNoZeroId DEF Tick
<1>4. OneCarrierPerRequest'
  <2>. SUFFICES ASSUME NEW r \in Requests PROVE Carrier(r)'
    BY DEF OneCarrierPerRequest, Carrier
  <2>1. (Carries(r)' <=> Carries(r)) /\ (Unique(queue, r) => Unique(queue, r)')
    BY <1>2 DEF Carries, Unique
  <2>2. (Holds(r)' <=> Holds(r)) /\ status' = status
    BY <1>3 DEF Holds, Tick
  <2>. QED
    BY <2>1, <2>2, OthersCarried DEF CarrierInv
<1>5. SubscriptionsSampleAfresh'
  <2>. SUFFICES ASSUME NEW k \in Keys, Subscribed(k)'
                PROVE  Subscribed(k) /\ subscriptions'[k].command = subscriptions[k].command
    BY SubscriptionKept DEF Tick, CarrierInv, SubscriptionsSampleAfresh, Key
  <2>1. Subscribed(k) /\ subscriptions[k] \in Subscriptions
    BY DEF Tick, Subscribed, TypeOK
  <2>. QED
    BY <2>1 DEF Tick, Subscriptions
<1>. QED
  BY <1>2, <1>3, <1>4, <1>5 DEF CarrierInv, PlainQueue, PlainInHand

LEMMA NextCarrier == TypeOK /\ CarrierInv /\ [Next]_vars => CarrierInv'
<1>. SUFFICES ASSUME TypeOK, CarrierInv, [Next]_vars PROVE CarrierInv'
  OBVIOUS
<1>1. pc = "process" => current \in Commands
  BY DEF TypeOK
<1>2. CASE Postpone \/ ProcessActionScan \/ ProcessActionRead \/ ProcessActionRestart
  <2>1. pc = "process"
    BY <1>2 DEF Postpone, ProcessActionScan, ProcessActionRead, ProcessActionRestart, Dispatch
  <2>. QED
    BY <1>1, <1>2, <2>1, HandlerEffect, EffectKeeps DEF CarrierInv
<1>3. CASE ProcessActionSubscribe \/ ProcessActionUnsubscribe
  BY <1>1, <1>3, SubscribeKeeps, UnsubscribeKeeps
  DEF ProcessActionSubscribe, ProcessActionUnsubscribe, Dispatch
<1>4. CASE UNCHANGED vars
  BY <1>4 DEF vars, CarrierInv, OneCarrierPerRequest, CarriedOnce, Carries, Holds,
     SubscriptionsSampleAfresh, Subscribed, PlainQueue, PlainInHand
<1>. QED
  BY <1>2, <1>3, <1>4, ReceiveKeeps, SubscriptionsLoopKeeps, MqttKeeps, TickKeeps
  DEF Next, LoopTask

LEMMA InitCarrier == Init => CarrierInv
BY DEF Init, CarrierInv, OneCarrierPerRequest, Carries, Holds, SubscriptionsSampleAfresh,
   Subscribed, PlainQueue, PlainInHand

LEMMA CarrierInvariance == Spec => []CarrierInv
BY InitCarrier, NextCarrier, TypeCorrect, PTL DEF Spec

\* A request that waits for its answer is carried by exactly one command, from its
\* arrival to its end; after an answer no command is left that could answer again.
THEOREM RequestsCarriedOnce == Spec => []OneCarrierPerRequest
BY CarrierInvariance, PTL DEF CarrierInv

\* The read a subscription repeats is never one that has been through a first pass.
THEOREM CyclicReadsSampleAfresh == Spec => []SubscriptionsSampleAfresh
BY CarrierInvariance, PTL DEF CarrierInv

-----------------------------------------------------------------------------
\* ---- Reads of a subscription under way ----

\* Where a sequence has elements of a set, and how appending and removing change
\* their number.
At(q, S)  == {i \in DOMAIN q : q[i] \in S}
One(c, S) == IF c \in S THEN 1 ELSE 0

LEMMA CountType ==
  ASSUME NEW q \in Seq(Commands), NEW S
  PROVE  IsFiniteSet(At(q, S)) /\ Cardinality(At(q, S)) \in Nat
<1>1. Len(q) \in Nat /\ DOMAIN q = 1 .. Len(q)
  OBVIOUS
<1>2. IsFiniteSet(DOMAIN q)
  BY <1>1, FS_Interval
<1>3. At(q, S) \in SUBSET DOMAIN q
  BY DEF At
<1>4. IsFiniteSet(At(q, S))
  BY <1>2, <1>3, FS_Subset
<1>. QED
  BY <1>4, FS_CardinalityType

LEMMA CountAppend ==
  ASSUME NEW q \in Seq(Commands), NEW c \in Commands, NEW S
  PROVE  Cardinality(At(Append(q, c), S)) = Cardinality(At(q, S)) + One(c, S)
<1>. DEFINE p == Append(q, c)
<1>1. /\ Len(q) \in Nat /\ DOMAIN q = 1 .. Len(q) /\ DOMAIN p = 1 .. Len(q) + 1
      /\ p[Len(q) + 1] = c /\ \A i \in 1 .. Len(q) : p[i] = q[i]
  OBVIOUS
<1>. HIDE DEF p
<1>2. At(p, S) = IF c \in S THEN At(q, S) \cup {Len(q) + 1} ELSE At(q, S)
  <2>1. \A i \in DOMAIN p : i = Len(q) + 1 \/ (i \in DOMAIN q /\ p[i] = q[i])
    BY <1>1
  <2>2. DOMAIN q \subseteq DOMAIN p /\ Len(q) + 1 \in DOMAIN p
    BY <1>1
  <2>. QED
    BY <1>1, <2>1, <2>2 DEF At
<1>3. Len(q) + 1 \notin At(q, S)
  BY <1>1 DEF At
<1>4. IsFiniteSet(At(q, S)) /\ Cardinality(At(q, S)) \in Nat
  BY CountType
<1>5. Cardinality(At(q, S) \cup {Len(q) + 1}) = Cardinality(At(q, S)) + 1
  BY <1>3, <1>4, FS_AddElement
<1>6. Cardinality(At(p, S)) = Cardinality(At(q, S)) + One(c, S)
  BY <1>2, <1>4, <1>5 DEF One
<1>. QED
  BY <1>6 DEF p

LEMMA CountTail ==
  ASSUME NEW q \in Seq(Commands), q # <<>>, NEW S
  PROVE  Cardinality(At(q, S)) = Cardinality(At(Tail(q), S)) + One(Head(q), S)
<1>. DEFINE p == Tail(q)
            f == [i \in At(p, S) |-> i + 1]
<1>1. /\ Len(q) \in Nat \ {0} /\ DOMAIN q = 1 .. Len(q) /\ DOMAIN p = 1 .. Len(q) - 1
      /\ Head(q) = q[1] /\ \A i \in 1 .. Len(q) - 1 : p[i] = q[i + 1]
  OBVIOUS
<1>2. p \in Seq(Commands)
  OBVIOUS
<1>. HIDE DEF p
<1>3. f \in [At(p, S) -> At(q, S) \ {1}]
  BY <1>1 DEF At
<1>4. \A i, j \in At(p, S) : f[i] = f[j] => i = j
  BY <1>1 DEF At
<1>5. \A j \in At(q, S) \ {1} : \E i \in At(p, S) : f[i] = j
  <2>. SUFFICES ASSUME NEW j \in At(q, S) \ {1} PROVE j - 1 \in At(p, S) /\ f[j - 1] = j
    OBVIOUS
  <2>1. j \in 2 .. Len(q) /\ q[j] \in S
    BY <1>1 DEF At
  <2>2. j - 1 \in 1 .. Len(q) - 1 /\ (j - 1) + 1 = j
    BY <1>1, <2>1
  <2>. QED
    BY <1>1, <2>1, <2>2 DEF At
<1>6. ExistsBijection(At(p, S), At(q, S) \ {1})
  <2>1. f \in Bijection(At(p, S), At(q, S) \ {1})
    BY <1>3, <1>4, <1>5, Fun_IsBij
  <2>. QED
    BY <2>1 DEF ExistsBijection
<1>7. Cardinality(At(q, S) \ {1}) = Cardinality(At(p, S))
  BY <1>2, <1>6, CountType, FS_Bijection
<1>8. 1 \in At(q, S) <=> Head(q) \in S
  BY <1>1 DEF At
<1>9. /\ IsFiniteSet(At(q, S)) /\ Cardinality(At(q, S)) \in Nat
      /\ Cardinality(At(p, S)) \in Nat
  BY <1>2, CountType
<1>10. Cardinality(At(q, S) \ {1}) = Cardinality(At(q, S)) - One(Head(q), S)
  <2>1. Cardinality(At(q, S) \ {1}) =
          IF 1 \in At(q, S) THEN Cardinality(At(q, S)) - 1 ELSE Cardinality(At(q, S))
    BY <1>9, FS_RemoveElement
  <2>. QED
    BY <1>8, <1>9, <2>1 DEF One
<1>11. Cardinality(At(q, S)) = Cardinality(At(p, S)) + One(Head(q), S)
  BY <1>7, <1>9, <1>10 DEF One
<1>. QED
  BY <1>11 DEF p

Marked(k) == {c \in Commands : CyclicRead(c, k)}
InHand(k) == IF current # NoCommand /\ CyclicRead(current, k) THEN 1 ELSE 0

\* The reads under way, as a count over the queue and the command in hand.
Counted(k) == /\ InFlight(k) = Cardinality(At(queue, Marked(k))) + InHand(k)
              /\ Cardinality(At(queue, Marked(k))) \in Nat /\ InHand(k) \in {0, 1}

LEMMA InFlightCount == TypeOK => \A k \in Keys : Counted(k)
<1>. SUFFICES ASSUME TypeOK, NEW k \in Keys PROVE Counted(k)
  OBVIOUS
<1>1. queue \in Seq(Commands) /\ \A i \in DOMAIN queue : queue[i] \in Commands
  BY DEF TypeOK
<1>2. {i \in DOMAIN queue : CyclicRead(queue[i], k)} = At(queue, Marked(k))
  BY <1>1 DEF At, Marked
<1>. QED
  BY <1>1, <1>2, CountType DEF Counted, InFlight, InHand

LEMMA NextInFlightCount == TypeOK' => (\A k \in Keys : Counted(k))'
BY InFlightCount, PTL

\* The reads of the queue stay the same reads while no request in the queue is
\* decided.
SameMarks == \A i \in DOMAIN queue : status'[queue[i].id] = status[queue[i].id]

LEMMA MarksKept ==
  ASSUME SameMarks, NEW k
  PROVE  At(queue, Marked(k)') = At(queue, Marked(k))
BY DEF SameMarks, At, Marked, CyclicRead, Key

LEMMA FinishMarks ==
  ASSUME TypeOK, OneCarrierPerRequest, current \in Commands, NEW o, Finish(current, o)
  PROVE  SameMarks
<1>1. \A i \in DOMAIN queue : queue[i].id \in Requests
  <2>1. \A i \in DOMAIN queue : queue[i] \in Commands
    BY DEF TypeOK
  <2>. QED
    BY <2>1 DEF Commands
<1>2. status[current.id] = "pending" => \A i \in DOMAIN queue : queue[i].id # current.id
  BY HeldCarrier DEF InQueue
<1>. QED
  BY <1>1, <1>2 DEF SameMarks, Finish, TypeOK

Quiet(k) == InFlight(k)' <= InFlight(k)

\* The number grows neither when the queue stays, nor when what is appended is no
\* read of k or the read that was in hand.
LEMMA SameQueueQuiet ==
  ASSUME TypeOK, TypeOK', SameMarks, NEW k \in Keys, UNCHANGED queue, InHand(k)' <= InHand(k)
  PROVE  Quiet(k)
<1>1. Counted(k) /\ Counted(k)'
  BY InFlightCount, NextInFlightCount
<1>2. Cardinality(At(queue, Marked(k)))' = Cardinality(At(queue, Marked(k)))
  BY MarksKept DEF At
<1>. QED
  BY <1>1, <1>2 DEF Counted, Quiet

LEMMA EnqueueQuiet ==
  ASSUME TypeOK, TypeOK', SameMarks, NEW k \in Keys, NEW c \in Commands,
         queue' = Append(queue, c), One(c, Marked(k)') + InHand(k)' <= InHand(k)
  PROVE  Quiet(k)
<1>1. Counted(k) /\ Counted(k)'
  BY InFlightCount, NextInFlightCount
<1>2. Cardinality(At(queue, Marked(k)))' = Cardinality(At(queue, Marked(k)')) + One(c, Marked(k)')
  <2>1. queue \in Seq(Commands)
    BY DEF TypeOK
  <2>2. At(queue, Marked(k))' = At(Append(queue, c), Marked(k)')
    BY DEF At
  <2>. QED
    BY <2>1, <2>2, CountAppend
<1>3. At(queue, Marked(k)') = At(queue, Marked(k)) /\ One(c, Marked(k)') \in {0, 1}
  BY MarksKept DEF One
<1>. QED
  BY <1>1, <1>2, <1>3 DEF Counted, Quiet

\* A reboot leaves no read.
LEMMA RestartQuiet ==
  ASSUME TypeOK, TypeOK', Restarted, NEW k \in Keys
  PROVE  Quiet(k)
<1>1. Counted(k) /\ Counted(k)'
  BY InFlightCount, NextInFlightCount
<1>2. At(queue, Marked(k))' = {} /\ InHand(k)' = 0 /\ InHand(k) \in {0, 1}
  BY DEF Restarted, At, InHand
<1>. QED
  BY <1>1, <1>2, FS_EmptySet DEF Counted, Quiet

\* Handlers give up the read they were given, or put it back.
LEMMA EffectQuiet ==
  ASSUME TypeOK, TypeOK', CarrierInv, current \in Commands, Effect, NEW k \in Keys
  PROVE  Quiet(k)
<1>1. current # NoCommand /\ InHand(k) \in {0, 1}
  BY CommandsHaveNoZeroId DEF InHand
<1>2. ASSUME NEW o \in Outcomes, Reboot(o) PROVE Quiet(k)
  BY <1>2, RestartQuiet DEF Reboot
<1>3. ASSUME NEW o \in Outcomes, current' = NoCommand, Respond(o) PROVE Quiet(k)
  <2>1. InHand(k)' = 0
    BY <1>3 DEF InHand
  <2>. QED
    BY <1>1, <1>3, <2>1, FinishMarks, SameQueueQuiet DEF CarrierInv, Respond
<1>4. ASSUME NEW c \in Commands, Continues(c), Requeue(c), current' = NoCommand PROVE Quiet(k)
  <2>1. InHand(k)' = 0
    BY <1>4 DEF InHand
  <2>2. CASE Room
    <3>1. queue' = Append(queue, c) /\ status' = status
      BY <1>4, <2>2 DEF Requeue, EnqueueCommand
    <3>2. SameMarks
      BY <3>1 DEF SameMarks
    <3>3. One(c, Marked(k)') = InHand(k)
      BY <1>1, <1>4, <3>1 DEF One, InHand, Marked, CyclicRead, Continues, Key
    <3>. QED
      BY <1>1, <2>1, <3>1, <3>2, <3>3, EnqueueQuiet
  <2>3. CASE ~Room
    <3>1. UNCHANGED queue /\ Finish(current, "lost")
      BY <1>4, <2>3 DEF Requeue, EnqueueCommand, Finish, Continues
    <3>. QED
      BY <1>1, <2>1, <3>1, FinishMarks, SameQueueQuiet DEF CarrierInv
  <2>. QED
    BY <2>2, <2>3
<1>. QED
  BY <1>2, <1>3, <1>4 DEF Effect

LEMMA UnsubscribeQuiet ==
  ASSUME TypeOK, TypeOK', CarrierInv, current \in Commands, ProcessActionUnsubscribe, NEW k \in Keys
  PROVE  Quiet(k)
<1>1. PICK o \in Outcomes : Respond(o)
  BY DEF ProcessActionUnsubscribe, Outcomes
<1>2. InHand(k)' = 0 /\ InHand(k) \in {0, 1}
  BY DEF ProcessActionUnsubscribe, Done, InHand
<1>. QED
  BY <1>1, <1>2, FinishMarks, SameQueueQuiet DEF CarrierInv, Respond

\* The first read of a new subscription is one of its own.
LEMMA SubscribeQuiet ==
  ASSUME TypeOK, TypeOK', CarrierInv, current \in Commands, ProcessActionSubscribe,
         NEW k \in Keys, ~Subscribed(k)'
  PROVE  Quiet(k)
<1>. DEFINE read  == ConvertSubscribeToReadCommand(current)
            entry == [delay |-> current.interval, timer |-> Reset(current.interval),
                      command |-> read]
<1>1. read \in Commands /\ Key(read) = Key(current)
  BY ConvertType DEF ConvertSubscribeToReadCommand, Commands, Key
<1>2. PICK o : Finish(current, o)
  BY DEF ProcessActionSubscribe
<1>3. current' = NoCommand /\ subscriptions' = [subscriptions EXCEPT ![Key(current)] = entry]
  BY DEF ProcessActionSubscribe, Done
<1>4. UNCHANGED queue \/ queue' = Append(queue, read)
  BY DEF ProcessActionSubscribe, EnqueueCommand
<1>5. k # Key(current)
  <2>. SUFFICES ASSUME k = Key(current) PROVE FALSE
    OBVIOUS
  <2>1. subscriptions'[k] = entry
    BY <1>3 DEF TypeOK
  <2>2. entry \in Subscriptions
    BY <1>1 DEF Subscriptions, Commands, Reset
  <2>. QED
    BY <2>1, <2>2, SubscriptionsAreNotNone DEF Subscribed
<1>. HIDE DEF read
<1>6. One(read, Marked(k)') = 0 /\ InHand(k)' = 0 /\ InHand(k) \in {0, 1}
  BY <1>1, <1>3, <1>5 DEF One, Marked, CyclicRead, Key, InHand
<1>7. SameMarks
  BY <1>2, FinishMarks DEF CarrierInv
<1>. QED
  BY <1>1, <1>4, <1>6, <1>7, SameQueueQuiet, EnqueueQuiet

LEMMA SubscriptionsLoopQuiet ==
  ASSUME TypeOK, TypeOK', CarrierInv, SubscriptionsLoop, NEW k \in Keys, ~Subscribed(k)'
  PROVE  Quiet(k)
<1>. DEFINE j == SubscriptionOrder[cursor]
            c == subscriptions[j].command
<1>1. j \in Keys
  BY KeysAreTargets DEF TypeOK
<1>2. SameMarks /\ InHand(k)' = InHand(k) /\ InHand(k) \in {0, 1}
  BY DEF SubscriptionsLoop, SameMarks, InHand, CyclicRead, Key
<1>3. CASE UNCHANGED queue
  BY <1>2, <1>3, SameQueueQuiet
<1>4. CASE Subscribed(j) /\ queue' = Append(queue, c)
           /\ subscriptions' = [subscriptions EXCEPT ![j].timer = Reset(subscriptions[j].delay)]
  <2>1. subscriptions[j] \in Subscriptions /\ c \in Commands /\ Key(c) = j
    BY <1>1, <1>4 DEF Subscribed, TypeOK, Subscriptions, CarrierInv, SubscriptionsSampleAfresh
  <2>2. k # j
    <3>1. subscriptions'[j] = [subscriptions[j] EXCEPT !.timer = Reset(subscriptions[j].delay)]
      BY <1>1, <1>4 DEF TypeOK
    <3>2. subscriptions'[j] \in Subscriptions
      BY <2>1, <3>1 DEF Subscriptions, Reset
    <3>. QED
      BY <3>2, SubscriptionsAreNotNone DEF Subscribed
  <2>. HIDE DEF c
  <2>3. One(c, Marked(k)') = 0
    BY <2>1, <2>2 DEF One, Marked, CyclicRead, Key
  <2>. QED
    BY <1>2, <1>4, <2>1, <2>3, EnqueueQuiet
<1>. QED
  BY <1>3, <1>4 DEF SubscriptionsLoop, EnqueueCommand

\* A request on its way in is a client's: no read of a subscription.
LEMMA MessageQuiet ==
  ASSUME TypeOK, TypeOK', CarrierInv, NEW k \in Keys, NEW s \in Requests,
         MalformedMessage(s) \/ \E c \in ClientCommands : MqttMessage(s, c)
  PROVE  Quiet(k)
<1>2. status[s] = "unsent" /\ ~Carries(s) /\ ~Holds(s)
  BY DEF MalformedMessage, MqttMessage, NextRequest, CarrierInv, OneCarrierPerRequest
<1>3. UNCHANGED current /\ \A r \in Requests : r # s => status'[r] = status[r]
  BY DEF MalformedMessage, MqttMessage, TypeOK
<1>4. SameMarks
  <2>1. \A i \in DOMAIN queue : queue[i] \in Commands
    BY DEF TypeOK
  <2>2. \A i \in DOMAIN queue : queue[i].id \in Requests /\ queue[i].id # s
    BY <1>2, <2>1 DEF Carries, Commands
  <2>. QED
    BY <1>3, <2>2 DEF SameMarks
<1>5. InHand(k)' = InHand(k) /\ InHand(k) \in {0, 1}
  <2>1. current # NoCommand => current.id \in Requests /\ current.id # s
    BY <1>2 DEF TypeOK, Commands, Holds
  <2>. QED
    BY <1>3, <2>1 DEF InHand, CyclicRead, Key
<1>6. CASE UNCHANGED queue
  BY <1>4, <1>5, <1>6, SameQueueQuiet
<1>7. ASSUME NEW c \in ClientCommands, MqttMessage(s, c), Room PROVE Quiet(k)
  <2>. DEFINE cmd == InitEmptyCommand(s, c)
  <2>1. cmd \in Commands /\ cmd.id = s /\ queue' = Append(queue, cmd) /\ status'[s] = "pending"
    BY <1>7, RequestIsCommand DEF InitEmptyCommand, MqttMessage, EnqueueCommand, TypeOK
  <2>. HIDE DEF cmd
  <2>2. One(cmd, Marked(k)') = 0
    BY <2>1 DEF One, Marked, CyclicRead
  <2>. QED
    BY <1>4, <1>5, <2>1, <2>2, EnqueueQuiet
<1>. QED
  BY <1>6, <1>7 DEF MalformedMessage, MqttMessage, EnqueueCommand

LEMMA MqttQuiet ==
  ASSUME TypeOK, TypeOK', CarrierInv, MqttTask, NEW k \in Keys
  PROVE  Quiet(k)
<1>1. ASSUME NEW s \in Requests, UnreadableAddress(s) PROVE Quiet(k)
  BY <1>1, RestartQuiet DEF UnreadableAddress
<1>. QED
  BY <1>1, MessageQuiet DEF MqttTask

LEMMA ReceiveQuiet ==
  ASSUME TypeOK, TypeOK', Receive, NEW k \in Keys
  PROVE  Quiet(k)
<1>1. current = NoCommand /\ UNCHANGED status
  BY DEF Receive, TypeOK
<1>2. SameMarks
  BY <1>1 DEF SameMarks
<1>3. CASE queue = <<>>
  <2>1. UNCHANGED <<queue, current>>
    BY <1>3 DEF Receive
  <2>2. InHand(k)' = 0 /\ InHand(k) = 0
    BY <1>1, <2>1 DEF InHand
  <2>. QED
    BY <1>2, <2>1, <2>2, SameQueueQuiet
<1>4. CASE queue # <<>>
  <2>1. queue \in Seq(Commands) /\ queue' = Tail(queue) /\ current' = Head(queue)
    BY <1>4 DEF Receive, TypeOK
  <2>2. current' \in Commands /\ current' # NoCommand
    BY <1>4, <2>1, DequeueType, CommandsHaveNoZeroId DEF TypeOK
  <2>3. At(queue, Marked(k))' = At(Tail(queue), Marked(k))
    BY <1>1, <2>1 DEF At, Marked, CyclicRead, Key
  <2>4. InHand(k) = 0 /\ InHand(k)' = One(Head(queue), Marked(k))
    BY <1>1, <2>1, <2>2 DEF InHand, One, Marked, CyclicRead, Key
  <2>5. Cardinality(At(queue, Marked(k))) =
          Cardinality(At(Tail(queue), Marked(k))) + One(Head(queue), Marked(k))
    BY <1>4, <2>1, CountTail
  <2>6. Counted(k) /\ Counted(k)'
    BY InFlightCount, NextInFlightCount
  <2>. QED
    BY <2>3, <2>4, <2>5, <2>6 DEF Counted, Quiet
<1>. QED
  BY <1>3, <1>4

LEMMA TickQuiet ==
  ASSUME TypeOK, TypeOK', Tick, NEW k \in Keys
  PROVE  Quiet(k)
<1>1. \A c \in Commands : LET d == [c EXCEPT !.timer = CountDown(@)]
                          IN  d.id = c.id /\ d.action = c.action /\ Key(d) = Key(c)
  BY DEF Commands, Key, CountDown
<1>2. \A i \in DOMAIN queue : CyclicRead(queue[i], k)' <=> CyclicRead(queue[i], k)
  <2>. SUFFICES ASSUME NEW i \in DOMAIN queue
                PROVE  CyclicRead(queue[i], k)' <=> CyclicRead(queue[i], k)
    OBVIOUS
  <2>1. queue[i] \in Commands /\ queue'[i] = [queue[i] EXCEPT !.timer = CountDown(@)]
    BY TickQueue DEF TypeOK
  <2>2. UNCHANGED status
    BY DEF Tick
  <2>. QED
    BY <1>1, <2>1, <2>2 DEF CyclicRead, Key
<1>3. /\ current' = NoCommand <=> current = NoCommand
      /\ current # NoCommand => (CyclicRead(current, k)' <=> CyclicRead(current, k))
  <2>1. current # NoCommand => current \in Commands /\ current' = [current EXCEPT !.timer = CountDown(@)]
    BY DEF Tick, TypeOK
  <2>2. UNCHANGED status
    BY DEF Tick
  <2>. QED
    BY <1>1, <2>1, <2>2, CountDownType, CommandsHaveNoZeroId DEF Tick, CyclicRead, Key
<1>4. InFlight(k)' = InFlight(k)
  BY <1>2, <1>3, TickQueue DEF InFlight
<1>5. Counted(k)
  BY InFlightCount
<1>. QED
  BY <1>4, <1>5 DEF Counted, Quiet

LEMMA NextQuiet ==
  ASSUME TypeOK, TypeOK', CarrierInv, [Next]_vars, NEW k \in Keys, ~Subscribed(k)'
  PROVE  Quiet(k)
<1>1. pc = "process" => current \in Commands
  BY DEF TypeOK
<1>2. CASE Postpone \/ ProcessActionScan \/ ProcessActionRead \/ ProcessActionRestart
  <2>1. pc = "process"
    BY <1>2 DEF Postpone, ProcessActionScan, ProcessActionRead, ProcessActionRestart, Dispatch
  <2>. QED
    BY <1>1, <1>2, <2>1, HandlerEffect, EffectQuiet DEF CarrierInv
<1>3. CASE ProcessActionSubscribe \/ ProcessActionUnsubscribe
  BY <1>1, <1>3, SubscribeQuiet, UnsubscribeQuiet
  DEF ProcessActionSubscribe, ProcessActionUnsubscribe, Dispatch
<1>4. CASE UNCHANGED vars
  <2>1. SameMarks /\ UNCHANGED queue /\ InHand(k)' = InHand(k) /\ InHand(k) \in {0, 1}
    BY <1>4 DEF vars, SameMarks, InHand, CyclicRead, Key
  <2>. QED
    BY <2>1, SameQueueQuiet
<1>. QED
  BY <1>2, <1>3, <1>4, ReceiveQuiet, SubscriptionsLoopQuiet, MqttQuiet, TickQuiet
  DEF Next, LoopTask

\* Once it has been cancelled, a subscription's reads drain: no step that ends
\* without the subscription puts one more of them under way.
THEOREM UnsubscribedReadsDrain == Spec => QuietAfterUnsubscribe
<1>1. TypeOK /\ TypeOK' /\ CarrierInv /\ [Next]_vars =>
        [\A k \in Keys : ~Subscribed(k)' => InFlight(k)' <= InFlight(k)]_vars
  BY NextQuiet DEF Quiet
<1>. QED
  BY <1>1, TypeCorrect, CarrierInvariance, PTL DEF Spec, QuietAfterUnsubscribe

=============================================================================
