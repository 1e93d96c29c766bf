----------------------------- MODULE MqttClient -----------------------------
(***************************************************************************)
(* MqttClient and Ethernet: connecting to the MQTT broker, losing the      *)
(* connection, and reconnecting.  Three tasks of the firmware share state  *)
(* without a lock:                                                         *)
(*   - the event task calls Ethernet::OnEthernetEvent;                     *)
(*   - the AsyncTCP task calls MqttClient::OnConnected and OnDisconnect;   *)
(*   - the Arduino loop task calls MqttClient::Loop.                       *)
(*                                                                         *)
(* External: the library AsyncMqttClient, whose connect() does nothing     *)
(* unless it is DISCONNECTED and which sends nothing unless it is          *)
(* CONNECTED; and the broker, which keeps the retained status, takes over  *)
(* a session when its client connects again, publishes the will of a       *)
(* session that breaks, and discards the will of one that says goodbye.    *)
(***************************************************************************)
EXTENDS Naturals, Sequences

CONSTANTS
  MaxFlaps,   \* bound: how often the ethernet link goes up or down
  MaxBreaks   \* bound: attempts and connections that fail while the link is up

ASSUME BoundAssumption == MaxFlaps \in Nat /\ MaxBreaks \in Nat

VARIABLES
  link,        \* is there a link with an IP address
  events,      \* ethernet events not yet handled
  ethernet,    \* Ethernet::connection_state_
  event_pc,    \* the event task: "idle", or about to "notify" the handlers
  client,      \* the state of the AsyncMqttClient
  wire,        \* packets handed to the library, on their way to the broker
  tcp_pc,      \* the AsyncTCP task: "idle" or where it is in a callback
  sent,        \* how much of Handshake OnConnected has sent
  reconnect,   \* reconnect_time_: "none" (0), "armed", or "due"
  loop_pc,     \* the loop task: "idle" or where it is in Loop
  session,     \* the broker: "none", "live", or "dead" (not noticed yet)
  listening,   \* the broker: is the session subscribed to the command topic
  status,      \* the broker: the retained message of the status topic
  flaps,       \* bound: changes of the link so far
  breaks       \* bound: failures so far

ethernet_vars == <<link, events, ethernet, event_pc, flaps>>
loop_vars     == <<reconnect, loop_pc>>
broker_vars   == <<session, listening, status>>
tcp_vars      == <<tcp_pc, sent, breaks>>
vars == <<ethernet_vars, client, wire, tcp_vars, loop_vars, broker_vars>>

ClientStates == {"DISCONNECTED", "CONNECTING", "CONNECTED", "DISCONNECTING"}

TypeOK ==
  /\ link \in BOOLEAN /\ events \in Seq({"START", "GOT_IP", "DISCONNECTED"})
  /\ ethernet \in {"disconnected", "connecting", "connected"}
  /\ event_pc \in {"idle", "notify"}
  /\ client \in ClientStates
  /\ wire \in Seq({"subscribe", "online", "disconnect"}) /\ Len(wire) <= 3
  /\ tcp_pc \in {"idle", "connected", "lost", "rearm"} /\ sent \in 0 .. 2
  /\ reconnect \in {"none", "armed", "due"}
  /\ loop_pc \in {"idle", "clear", "connect"}
  /\ session \in {"none", "live", "dead"} /\ listening \in BOOLEAN
  /\ status \in {"none", "online", "offline"}
  /\ flaps \in 0 .. MaxFlaps /\ breaks \in 0 .. MaxBreaks

-----------------------------------------------------------------------------
\* ---- AsyncMqttClient ----

Connect == client' = IF client = "DISCONNECTED" THEN "CONNECTING" ELSE client

\* Mutant: a connection that is being closed is closed once more.
DisconnectTwice ==
  /\ client' = IF client = "DISCONNECTED" THEN client ELSE "DISCONNECTING"
  /\ wire' = IF client \in {"CONNECTED", "DISCONNECTING"} THEN Append(wire, "disconnect") ELSE wire

Disconnect ==
  /\ client' = IF client = "DISCONNECTED" THEN client ELSE "DISCONNECTING"
  /\ wire' = IF client = "CONNECTED" THEN Append(wire, "disconnect") ELSE wire

Send(packet) == wire' = IF client = "CONNECTED" THEN Append(wire, packet) ELSE wire

-----------------------------------------------------------------------------
\* ---- Event task: Ethernet::OnEthernetEvent ----

OnEthernetEvent ==
  /\ event_pc = "idle" /\ events # <<>>
  /\ ethernet' = CASE Head(events) = "START"        -> "connecting"
                   [] Head(events) = "GOT_IP"       -> "connected"
                   [] Head(events) = "DISCONNECTED" -> "disconnected"
  /\ event_pc' = IF Head(events) = "START" THEN "idle" ELSE "notify"
  /\ events' = Tail(events)
  /\ UNCHANGED <<link, flaps, client, wire, tcp_vars, loop_vars, broker_vars>>

\* The handler MqttClient has registered.
OnConnectionStateChange ==
  /\ event_pc = "notify"
  /\ IF ethernet = "connected" THEN Connect /\ UNCHANGED wire ELSE Disconnect
  /\ event_pc' = "idle"
  /\ UNCHANGED <<link, events, ethernet, flaps, tcp_vars, loop_vars, broker_vars>>

-----------------------------------------------------------------------------
\* ---- AsyncTCP task: MqttClient's callbacks ----

\* Mutant: the status goes online before the command topic is subscribed.
HandshakeOnlineFirst == <<"online", "subscribe">>

\* What OnConnected sends: the state change handler of MqttMessageHandler
\* subscribes the command topic, then SendLwtOnline.
Handshake == <<"subscribe", "online">>

OnConnected ==
  /\ tcp_pc = "connected"
  /\ Send(Handshake[sent + 1])
  /\ sent' = (sent + 1) % 2
  /\ tcp_pc' = IF sent' = 0 THEN "idle" ELSE tcp_pc
  /\ UNCHANGED <<ethernet_vars, client, breaks, loop_vars, broker_vars>>

\* Is the ethernet connected?
OnDisconnect ==
  /\ tcp_pc = "lost"
  /\ tcp_pc' = IF ethernet = "connected" THEN "rearm" ELSE "idle"
  /\ UNCHANGED <<ethernet_vars, client, wire, sent, breaks, loop_vars, broker_vars>>

\* If it was, reconnect_time_ is set.
OnDisconnectRearm ==
  /\ tcp_pc = "rearm"
  /\ reconnect' = "armed" /\ tcp_pc' = "idle"
  /\ UNCHANGED <<ethernet_vars, client, wire, sent, breaks, loop_pc, broker_vars>>

-----------------------------------------------------------------------------
\* ---- Loop task: MqttClient::Loop ----

ReconnectDue ==
  /\ loop_pc = "idle" /\ reconnect = "due"
  /\ loop_pc' = "clear"
  /\ UNCHANGED <<reconnect, client>>

\* Mutant: reconnect_time_ is cleared after Connect.
LoopClearingLast ==
  /\ \/ ReconnectDue
     \/ loop_pc = "clear" /\ Connect /\ loop_pc' = "connect" /\ UNCHANGED reconnect
     \/ loop_pc = "connect" /\ reconnect' = "none" /\ loop_pc' = "idle" /\ UNCHANGED client
  /\ UNCHANGED <<ethernet_vars, wire, tcp_vars, broker_vars>>

\* Test, clear, connect: the AsyncTCP task may set reconnect_time_ in between.
Loop ==
  /\ \/ ReconnectDue
     \/ loop_pc = "clear" /\ reconnect' = "none" /\ loop_pc' = "connect" /\ UNCHANGED client
     \/ loop_pc = "connect" /\ Connect /\ loop_pc' = "idle" /\ UNCHANGED reconnect
  /\ UNCHANGED <<ethernet_vars, wire, tcp_vars, broker_vars>>

\* millis() reaches reconnect_time_.
ReconnectTimeout ==
  /\ reconnect = "armed" /\ reconnect' = "due"
  /\ UNCHANGED <<ethernet_vars, client, wire, tcp_vars, loop_pc, broker_vars>>

-----------------------------------------------------------------------------
\* ---- Network and broker ----

LinkChange ==
  /\ flaps < MaxFlaps /\ flaps' = flaps + 1
  /\ link' = ~link
  /\ events' = Append(events, IF link THEN "DISCONNECTED" ELSE "GOT_IP")
  /\ UNCHANGED <<ethernet, event_pc, client, wire, tcp_vars, loop_vars, broker_vars>>

\* The broker accepts the client; a session it still has is taken over.
Accepted ==
  /\ client = "CONNECTING" /\ link /\ tcp_pc = "idle"
  /\ client' = "CONNECTED" /\ tcp_pc' = "connected"
  /\ session' = "live" /\ listening' = FALSE
  /\ status' = IF session = "none" THEN status ELSE "offline"
  /\ UNCHANGED <<ethernet_vars, wire, sent, breaks, loop_vars>>

\* A packet arrives, in the order they were sent.
Delivered ==
  /\ link /\ session = "live" /\ wire # <<>>
  /\ wire' = Tail(wire)
  /\ listening' = CASE Head(wire) = "subscribe"  -> TRUE
                    [] Head(wire) = "disconnect" -> FALSE
                    [] OTHER                     -> listening
  /\ status' = IF Head(wire) = "online" THEN "online" ELSE status
  /\ session' = IF Head(wire) = "disconnect" THEN "none" ELSE session
  /\ UNCHANGED <<ethernet_vars, client, tcp_vars, loop_vars>>

\* The library is DISCONNECTED before it calls OnDisconnect.
Lose ==
  /\ client # "DISCONNECTED" /\ tcp_pc = "idle"
  /\ client' = "DISCONNECTED" /\ tcp_pc' = "lost" /\ wire' = <<>>
  /\ session' = IF session = "live" THEN "dead" ELSE session
  /\ UNCHANGED <<ethernet_vars, sent, loop_vars, listening, status>>

\* Without a link, without a session or when it disconnects, a connection ends.
Ends ==
  /\ ~link \/ client = "DISCONNECTING" \/ (client = "CONNECTED" /\ session # "live")
  /\ Lose /\ UNCHANGED breaks

\* The broker refuses or closes a connection for other reasons.
Breaks == breaks < MaxBreaks /\ breaks' = breaks + 1 /\ Lose

\* The broker gives up a session it does not hear from, and publishes its will.
SessionExpires ==
  /\ session = "dead" \/ (session = "live" /\ ~link)
  /\ session' = "none" /\ listening' = FALSE /\ status' = "offline"
  /\ UNCHANGED <<ethernet_vars, client, wire, tcp_vars, loop_vars>>

-----------------------------------------------------------------------------
\* Ethernet::Begin comes last in setup; the handlers are registered by then.
Init ==
  /\ link = FALSE /\ events = <<"START">> /\ ethernet = "disconnected" /\ event_pc = "idle"
  /\ client = "DISCONNECTED" /\ wire = <<>> /\ tcp_pc = "idle" /\ sent = 0
  /\ reconnect = "none" /\ loop_pc = "idle"
  /\ session \in {"none", "dead"} /\ listening = FALSE /\ status \in {"none", "online", "offline"}
  /\ flaps = 0 /\ breaks = 0

EventTask == OnEthernetEvent \/ OnConnectionStateChange
TcpTask   == OnConnected \/ OnDisconnect \/ OnDisconnectRearm
Network   == Accepted \/ Delivered \/ Ends

Next ==
  \/ EventTask \/ TcpTask \/ Loop \/ ReconnectTimeout
  \/ LinkChange \/ Breaks \/ SessionExpires \/ Network

Spec == Init /\ [][Next]_vars

\* The tasks run, time passes, an attempt ends one way or the other, a packet on a
\* link arrives, and a connection without a link or a session is given up.  The link
\* may stay down for ever, and the broker need not notice a dead session.
FairSpec ==
  /\ Spec
  /\ WF_vars(EventTask) /\ WF_vars(TcpTask) /\ WF_vars(Loop) /\ WF_vars(ReconnectTimeout)
  /\ WF_vars(Accepted) /\ WF_vars(Delivered) /\ WF_vars(Ends)

-----------------------------------------------------------------------------
\* ---- Properties ----

\* Whoever sees a session announce "online" can send a command and be heard: the
\* announcement reaches the broker only after the subscription of the same session,
\* also if the connection is given up and made again in the middle of OnConnected.
Announced == session = "live" /\ wire # <<>> /\ Head(wire) = "online" /\ wire' = Tail(wire)
OnlineMeansListening == [][Announced => listening]_vars

\* Whatever the three tasks do to each other, the device does not stay offline: once
\* the link stays up, it is connected, listening and announced for good.  (A wake-up
\* could be lost between Loop, OnDisconnect and the ethernet event.)
Serving == client = "CONNECTED" /\ session = "live" /\ listening /\ status = "online"
ReconnectsForGood == <>[]link => <>[]Serving

=============================================================================
