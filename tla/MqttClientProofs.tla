---------------------------- MODULE MqttClientProofs ----------------------------
(***************************************************************************)
(* Theorems about MqttClient, for any number of changes of the link and of *)
(* failures.                                                               *)
(***************************************************************************)
EXTENDS MqttClient, SequenceTheorems, TLAPS

\* What may be on the way to the broker while the client is connected, and when it
\* has said goodbye.
Greetings == {<<>>, <<"subscribe">>, <<"subscribe", "online">>, <<"online">>}
Goodbyes  == {<<"disconnect">>, <<"subscribe", "disconnect">>, <<"online", "disconnect">>,
              <<"subscribe", "online", "disconnect">>}

\* Nothing of an earlier connection is on the way when a new one is made.
WireInv ==
  /\ wire \in Greetings \cup Goodbyes
  /\ client \in {"DISCONNECTED", "CONNECTING"} => wire = <<>>
  /\ client = "CONNECTED" => wire \in Greetings

\* What OnConnected has sent so far, as long as nobody has disconnected meanwhile.
HandshakeInv ==
  /\ sent \in {0, 1} /\ (sent = 1 => tcp_pc = "connected")
  /\ client = "CONNECTED" /\ tcp_pc = "connected" =>
       /\ sent = 0 => wire = <<>>
       /\ sent = 1 => wire = <<"subscribe">> \/ (wire = <<>> /\ (session = "live" => listening))

\* The announcement is never next while the session is not listening.
OnlineInv == session = "live" /\ wire # <<>> /\ Head(wire) = "online" => listening

IInv == TypeOK /\ WireInv /\ HandshakeInv /\ OnlineInv

-----------------------------------------------------------------------------
\* ---- The wire ----

Packets == {"subscribe", "online", "disconnect"}

\* Explicit sequences, for the provers.
LEMMA AppendToOne == ASSUME NEW a, NEW b PROVE Append(<<a>>, b) = <<a, b>>
<1>. DEFINE S == {a, b}
            s == Append(<<a>>, b)
            t == <<a, b>>
<1>1. <<a>> \in Seq(S) /\ t \in Seq(S) /\ b \in S /\ Len(<<a>>) = 1 /\ Len(t) = 2
  OBVIOUS
<1>2. Len(s) = 2 /\ s \in Seq(S) /\ s[1] = a /\ s[2] = b
  BY <1>1, AppendProperties
<1>3. t[1] = a /\ t[2] = b
  OBVIOUS
<1>. HIDE DEF s, t
<1>4. \A i \in 1 .. 2 : s[i] = t[i]
  <2>1. \A i \in 1 .. 2 : i = 1 \/ i = 2
    OBVIOUS
  <2>. QED
    BY <1>2, <1>3, <2>1
<1>5. s = t
  BY <1>1, <1>2, <1>4, SeqEqual
<1>. QED BY <1>5 DEF s, t

LEMMA AppendToTwo == ASSUME NEW a, NEW b, NEW c PROVE Append(<<a, b>>, c) = <<a, b, c>>
<1>. DEFINE S == {a, b, c}
            s == Append(<<a, b>>, c)
            t == <<a, b, c>>
<1>1. <<a, b>> \in Seq(S) /\ t \in Seq(S) /\ c \in S /\ Len(<<a, b>>) = 2 /\ Len(t) = 3
  OBVIOUS
<1>2. Len(s) = 3 /\ s \in Seq(S) /\ s[1] = a /\ s[2] = b /\ s[3] = c
  BY <1>1, AppendProperties
<1>3. t[1] = a /\ t[2] = b /\ t[3] = c
  OBVIOUS
<1>. HIDE DEF s, t
<1>4. \A i \in 1 .. 3 : s[i] = t[i]
  <2>1. \A i \in 1 .. 3 : i = 1 \/ i = 2 \/ i = 3
    OBVIOUS
  <2>. QED
    BY <1>2, <1>3, <2>1
<1>5. s = t
  BY <1>1, <1>2, <1>4, SeqEqual
<1>. QED BY <1>5 DEF s, t

LEMMA WireType == ASSUME NEW w \in Greetings \cup Goodbyes PROVE w \in Seq(Packets) /\ Len(w) <= 3
<1>1. /\ <<>> \in Seq(Packets) /\ Len(<<>>) <= 3
      /\ <<"subscribe">> \in Seq(Packets) /\ Len(<<"subscribe">>) <= 3
      /\ <<"online">> \in Seq(Packets) /\ Len(<<"online">>) <= 3
      /\ <<"disconnect">> \in Seq(Packets) /\ Len(<<"disconnect">>) <= 3
  BY DEF Packets
<1>2. /\ <<"subscribe", "online">> \in Seq(Packets) /\ Len(<<"subscribe", "online">>) <= 3
      /\ <<"subscribe", "disconnect">> \in Seq(Packets) /\ Len(<<"subscribe", "disconnect">>) <= 3
      /\ <<"online", "disconnect">> \in Seq(Packets) /\ Len(<<"online", "disconnect">>) <= 3
  BY DEF Packets
<1>3. /\ <<"subscribe", "online", "disconnect">> \in Seq(Packets)
      /\ Len(<<"subscribe", "online", "disconnect">>) <= 3
  BY DEF Packets
<1>. QED
  BY <1>1, <1>2, <1>3, Zenon DEF Greetings, Goodbyes

\* A goodbye goes behind the greeting, as far as it has been sent.
LEMMA SaysGoodbye == ASSUME NEW w \in Greetings PROVE Append(w, "disconnect") \in Goodbyes
<1>1. CASE w = <<>>
  BY <1>1 DEF Goodbyes
<1>2. CASE w = <<"subscribe">>
  BY <1>2, AppendToOne, AppendToTwo DEF Goodbyes
<1>3. CASE w = <<"subscribe", "online">>
  BY <1>3, AppendToOne, AppendToTwo DEF Goodbyes
<1>4. CASE w = <<"online">>
  BY <1>4, AppendToOne, AppendToTwo DEF Goodbyes
<1>. QED
  BY <1>1, <1>2, <1>3, <1>4 DEF Greetings

\* What is left when the first packet has arrived.
LEMMA RestOfWire ==
  ASSUME NEW w \in Greetings \cup Goodbyes, w # <<>>
  PROVE  /\ Head(w) \in Packets
         /\ Tail(w) \in Greetings \cup Goodbyes
         /\ w \in Greetings => Tail(w) \in Greetings
         /\ Head(w) # "subscribe" /\ Tail(w) # <<>> => Head(Tail(w)) # "online"
         /\ w = <<"subscribe">> => Head(w) = "subscribe" /\ Tail(w) = <<>>
<1>1. CASE w = <<"subscribe">>
  BY <1>1 DEF Greetings, Packets
<1>2. CASE w = <<"subscribe", "online">>
  <2>1. Head(w) = "subscribe" /\ Tail(w) = <<"online">> /\ w # <<"subscribe">>
    BY <1>2
  <2>. QED
    BY <2>1 DEF Greetings, Packets
<1>3. CASE w = <<"online">>
  BY <1>3 DEF Greetings, Packets
<1>4. CASE w = <<"disconnect">>
  BY <1>4 DEF Greetings, Goodbyes, Packets
<1>5. CASE w = <<"subscribe", "disconnect">>
  <2>1. Head(w) = "subscribe" /\ Tail(w) = <<"disconnect">> /\ w # <<"subscribe">> /\ w \notin Greetings
    BY <1>5 DEF Greetings
  <2>. QED
    BY <2>1 DEF Goodbyes, Packets
<1>6. CASE w = <<"online", "disconnect">>
  <2>1. /\ Head(w) = "online" /\ Tail(w) = <<"disconnect">> /\ w # <<"subscribe">> /\ w \notin Greetings
        /\ Head(Tail(w)) = "disconnect"
    BY <1>6 DEF Greetings
  <2>. QED
    BY <2>1 DEF Goodbyes, Packets
<1>7. CASE w = <<"subscribe", "online", "disconnect">>
  <2>1. /\ Head(w) = "subscribe" /\ Tail(w) = <<"online", "disconnect">> /\ w # <<"subscribe">>
        /\ w \notin Greetings
    BY <1>7 DEF Greetings
  <2>. QED
    BY <2>1 DEF Goodbyes, Packets
<1>. QED
  BY <1>1, <1>2, <1>3, <1>4, <1>5, <1>6, <1>7 DEF Greetings, Goodbyes

-----------------------------------------------------------------------------
\* ---- The event task ----

LEMMA EventKeeps == IInv /\ OnEthernetEvent => IInv'
<1>. SUFFICES ASSUME IInv, OnEthernetEvent PROVE IInv'
  OBVIOUS
<1>1. UNCHANGED <<link, flaps, client, wire, tcp_vars, loop_vars, broker_vars>> /\ events # <<>>
  BY DEF OnEthernetEvent
<1>2. events \in Seq({"START", "GOT_IP", "DISCONNECTED"})
  BY DEF IInv, TypeOK
<1>3. Head(events) \in {"START", "GOT_IP", "DISCONNECTED"} /\ events' \in Seq({"START", "GOT_IP", "DISCONNECTED"})
  BY <1>1, <1>2, HeadTailProperties DEF OnEthernetEvent
<1>4. ethernet' \in {"disconnected", "connecting", "connected"} /\ event_pc' \in {"idle", "notify"}
  BY <1>3 DEF OnEthernetEvent
<1>5. TypeOK'
  BY <1>1, <1>3, <1>4 DEF IInv, TypeOK, tcp_vars, loop_vars, broker_vars
<1>6. WireInv' /\ HandshakeInv' /\ OnlineInv'
  BY <1>1 DEF IInv, WireInv, HandshakeInv, OnlineInv, tcp_vars, broker_vars
<1>. QED
  BY <1>5, <1>6 DEF IInv

\* A disconnection leaves the handshake where it is; nothing more of it is sent.
LEMMA StateChangeKeeps == IInv /\ OnConnectionStateChange => IInv'
<1>. SUFFICES ASSUME IInv, OnConnectionStateChange PROVE IInv'
  OBVIOUS
<1>1. /\ event_pc' = "idle"
      /\ UNCHANGED <<link, events, ethernet, flaps, tcp_vars, loop_vars, broker_vars>>
  BY DEF OnConnectionStateChange
<1>2. UNCHANGED <<link, events, ethernet, flaps, tcp_pc, sent, breaks, reconnect, loop_pc, session,
                  listening, status>>
  BY <1>1 DEF tcp_vars, loop_vars, broker_vars
<1>3. CASE ethernet = "connected"
  <2>1. /\ wire' = wire
        /\ client' = client \/ (client = "DISCONNECTED" /\ client' = "CONNECTING")
    BY <1>3 DEF OnConnectionStateChange, Connect
  <2>2. TypeOK'
    BY <1>1, <1>2, <2>1 DEF IInv, TypeOK, ClientStates
  <2>3. WireInv' /\ HandshakeInv' /\ OnlineInv'
    BY <1>2, <2>1 DEF IInv, WireInv, HandshakeInv, OnlineInv
  <2>. QED
    BY <2>2, <2>3 DEF IInv
<1>4. CASE ethernet # "connected"
  <2>1. Disconnect
    BY <1>4 DEF OnConnectionStateChange
  <2>2. CASE client = "CONNECTED"
    <3>1. client' = "DISCONNECTING" /\ wire' = Append(wire, "disconnect") /\ wire \in Greetings
      BY <2>1, <2>2 DEF Disconnect, IInv, WireInv
    <3>2. wire' \in Goodbyes
      BY <3>1, SaysGoodbye
    <3>3. TypeOK'
      BY <1>1, <1>2, <3>1, <3>2, WireType DEF IInv, TypeOK, ClientStates, Packets
    <3>4. WireInv' /\ HandshakeInv'
      BY <1>2, <3>1, <3>2 DEF IInv, WireInv, HandshakeInv
    <3>5. OnlineInv'
      <4>1. wire \in Seq(Packets)
        BY <3>1, WireType
      <4>2. Head(wire') = "online" => wire # <<>> /\ Head(wire) = "online"
        <5>1. CASE wire = <<>>
          BY <3>1, <5>1
        <5>2. CASE wire # <<>>
          BY <3>1, <4>1, <5>2
        <5>. QED
          BY <5>1, <5>2
      <4>. QED
        BY <1>2, <4>2 DEF IInv, OnlineInv
    <3>. QED
      BY <3>3, <3>4, <3>5 DEF IInv
  <2>3. CASE client # "CONNECTED"
    <3>1. wire' = wire /\ (client' = client \/ client' = "DISCONNECTING") /\ client' # "CONNECTED"
          /\ (client' \in {"DISCONNECTED", "CONNECTING"} => client' = client)
      BY <2>1, <2>3 DEF Disconnect
    <3>2. TypeOK'
      BY <1>1, <1>2, <3>1 DEF IInv, TypeOK, ClientStates
    <3>3. WireInv' /\ HandshakeInv' /\ OnlineInv'
      BY <1>2, <3>1 DEF IInv, WireInv, HandshakeInv, OnlineInv
    <3>. QED
      BY <3>2, <3>3 DEF IInv
  <2>. QED
    BY <2>2, <2>3
<1>. QED
  BY <1>3, <1>4

-----------------------------------------------------------------------------
\* ---- The AsyncTCP task ----

LEMMA ConnectedKeeps == IInv /\ OnConnected => IInv'
<1>. SUFFICES ASSUME IInv, OnConnected PROVE IInv'
  OBVIOUS
<1>1. /\ tcp_pc = "connected" /\ Send(Handshake[sent + 1]) /\ sent' = (sent + 1) % 2
      /\ tcp_pc' = IF sent' = 0 THEN "idle" ELSE tcp_pc
      /\ UNCHANGED <<ethernet_vars, client, breaks, loop_vars, broker_vars>>
  BY DEF OnConnected
<1>2. UNCHANGED <<link, events, ethernet, event_pc, flaps, client, breaks, reconnect, loop_pc, session,
                  listening, status>>
  BY <1>1 DEF ethernet_vars, loop_vars, broker_vars
<1>3. sent \in {0, 1} /\ (sent = 0 => sent' = 1 /\ tcp_pc' = "connected")
      /\ (sent = 1 => sent' = 0 /\ tcp_pc' = "idle")
  BY <1>1 DEF IInv, HandshakeInv
<1>4. CASE client # "CONNECTED"
  <2>1. wire' = wire
    BY <1>1, <1>4 DEF Send
  <2>2. TypeOK'
    BY <1>2, <1>3, <2>1 DEF IInv, TypeOK
  <2>3. WireInv' /\ HandshakeInv' /\ OnlineInv'
    BY <1>2, <1>3, <1>4, <2>1 DEF IInv, WireInv, HandshakeInv, OnlineInv
  <2>. QED
    BY <2>2, <2>3 DEF IInv
<1>5. CASE client = "CONNECTED" /\ sent = 0
  <2>1. wire' = <<"subscribe">>
    BY <1>1, <1>5 DEF Send, Handshake, IInv, HandshakeInv
  <2>2. wire' \in Greetings /\ Head(wire') = "subscribe"
    BY <2>1 DEF Greetings
  <2>3. TypeOK'
    BY <1>2, <1>3, <1>5, <2>2, WireType DEF IInv, TypeOK, Packets
  <2>4. WireInv' /\ HandshakeInv' /\ OnlineInv'
    BY <1>2, <1>3, <1>5, <2>1, <2>2 DEF WireInv, HandshakeInv, OnlineInv
  <2>. QED
    BY <2>3, <2>4 DEF IInv
<1>6. CASE client = "CONNECTED" /\ sent = 1
  <2>1. wire = <<"subscribe">> \/ (wire = <<>> /\ (session = "live" => listening))
    BY <1>1, <1>6 DEF IInv, HandshakeInv
  <2>2. wire' = Append(wire, "online")
    BY <1>1, <1>6 DEF Send, Handshake
  <2>3. wire' = <<"subscribe", "online">> \/ (wire' = <<"online">> /\ (session = "live" => listening))
    <3>1. CASE wire = <<"subscribe">>
      BY <2>2, <3>1, AppendToOne
    <3>2. CASE wire = <<>> /\ (session = "live" => listening)
      BY <2>2, <3>2
    <3>. QED
      BY <2>1, <3>1, <3>2
  <2>4. wire' \in Greetings
    BY <2>3 DEF Greetings
  <2>5. TypeOK'
    BY <1>2, <1>3, <1>6, <2>4, WireType DEF IInv, TypeOK, Packets
  <2>6. WireInv' /\ HandshakeInv' /\ OnlineInv'
    BY <1>2, <1>3, <1>6, <2>3, <2>4 DEF WireInv, HandshakeInv, OnlineInv
  <2>. QED
    BY <2>5, <2>6 DEF IInv
<1>. QED
  BY <1>3, <1>4, <1>5, <1>6

\* Steps that leave the connection alone.
LEMMA SideKeeps ==
  IInv /\ (OnDisconnect \/ OnDisconnectRearm \/ ReconnectTimeout \/ LinkChange \/ UNCHANGED vars) => IInv'
<1>. SUFFICES ASSUME IInv, OnDisconnect \/ OnDisconnectRearm \/ ReconnectTimeout \/ LinkChange \/ UNCHANGED vars
              PROVE  IInv'
  OBVIOUS
<1>1. UNCHANGED <<client, wire, sent, session, listening, status, loop_pc, ethernet, event_pc, breaks>>
  BY DEF OnDisconnect, OnDisconnectRearm, ReconnectTimeout, LinkChange, vars, ethernet_vars, tcp_vars,
         loop_vars, broker_vars
<1>2. tcp_pc' = tcp_pc \/ (tcp_pc # "connected" /\ tcp_pc' \in {"idle", "rearm"})
  BY DEF OnDisconnect, OnDisconnectRearm, ReconnectTimeout, LinkChange, vars, tcp_vars
<1>3. reconnect' \in {"none", "armed", "due"}
  BY DEF OnDisconnect, OnDisconnectRearm, ReconnectTimeout, LinkChange, vars, loop_vars, IInv, TypeOK
<1>4. /\ link' \in BOOLEAN /\ flaps' \in 0 .. MaxFlaps
      /\ events' \in Seq({"START", "GOT_IP", "DISCONNECTED"})
  <2>1. CASE LinkChange
    <3>1. link \in BOOLEAN /\ events \in Seq({"START", "GOT_IP", "DISCONNECTED"}) /\ flaps \in 0 .. MaxFlaps
      BY DEF IInv, TypeOK
    <3>2. events' \in Seq({"START", "GOT_IP", "DISCONNECTED"})
      BY <2>1, <3>1, AppendProperties DEF LinkChange
    <3>3. flaps' \in 0 .. MaxFlaps
      BY <2>1, <3>1, BoundAssumption DEF LinkChange
    <3>. QED
      BY <2>1, <3>2, <3>3 DEF LinkChange
  <2>2. CASE ~LinkChange
    BY <2>2 DEF OnDisconnect, OnDisconnectRearm, ReconnectTimeout, vars, ethernet_vars, IInv, TypeOK
  <2>. QED
    BY <2>1, <2>2
<1>5. TypeOK'
  BY <1>1, <1>2, <1>3, <1>4 DEF IInv, TypeOK
<1>6. WireInv' /\ HandshakeInv' /\ OnlineInv'
  BY <1>1, <1>2 DEF IInv, WireInv, HandshakeInv, OnlineInv
<1>. QED
  BY <1>5, <1>6 DEF IInv

-----------------------------------------------------------------------------
\* ---- The loop task ----

LEMMA LoopKeeps == IInv /\ Loop => IInv'
<1>. SUFFICES ASSUME IInv, Loop PROVE IInv'
  OBVIOUS
<1>1. UNCHANGED <<link, events, ethernet, event_pc, flaps, wire, tcp_pc, sent, breaks, session, listening,
                  status>>
  BY DEF Loop, ethernet_vars, tcp_vars, broker_vars
<1>2. client' = client \/ (client = "DISCONNECTED" /\ client' = "CONNECTING")
  BY DEF Loop, Connect, ReconnectDue
<1>3. reconnect' \in {"none", "armed", "due"} /\ loop_pc' \in {"idle", "clear", "connect"}
  BY DEF Loop, ReconnectDue, IInv, TypeOK
<1>4. TypeOK'
  BY <1>1, <1>2, <1>3 DEF IInv, TypeOK, ClientStates
<1>5. WireInv' /\ HandshakeInv' /\ OnlineInv'
  BY <1>1, <1>2 DEF IInv, WireInv, HandshakeInv, OnlineInv
<1>. QED
  BY <1>4, <1>5 DEF IInv

-----------------------------------------------------------------------------
\* ---- Network and broker ----

\* A new session begins with nothing on the way.
LEMMA AcceptedKeeps == IInv /\ Accepted => IInv'
<1>. SUFFICES ASSUME IInv, Accepted PROVE IInv'
  OBVIOUS
<1>1. /\ client = "CONNECTING" /\ tcp_pc = "idle" /\ client' = "CONNECTED" /\ tcp_pc' = "connected"
      /\ session' = "live" /\ listening' = FALSE
      /\ UNCHANGED <<link, events, ethernet, event_pc, flaps, wire, sent, breaks, reconnect, loop_pc>>
  BY DEF Accepted, ethernet_vars, loop_vars
<1>2. status' \in {"none", "online", "offline"}
  BY DEF Accepted, IInv, TypeOK
<1>3. wire = <<>> /\ sent = 0
  BY <1>1 DEF IInv, WireInv, HandshakeInv
<1>4. TypeOK'
  BY <1>1, <1>2 DEF IInv, TypeOK, ClientStates
<1>5. WireInv' /\ HandshakeInv' /\ OnlineInv'
  BY <1>1, <1>3 DEF WireInv, HandshakeInv, OnlineInv, Greetings
<1>. QED
  BY <1>4, <1>5 DEF IInv

LEMMA DeliveredKeeps == IInv /\ Delivered => IInv'
<1>. SUFFICES ASSUME IInv, Delivered PROVE IInv'
  OBVIOUS
<1>1. /\ session = "live" /\ wire # <<>> /\ wire' = Tail(wire)
      /\ UNCHANGED <<link, events, ethernet, event_pc, flaps, client, tcp_pc, sent, breaks, reconnect, loop_pc>>
  BY DEF Delivered, ethernet_vars, tcp_vars, loop_vars
<1>2. wire \in Greetings \cup Goodbyes
  BY DEF IInv, WireInv
<1>3. Head(wire) \in Packets /\ wire' \in Greetings \cup Goodbyes
  BY <1>1, <1>2, RestOfWire
<1>4. /\ Head(wire) = "subscribe" => listening' = TRUE
      /\ Head(wire) = "online" => listening' = listening
      /\ Head(wire) = "disconnect" => listening' = FALSE
  BY DEF Delivered
<1>5. /\ listening' \in BOOLEAN /\ status' \in {"none", "online", "offline"}
      /\ session' \in {"none", "live"}
  BY <1>1, <1>3, <1>4 DEF Delivered, IInv, TypeOK, Packets
<1>6. TypeOK'
  BY <1>1, <1>3, <1>5, WireType DEF IInv, TypeOK, Packets
<1>7. WireInv'
  BY <1>1, <1>2, <1>3, RestOfWire DEF IInv, WireInv
<1>8. HandshakeInv'
  <2>1. sent \in {0, 1} /\ (sent = 1 => tcp_pc = "connected")
    BY DEF IInv, HandshakeInv
  <2>. SUFFICES ASSUME client = "CONNECTED", tcp_pc = "connected"
                PROVE  sent = 1 /\ wire' = <<>> /\ listening'
    BY <1>1, <2>1 DEF HandshakeInv
  <2>2. sent = 1 /\ wire = <<"subscribe">>
    BY <1>1, <2>1 DEF IInv, HandshakeInv
  <2>. QED
    BY <1>1, <1>2, <1>4, <2>2, RestOfWire
<1>9. OnlineInv'
  <2>. SUFFICES ASSUME wire' # <<>>, Head(wire') = "online" PROVE listening'
    BY DEF OnlineInv
  <2>1. Head(wire) = "subscribe"
    BY <1>1, <1>2, RestOfWire
  <2>. QED
    BY <1>4, <2>1
<1>. QED
  BY <1>6, <1>7, <1>8, <1>9 DEF IInv

\* Whatever was on the way is lost with the connection.
LEMMA LoseKeeps == IInv /\ (Ends \/ Breaks) => IInv'
<1>. SUFFICES ASSUME IInv, Ends \/ Breaks PROVE IInv'
  OBVIOUS
<1>1. Lose /\ breaks' \in 0 .. MaxBreaks
  BY BoundAssumption DEF Ends, Breaks, IInv, TypeOK
<1>2. /\ tcp_pc = "idle" /\ client' = "DISCONNECTED" /\ tcp_pc' = "lost" /\ wire' = <<>>
      /\ UNCHANGED <<link, events, ethernet, event_pc, flaps, sent, reconnect, loop_pc, listening, status>>
  BY <1>1 DEF Lose, ethernet_vars, loop_vars
<1>3. session' \in {"none", "live", "dead"}
  BY <1>1 DEF Lose, IInv, TypeOK
<1>4. wire' \in Greetings /\ sent = 0
  BY <1>2 DEF IInv, HandshakeInv, Greetings
<1>5. TypeOK'
  BY <1>1, <1>2, <1>3, <1>4, WireType DEF IInv, TypeOK, ClientStates, Packets
<1>6. WireInv' /\ HandshakeInv' /\ OnlineInv'
  BY <1>2, <1>4 DEF WireInv, HandshakeInv, OnlineInv
<1>. QED
  BY <1>5, <1>6 DEF IInv

LEMMA ExpiresKeeps == IInv /\ SessionExpires => IInv'
<1>. SUFFICES ASSUME IInv, SessionExpires PROVE IInv'
  OBVIOUS
<1>1. /\ session' = "none" /\ listening' = FALSE /\ status' = "offline"
      /\ UNCHANGED <<link, events, ethernet, event_pc, flaps, client, wire, tcp_pc, sent, breaks, reconnect,
                     loop_pc>>
  BY DEF SessionExpires, ethernet_vars, tcp_vars, loop_vars
<1>2. TypeOK' /\ WireInv'
  BY <1>1 DEF IInv, TypeOK, WireInv
<1>3. HandshakeInv' /\ OnlineInv'
  BY <1>1 DEF IInv, HandshakeInv, OnlineInv
<1>. QED
  BY <1>2, <1>3 DEF IInv

-----------------------------------------------------------------------------
\* ---- Theorems ----

LEMMA InitIInv == Init => IInv
<1>. SUFFICES ASSUME Init PROVE IInv
  OBVIOUS
<1>1. <<>> \in Greetings
  BY DEF Greetings
<1>2. events \in Seq({"START", "GOT_IP", "DISCONNECTED"}) /\ wire \in Seq(Packets) /\ Len(wire) <= 3
  BY <1>1, WireType DEF Init
<1>3. TypeOK
  <2>1. 0 \in 0 .. MaxFlaps /\ 0 \in 0 .. MaxBreaks
    BY BoundAssumption
  <2>2. /\ link \in BOOLEAN /\ ethernet = "disconnected" /\ event_pc = "idle" /\ client = "DISCONNECTED"
        /\ tcp_pc = "idle" /\ sent = 0 /\ reconnect = "none" /\ loop_pc = "idle"
        /\ session \in {"none", "dead"} /\ listening \in BOOLEAN /\ flaps = 0 /\ breaks = 0
        /\ status \in {"none", "online", "offline"}
    BY DEF Init
  <2>. QED
    BY <1>2, <2>1, <2>2 DEF TypeOK, ClientStates, Packets
<1>. QED
  BY <1>1, <1>3 DEF Init, IInv, WireInv, HandshakeInv, OnlineInv

LEMMA NextIInv == IInv /\ [Next]_vars => IInv'
BY EventKeeps, StateChangeKeeps, ConnectedKeeps, SideKeeps, LoopKeeps, AcceptedKeeps, DeliveredKeeps,
   LoseKeeps, ExpiresKeeps DEF Next, EventTask, TcpTask, Network

\* The state of client, tasks and broker is well formed; never are more than three
\* packets on the way.
THEOREM TypeCorrect == Spec => []TypeOK
<1>1. IInv => TypeOK
  BY DEF IInv
<1>. QED
  BY <1>1, InitIInv, NextIInv, PTL DEF Spec

\* Whoever sees a session announce "online" can send a command and be heard, however
\* often the link or the connection breaks, and whatever the tasks do to each other.
THEOREM OnlineIsListening == Spec => OnlineMeansListening
<1>1. IInv => (Announced => listening)
  BY DEF IInv, OnlineInv, Announced
<1>. QED
  BY <1>1, InitIInv, NextIInv, PTL DEF Spec, OnlineMeansListening

=============================================================================
