------------------------ MODULE WebSocketLoggerProofs ------------------------
(***************************************************************************)
(* Theorems about WebSocketLogger, for any number of tasks that log, any   *)
(* size of the ring and any number of lines: the mutex keeps the history   *)
(* from all but one writer, the ring is the log LineLog promises, and a    *)
(* client misses no line of it.                                            *)
(***************************************************************************)
EXTENDS WebSocketLogger, FiniteSetTheorems, SequenceTheorems, TLAPS

\* No two tasks hold the mutex.  The kind of message the loop task writes decides
\* whether its line end takes the mutex, and does not change in the middle of it.
MutexInv ==
  /\ at \in [Tasks -> Places]
  /\ \A t, u \in Tasks : t # u => ~(HoldsMutex(t) /\ HoldsMutex(u))

LEMMA InitMutex == Init => MutexInv
BY DEF Init, MutexInv, Places, HoldsMutex

\* A step of one task to a place where it holds no mutex keeps the invariant.
LEMMA MoveKeepsMutex ==
  ASSUME MutexInv, NEW t \in Tasks, NEW p \in Places,
         at' = [at EXCEPT ![t] = p],
         \A u \in Tasks \ {t} : HoldsMutex(u)' => HoldsMutex(u),
         HoldsMutex(t)' => MutexFree
  PROVE  MutexInv'
<1>1. at' \in [Tasks -> Places]
  BY DEF MutexInv
<1>2. ASSUME NEW u \in Tasks, NEW v \in Tasks, u # v
      PROVE  ~(HoldsMutex(u)' /\ HoldsMutex(v)')
  <2>1. CASE u # t /\ v # t
    BY <1>2, <2>1, Zenon DEF MutexInv
  <2>2. CASE u = t
    BY <1>2, <2>2, Zenon DEF MutexFree
  <2>3. CASE v = t
    BY <1>2, <2>3, Zenon DEF MutexFree
  <2>. QED
    BY <2>1, <2>2, <2>3
<1>. QED
  BY <1>1, <1>2, Zenon DEF MutexInv

\* With the kind of message unchanged, the other tasks hold what they held.
LEMMA OthersHold ==
  ASSUME MutexInv, NEW t \in Tasks, NEW p \in Places,
         at' = [at EXCEPT ![t] = p], progress' = progress
  PROVE  \A u \in Tasks \ {t} : HoldsMutex(u)' => HoldsMutex(u)
BY DEF MutexInv, HoldsMutex

LEMMA EnterMutex ==
  ASSUME MutexInv, NEW t \in Tasks, NEW from \in Places, NEW to \in Places, Enter(t, from, to),
         \/ MutexFree
         \/ to = "in_chars"
         \/ to = "in_end" /\ t = Loop /\ progress
  PROVE  MutexInv'
<1>1. at' = [at EXCEPT ![t] = to] /\ progress' = progress
  BY DEF Enter
<1>2. HoldsMutex(t)' => MutexFree
  BY <1>1 DEF MutexInv, HoldsMutex
<1>. QED
  BY <1>1, <1>2, OthersHold, MoveKeepsMutex, Zenon

LEMMA LeaveMutex ==
  ASSUME MutexInv, NEW t \in Tasks, NEW to \in {"chars", "end", "idle"},
         at' = [at EXCEPT ![t] = to], progress' = progress
  PROVE  MutexInv'
<1>1. to \in Places
  BY DEF Places
<1>2. ~HoldsMutex(t)'
  BY DEF MutexInv, HoldsMutex
<1>. QED
  BY <1>1, <1>2, OthersHold, MoveKeepsMutex, Zenon

LEMMA NextMutex == MutexInv /\ [Next]_vars => MutexInv'
<1>. SUFFICES ASSUME MutexInv, [Next]_vars PROVE MutexInv'
  OBVIOUS
<1>. {"idle", "string", "in_string", "chars", "in_chars", "end", "in_end",
      "replay", "in_replay"} \subseteq Places /\ Web \in Tasks
  BY DEF Places, Tasks
<1>1. ASSUME NEW t \in Tasks, StartMessage(t) PROVE MutexInv'
  <2>1. at' = [at EXCEPT ![t] = "string"] /\ at[t] = "idle" /\ (t # Loop => progress' = progress)
    BY <1>1 DEF StartMessage
  <2>2. \A u \in Tasks \ {t} : HoldsMutex(u)' => HoldsMutex(u)
    BY <2>1 DEF MutexInv, HoldsMutex
  <2>3. ~HoldsMutex(t)'
    BY <2>1 DEF MutexInv, HoldsMutex
  <2>. QED
    BY <2>1, <2>2, <2>3, MoveKeepsMutex
<1>2. ASSUME NEW t \in Tasks, EnterString(t) \/ EnterChars(t) \/ EnterEnd(t) PROVE MutexInv'
  BY <1>2, EnterMutex DEF EnterString, EnterChars, EnterEnd
<1>3. ASSUME NEW t \in Tasks, WritePiece(t) PROVE MutexInv'
  BY <1>3, LeaveMutex DEF WritePiece, Leave
<1>4. ASSUME NEW t \in Tasks, WriteNewline(t) PROVE MutexInv'
  BY <1>4, LeaveMutex DEF WriteNewline, Leave
<1>5. ASSUME NEW t \in Tasks, LosePiece(t) PROVE MutexInv'
  BY <1>5, LeaveMutex DEF LosePiece
<1>6. CASE Connect
  <2>1. at' = [at EXCEPT ![Web] = "replay"] /\ progress' = progress
    BY <1>6 DEF Connect
  <2>2. ~HoldsMutex(Web)'
    BY <2>1 DEF MutexInv, HoldsMutex
  <2>. QED
    BY <2>1, <2>2, OthersHold, MoveKeepsMutex
<1>7. CASE EnterReplay
  BY <1>7, EnterMutex DEF EnterReplay
<1>8. CASE LogFullHistory
  BY <1>8, LeaveMutex DEF LogFullHistory, Leave
<1>9. CASE Deliver \/ Disconnect \/ UNCHANGED vars
  BY <1>9 DEF Deliver, Disconnect, vars, MutexInv, HoldsMutex
<1>10. CASE Panic
  BY <1>10 DEF Panic, MutexInv, HoldsMutex
<1>. QED
  BY <1>1, <1>2, <1>3, <1>4, <1>5, <1>6, <1>7, <1>8, <1>9, <1>10 DEF Next, TaskStep

\* However many tasks log: the history is changed while another task changes it or
\* shows it to a client only by the line end of the progress of an update.
THEOREM HistoryGuarded == Spec => []HistoryIsGuarded
<1>1. MutexInv => HistoryIsGuarded
  BY DEF MutexInv, HistoryIsGuarded, HoldsMutex
<1>. QED
  BY <1>1, InitMutex, NextMutex, PTL DEF Spec

-----------------------------------------------------------------------------
\* ---- The ring ----

\* Indices run around the ring.
Wrapped(a) == IF a < HistorySize THEN a ELSE a - HistorySize

LEMMA ModWrap ==
  ASSUME NEW H \in Nat \ {0}, NEW a \in 0 .. (H + H - 1)
  PROVE  a % H = IF a < H THEN a ELSE a - H
OBVIOUS

LEMMA IndexFacts ==
  ASSUME NEW a \in 0 .. (HistorySize + HistorySize - 1)
  PROVE  a % HistorySize = Wrapped(a) /\ Wrapped(a) \in 0 .. HistorySize - 1
<1>1. HistorySize \in Nat \ {0}
  BY SizeAssumption
<1>2. a % HistorySize = Wrapped(a)
  BY <1>1, ModWrap DEF Wrapped
<1>. QED
  BY <1>1, <1>2 DEF Wrapped

RingTypeOK ==
  /\ history_buffer \in [0 .. HistorySize - 1 -> Lines \cup {NoLine}]
  /\ history_start \in 0 .. HistorySize - 1
  /\ history_count \in 0 .. HistorySize

\* The lines of the history are the last ones written, in their order.
RingInv ==
  \A i \in 1 .. history_count :
    HistoryLine(i) \in Lines /\ HistoryLine(i).no = (written - history_count) + i

LEMMA LineIndex ==
  ASSUME NEW s \in 0 .. HistorySize - 1, NEW i \in 1 .. HistorySize
  PROVE  (s + i - 1) % HistorySize = Wrapped(s + i - 1)
<1>1. s + i - 1 \in 0 .. (HistorySize + HistorySize - 1)
  BY SizeAssumption
<1>. QED
  BY <1>1, IndexFacts

LEMMA HistoryLineIs ==
  ASSUME RingTypeOK, NEW i \in 1 .. HistorySize
  PROVE  HistoryLine(i) = history_buffer[Wrapped(history_start + i - 1)]
BY LineIndex DEF HistoryLine, RingTypeOK

LEMMA NextHistoryLineIs ==
  ASSUME history_start' \in 0 .. HistorySize - 1, NEW i \in 1 .. HistorySize
  PROVE  HistoryLine(i)' = history_buffer'[Wrapped(history_start' + i - 1)]
<1>1. PICK s \in 0 .. HistorySize - 1 : s = history_start'
  OBVIOUS
<1>2. (s + i - 1) % HistorySize = Wrapped(s + i - 1)
  BY LineIndex
<1>. QED
  BY <1>1, <1>2 DEF HistoryLine

LEMMA StoreType ==
  ASSUME RingTypeOK, NEW line \in Lines, StoreHistory(line)
  PROVE  RingTypeOK'
<1>1. CASE history_count < HistorySize
  <2>1. history_start + history_count \in 0 .. (HistorySize + HistorySize - 1)
    BY <1>1, SizeAssumption DEF RingTypeOK
  <2>2. (history_start + history_count) % HistorySize \in 0 .. HistorySize - 1
    BY <2>1, IndexFacts
  <2>3. history_count + 1 \in 0 .. HistorySize
    BY <1>1, SizeAssumption DEF RingTypeOK
  <2>. QED
    BY <1>1, <2>2, <2>3 DEF StoreHistory, RingTypeOK
<1>2. CASE ~(history_count < HistorySize)
  <2>1. history_start + 1 \in 0 .. (HistorySize + HistorySize - 1)
    BY SizeAssumption DEF RingTypeOK
  <2>2. (history_start + 1) % HistorySize \in 0 .. HistorySize - 1
    BY <2>1, IndexFacts
  <2>. QED
    BY <1>2, <2>2 DEF StoreHistory, RingTypeOK
<1>. QED
  BY <1>1, <1>2

\* StoreHistory while there is room: one line more, the others stay where they are.
LEMMA StoreGrows ==
  ASSUME RingTypeOK, NEW line \in Lines, StoreHistory(line), history_count < HistorySize
  PROVE  /\ history_count' = history_count + 1
         /\ \A i \in 1 .. history_count : HistoryLine(i)' = HistoryLine(i)
         /\ \A i : i = history_count + 1 => HistoryLine(i)' = line
<1>. DEFINE n == history_count
            s == history_start
<1>1. n \in Nat /\ s \in Nat /\ s < HistorySize /\ HistorySize \in Nat \ {0} /\ n < HistorySize
  BY SizeAssumption DEF RingTypeOK
<1>2. (s + n) % HistorySize = Wrapped(s + n) /\ Wrapped(s + n) \in 0 .. HistorySize - 1
  BY <1>1, IndexFacts
<1>3. /\ history_buffer' = [history_buffer EXCEPT ![Wrapped(s + n)] = line]
      /\ history_count' = n + 1 /\ history_start' = s
  BY <1>2 DEF StoreHistory
<1>4. history_start' \in 0 .. HistorySize - 1
  BY StoreType DEF RingTypeOK
<1>5. history_buffer'[Wrapped(s + n)] = line
  BY <1>2, <1>3 DEF RingTypeOK
<1>6. ASSUME NEW i, i = n + 1
      PROVE  HistoryLine(i)' = line
  <2>1. i \in 1 .. HistorySize /\ s + i - 1 = s + n
    BY <1>1, <1>6
  <2>. QED
    BY <1>3, <1>4, <1>5, <2>1, NextHistoryLineIs
<1>7. ASSUME NEW i \in 1 .. n
      PROVE  HistoryLine(i)' = HistoryLine(i)
  <2>1. i \in 1 .. HistorySize
    BY <1>1
  <2>2. Wrapped(s + i - 1) # Wrapped(s + n)
    BY <1>1 DEF Wrapped
  <2>3. Wrapped(s + i - 1) \in 0 .. HistorySize - 1
    BY <1>1 DEF Wrapped
  <2>4. history_buffer'[Wrapped(s + i - 1)] = history_buffer[Wrapped(s + i - 1)]
    BY <1>3, <2>2, <2>3 DEF RingTypeOK
  <2>. QED
    BY <1>3, <1>4, <2>1, <2>4, HistoryLineIs, NextHistoryLineIs
<1>. QED
  BY <1>3, <1>6, <1>7

\* StoreHistory with a full ring: the oldest line makes way, the others move up.
LEMMA StoreShifts ==
  ASSUME RingTypeOK, NEW line \in Lines, StoreHistory(line), ~(history_count < HistorySize)
  PROVE  /\ history_count = HistorySize /\ history_count' = HistorySize
         /\ \A i \in 1 .. HistorySize - 1 : HistoryLine(i)' = HistoryLine(i + 1)
         /\ HistoryLine(HistorySize)' = line
<1>. DEFINE H == HistorySize
            s == history_start
<1>1. s \in Nat /\ s < H /\ H \in Nat \ {0} /\ history_count = H
  BY SizeAssumption DEF RingTypeOK
<1>2. (s + 1) % H = Wrapped(s + 1)
  BY <1>1, IndexFacts
<1>3. /\ history_buffer' = [history_buffer EXCEPT ![s] = line]
      /\ history_count' = H /\ history_start' = Wrapped(s + 1)
  BY <1>1, <1>2 DEF StoreHistory
<1>4. history_start' \in 0 .. HistorySize - 1
  BY StoreType DEF RingTypeOK
<1>5. history_buffer'[s] = line
  BY <1>1, <1>3 DEF RingTypeOK
<1>6. HistoryLine(H)' = line
  <2>1. H \in 1 .. HistorySize /\ Wrapped(Wrapped(s + 1) + H - 1) = s
    BY <1>1 DEF Wrapped
  <2>. QED
    BY <1>3, <1>4, <1>5, <2>1, NextHistoryLineIs
<1>7. ASSUME NEW i \in 1 .. H - 1
      PROVE  HistoryLine(i)' = HistoryLine(i + 1)
  <2>1. i \in 1 .. HistorySize /\ i + 1 \in 1 .. HistorySize
    BY <1>1
  <2>2. Wrapped(Wrapped(s + 1) + i - 1) = Wrapped(s + (i + 1) - 1)
    BY <1>1 DEF Wrapped
  <2>3. Wrapped(s + (i + 1) - 1) \in 0 .. HistorySize - 1 /\ Wrapped(s + (i + 1) - 1) # s
    BY <1>1 DEF Wrapped
  <2>4. history_buffer'[Wrapped(s + (i + 1) - 1)] = history_buffer[Wrapped(s + (i + 1) - 1)]
    BY <1>3, <2>3 DEF RingTypeOK
  <2>. QED
    BY <1>3, <1>4, <2>1, <2>2, <2>4, HistoryLineIs, NextHistoryLineIs
<1>. QED
  BY <1>1, <1>3, <1>6, <1>7

-----------------------------------------------------------------------------
\* ---- The invariant ----

Active == {t \in Tasks : at[t] \notin {"idle", "replay", "in_replay"}}

\* Every message begun still has a line to write.
LinesLeft ==
  /\ IsFiniteSet(Active)
  /\ written + Cardinality(Active) <= MaxLines
  /\ history_count <= written

\* The web task shows the history to a client that has just connected.
ReplayInv == at[Web] \in {"replay", "in_replay"} => Online /\ client.state = "connected"

\* Up to the replay, whatever is still in the queue of a client are the last lines.
QueueInv ==
  Online => (client.state = "connected" /\ ~client.overflow =>
    client.queued <= written /\ (written - client.queued) + 1 .. written \subseteq client.got)

\* From the replay on, races or not.
ShownInv ==
  Online => (client.state = "replayed" /\ ~client.overflow => client.since .. written \subseteq client.got)

IInv == TypeOK /\ MutexInv /\ LinesLeft /\ RingInv /\ ReplayInv /\ QueueInv /\ ShownInv

LEMMA ClientFacts ==
  ASSUME client \in Clients \cup {Offline}, Online
  PROVE  /\ client \in Clients
         /\ client.state \in {"connected", "replayed"} /\ client.got \in SUBSET (1 .. MaxLines)
         /\ client.queued \in 0 .. QueueLimit /\ client.queued \in Nat
         /\ client.since \in 1 .. MaxLines + 1 /\ client.since \in Nat
<1>1. client \in Clients
  BY DEF Online
<1>2. QueueLimit \in Nat /\ MaxLines \in Nat
  BY SizeAssumption
<1>. QED
  BY <1>1, <1>2 DEF Clients

\* What is online has a queue.
LEMMA OnlineFacts ==
  ASSUME NEW c \in Clients
  PROVE  c # Offline
<1>1. c.state # "offline"
  BY DEF Clients
<1>2. Offline.state = "offline"
  BY DEF Offline
<1>. QED
  BY <1>1, <1>2

LEMMA InitIInv == Init => IInv
<1>. SUFFICES ASSUME Init PROVE IInv
  OBVIOUS
<1>1. TypeOK
  <2>1. 0 \in 0 .. HistorySize - 1 /\ 0 \in 0 .. HistorySize /\ 0 \in 0 .. MaxLines
    BY SizeAssumption
  <2>2. history_buffer \in [0 .. HistorySize - 1 -> Lines \cup {NoLine}] /\ at \in [Tasks -> Places]
    BY DEF Init, Places
  <2>3. line_buffer \in Seq(Tasks)
    BY DEF Init
  <2>. QED
    BY <2>1, <2>2, <2>3, Zenon DEF Init, TypeOK
<1>2. LinesLeft
  <2>1. Active = {}
    BY DEF Init, Active
  <2>. QED
    BY <2>1, FS_EmptySet, SizeAssumption DEF Init, LinesLeft
<1>3. RingInv /\ ReplayInv
  <2>1. Web \in Tasks
    BY DEF Tasks
  <2>. QED
    BY <2>1 DEF Init, RingInv, ReplayInv
<1>4. ~Online
  BY DEF Init, Online
<1>. QED
  BY <1>1, <1>2, <1>3, <1>4, InitMutex DEF IInv, QueueInv, ShownInv

\* What the other parts of the invariant say is about the ring, the client and the count.
LEMMA SameRing ==
  ASSUME IInv, UNCHANGED <<ring, client, written>>
  PROVE  RingInv' /\ QueueInv' /\ ShownInv' /\ (history_count <= written)'
<1>. USE DEF ring
<1>1. RingInv'
  BY DEF IInv, RingInv, HistoryLine
<1>. QED
  BY <1>1 DEF IInv, QueueInv, ShownInv, Online, LinesLeft

LEMMA SameActive ==
  ASSUME IInv, Active' = Active, UNCHANGED <<history_count, written>>
  PROVE  LinesLeft'
BY DEF IInv, LinesLeft

\* A task that moves on within its message, or within the replay.
LEMMA MoveKeepsActive ==
  ASSUME TypeOK, NEW t \in Tasks, NEW p, at' = [at EXCEPT ![t] = p],
         p \in {"idle", "replay", "in_replay"} <=> at[t] \in {"idle", "replay", "in_replay"}
  PROVE  Active' = Active
BY DEF Active, TypeOK

LEMMA StartMessageKeeps == ASSUME IInv, NEW t \in Tasks, StartMessage(t) PROVE IInv'
<1>1. /\ at' = [at EXCEPT ![t] = "string"] /\ at[t] = "idle"
      /\ written + Cardinality(Active) < MaxLines
      /\ UNCHANGED <<line_buffer, ring, client, written>>
  BY DEF StartMessage, Active
<1>2. progress' \in BOOLEAN /\ raced' \in BOOLEAN
  BY DEF StartMessage, IInv, TypeOK
<1>3. at' \in [Tasks -> Places]
  BY <1>1 DEF IInv, TypeOK, Places
<1>4. TypeOK'
  BY <1>1, <1>2, <1>3, Zenon DEF IInv, TypeOK, ring
<1>5. MutexInv'
  BY NextMutex DEF IInv, Next, TaskStep
<1>6. LinesLeft'
  <2>1. Active' = Active \cup {t} /\ t \notin Active
    BY <1>1 DEF Active, IInv, TypeOK
  <2>2. IsFiniteSet(Active') /\ Cardinality(Active') = Cardinality(Active) + 1
    BY <2>1, FS_AddElement DEF IInv, LinesLeft
  <2>3. Cardinality(Active) \in Nat /\ written \in Nat /\ MaxLines \in Nat
    BY FS_CardinalityType, SizeAssumption DEF IInv, LinesLeft, TypeOK
  <2>. QED
    BY <1>1, <2>2, <2>3 DEF IInv, LinesLeft, ring
<1>7. ReplayInv'
  <2>1. Web \in Tasks
    BY DEF Tasks
  <2>. QED
    BY <1>1, <2>1 DEF IInv, ReplayInv, TypeOK, Online
<1>. QED
  BY <1>1, <1>4, <1>5, <1>6, <1>7, SameRing DEF IInv

LEMMA EnterKeeps ==
  ASSUME IInv, NEW t \in Tasks, NEW from \in Places, NEW to \in Places, Enter(t, from, to), MutexInv',
         to \in {"idle", "replay", "in_replay"} <=> from \in {"idle", "replay", "in_replay"},
         to \in {"replay", "in_replay"} => from \in {"replay", "in_replay"}
  PROVE  IInv'
<1>1. /\ at' = [at EXCEPT ![t] = to] /\ at[t] = from
      /\ UNCHANGED <<line_buffer, ring, progress, client, written>>
  BY DEF Enter
<1>2. raced' \in BOOLEAN
  BY Zenon DEF Enter
<1>3. at' \in [Tasks -> Places]
  BY <1>1 DEF IInv, TypeOK
<1>4. TypeOK'
  BY <1>1, <1>2, <1>3, Zenon DEF IInv, TypeOK, ring
<1>5. LinesLeft'
  BY <1>1, MoveKeepsActive, SameActive DEF IInv, ring
<1>6. ReplayInv'
  <2>1. Web \in Tasks
    BY DEF Tasks
  <2>. QED
    BY <1>1, <2>1 DEF IInv, ReplayInv, TypeOK, Online
<1>. QED
  BY <1>1, <1>4, <1>5, <1>6, SameRing DEF IInv

LEMMA EnterTaskKeeps ==
  ASSUME IInv, NEW t \in Tasks, EnterString(t) \/ EnterChars(t) \/ EnterEnd(t)
  PROVE  IInv'
<1>1. MutexInv'
  BY NextMutex DEF IInv, Next, TaskStep
<1>2. PICK from \in {"string", "chars", "end"}, to \in {"in_string", "in_chars", "in_end"} :
        Enter(t, from, to)
  BY DEF EnterString, EnterChars, EnterEnd
<1>3. from \in Places /\ to \in Places
  BY DEF Places
<1>. QED
  BY <1>1, <1>2, <1>3, EnterKeeps

LEMMA EnterReplayKeeps == IInv /\ EnterReplay => IInv'
<1>. SUFFICES ASSUME IInv, EnterReplay PROVE IInv'
  OBVIOUS
<1>1. MutexInv'
  BY NextMutex DEF IInv, Next
<1>2. Enter(Web, "replay", "in_replay") /\ Web \in Tasks
  BY DEF EnterReplay, Tasks
<1>3. "replay" \in Places /\ "in_replay" \in Places
  BY DEF Places
<1>. QED
  BY <1>1, <1>2, <1>3, EnterKeeps

LEMMA WritePieceKeeps == ASSUME IInv, NEW t \in Tasks, WritePiece(t) PROVE IInv'
<1>1. PICK to \in {"chars", "end"} : at' = [at EXCEPT ![t] = to] /\ at[t] \in {"in_string", "in_chars"}
  BY DEF WritePiece, Leave
<1>2. /\ line_buffer' = Append(line_buffer, t) /\ raced' = raced
      /\ UNCHANGED <<ring, progress, client, written>>
  BY DEF WritePiece, Leave
<1>3. at' \in [Tasks -> Places] /\ line_buffer' \in Seq(Tasks)
  BY <1>1, <1>2 DEF IInv, TypeOK, Places
<1>4. TypeOK'
  BY <1>2, <1>3, Zenon DEF IInv, TypeOK, ring
<1>5. LinesLeft'
  BY <1>1, <1>2, MoveKeepsActive, SameActive DEF IInv, ring
<1>6. ReplayInv'
  <2>1. Web \in Tasks
    BY DEF Tasks
  <2>. QED
    BY <1>1, <1>2, <2>1 DEF IInv, ReplayInv, TypeOK, Online
<1>7. MutexInv'
  BY NextMutex DEF IInv, Next, TaskStep
<1>. QED
  BY <1>2, <1>4, <1>5, <1>6, <1>7, SameRing DEF IInv

\* A line sent to a client gets into its queue, or the client knows it has missed one.
LEMMA SentFacts ==
  ASSUME client \in Clients \cup {Offline}, NEW line \in Lines
  PROVE  /\ ~Online => Sent(line) = Offline
         /\ Online => /\ Sent(line) \in Clients
                      /\ Sent(line).state = client.state /\ Sent(line).since = client.since
                      /\ ~Sent(line).overflow =>
                           /\ ~client.overflow
                           /\ Sent(line).got = client.got \cup {line.no}
                           /\ Sent(line).queued = client.queued + 1
<1>1. ~Online => Sent(line) = Offline
  BY DEF Sent, Online
<1>2. ASSUME Online
      PROVE  /\ Sent(line) \in Clients
             /\ Sent(line).state = client.state /\ Sent(line).since = client.since
             /\ ~Sent(line).overflow =>
                  /\ ~client.overflow
                  /\ Sent(line).got = client.got \cup {line.no}
                  /\ Sent(line).queued = client.queued + 1
  <2>1. client \in Clients
    BY <1>2 DEF Online
  <2>2. line.no \in 1 .. MaxLines
    BY DEF Lines
  <2>3. CASE client.queued < QueueLimit
    <3>1. Sent(line) = [client EXCEPT !.got = @ \cup {line.no}, !.queued = @ + 1]
      BY <1>2, <2>3 DEF Sent
    <3>2. client.queued + 1 \in 0 .. QueueLimit
      BY <1>2, <2>3, ClientFacts, SizeAssumption
    <3>3. /\ Sent(line).state = client.state /\ Sent(line).since = client.since
          /\ Sent(line).got = client.got \cup {line.no} /\ Sent(line).queued = client.queued + 1
      BY <2>1, <3>1 DEF Clients
    <3>4. Sent(line).overflow = client.overflow
      BY <2>1, <3>1 DEF Clients
    <3>5. Sent(line) \in Clients
      BY <2>1, <2>2, <3>1, <3>2 DEF Clients
    <3>. QED
      BY <3>3, <3>4, <3>5
  <2>4. CASE ~(client.queued < QueueLimit)
    <3>1. Sent(line) = [client EXCEPT !.overflow = TRUE]
      BY <1>2, <2>4 DEF Sent
    <3>2. Sent(line).state = client.state /\ Sent(line).since = client.since
      BY <2>1, <3>1 DEF Clients
    <3>3. Sent(line).overflow = TRUE
      BY <2>1, <3>1 DEF Clients
    <3>4. Sent(line) \in Clients
      BY <2>1, <3>1 DEF Clients
    <3>. QED
      BY <3>2, <3>3, <3>4
  <2>. QED
    BY <2>3, <2>4
<1>. QED
  BY <1>1, <1>2

\* The ring takes the new line and goes on holding the last ones.
LEMMA StoreKeepsRing ==
  ASSUME RingTypeOK, RingInv, written \in Nat, history_count <= written,
         NEW line \in Lines, line.no = written + 1,
         StoreHistory(line), written' = written + 1
  PROVE  RingInv' /\ history_count' <= written'
<1>1. history_count \in Nat /\ HistorySize \in Nat \ {0}
  BY SizeAssumption DEF RingTypeOK
<1>2. CASE history_count < HistorySize
  <2>1. /\ history_count' = history_count + 1
        /\ \A i \in 1 .. history_count : HistoryLine(i)' = HistoryLine(i)
        /\ \A i : i = history_count + 1 => HistoryLine(i)' = line
    BY <1>2, StoreGrows
  <2>2. SUFFICES ASSUME NEW i \in 1 .. history_count + 1
                 PROVE  HistoryLine(i)' \in Lines /\ HistoryLine(i)'.no = (written' - history_count') + i
    BY <1>1, <2>1 DEF RingInv
  <2>3. CASE i = history_count + 1
    BY <1>1, <2>1, <2>3
  <2>4. CASE i # history_count + 1
    <3>1. i \in 1 .. history_count
      BY <1>1, <2>4
    <3>. QED
      BY <1>1, <2>1, <3>1 DEF RingInv
  <2>. QED
    BY <2>3, <2>4
<1>3. CASE ~(history_count < HistorySize)
  <2>1. /\ history_count = HistorySize /\ history_count' = HistorySize
        /\ \A i \in 1 .. HistorySize - 1 : HistoryLine(i)' = HistoryLine(i + 1)
        /\ HistoryLine(HistorySize)' = line
    BY <1>3, StoreShifts
  <2>2. SUFFICES ASSUME NEW i \in 1 .. HistorySize
                 PROVE  HistoryLine(i)' \in Lines /\ HistoryLine(i)'.no = (written' - history_count') + i
    BY <1>1, <2>1 DEF RingInv
  <2>3. CASE i = HistorySize
    BY <1>1, <2>1, <2>3
  <2>4. CASE i # HistorySize
    <3>1. i \in 1 .. HistorySize - 1 /\ i + 1 \in 1 .. history_count
      BY <1>1, <2>1, <2>4
    <3>. QED
      BY <1>1, <2>1, <3>1 DEF RingInv
  <2>. QED
    BY <2>3, <2>4
<1>. QED
  BY <1>2, <1>3

\* The line that is ended has a number, because the message it ends was counted.
LEMMA EndedLine ==
  ASSUME IInv, NEW t \in Tasks, at[t] = "in_end"
  PROVE  [no |-> written + 1, pieces |-> line_buffer] \in Lines
<1>1. t \in Active /\ IsFiniteSet(Active) /\ written + Cardinality(Active) <= MaxLines
      /\ written \in Nat /\ MaxLines \in Nat
  BY SizeAssumption DEF IInv, TypeOK, LinesLeft, Active
<1>2. Cardinality(Active) \in Nat /\ Cardinality(Active \ {t}) \in Nat
      /\ Cardinality(Active \ {t}) = Cardinality(Active) - 1
  BY <1>1, FS_RemoveElement, FS_CardinalityType
<1>3. written + 1 \in 1 .. MaxLines
  BY <1>1, <1>2
<1>. QED
  BY <1>3 DEF Lines, IInv, TypeOK

LEMMA WriteNewlineKeeps == ASSUME IInv, NEW t \in Tasks, WriteNewline(t) PROVE IInv'
<1>. DEFINE line == [no |-> written + 1, pieces |-> line_buffer]
<1>1. /\ at' = [at EXCEPT ![t] = "idle"] /\ at[t] = "in_end"
      /\ StoreHistory(line) /\ client' = Sent(line)
      /\ line_buffer' = <<>> /\ written' = written + 1
      /\ progress' = progress /\ raced' = raced
  BY DEF WriteNewline, Leave
<1>2. /\ t \in Active /\ Active' = Active \ {t}
      /\ IsFiniteSet(Active) /\ written + Cardinality(Active) <= MaxLines
      /\ history_count <= written /\ written \in Nat /\ MaxLines \in Nat
  BY <1>1, SizeAssumption DEF IInv, TypeOK, LinesLeft, Active
<1>3. /\ IsFiniteSet(Active') /\ Cardinality(Active') = Cardinality(Active) - 1
      /\ Cardinality(Active) \in Nat /\ Cardinality(Active') \in Nat
  BY <1>2, FS_RemoveElement, FS_CardinalityType
<1>4. written + 1 \in 1 .. MaxLines
  BY <1>2, <1>3
<1>5. line \in Lines /\ line.no = written + 1
  BY <1>1, EndedLine
<1>. HIDE DEF line
<1>6. RingTypeOK /\ RingTypeOK' /\ RingInv' /\ history_count' <= written'
  <2>1. RingTypeOK
    BY DEF IInv, TypeOK, RingTypeOK
  <2>. QED
    BY <1>1, <1>2, <1>5, <2>1, StoreType, StoreKeepsRing DEF IInv
<1>7. client \in Clients \cup {Offline}
  BY DEF IInv, TypeOK
<1>8. client' \in Clients \cup {Offline} /\ (Online' => Online)
  BY <1>1, <1>5, <1>7, SentFacts DEF Online
<1>9. TypeOK'
  <2>1. at' \in [Tasks -> Places] /\ line_buffer' \in Seq(Tasks) /\ written' \in 0 .. MaxLines
    BY <1>1, <1>4 DEF IInv, TypeOK, Places
  <2>2. /\ history_buffer' \in [0 .. HistorySize - 1 -> Lines \cup {NoLine}]
        /\ history_start' \in 0 .. HistorySize - 1 /\ history_count' \in 0 .. HistorySize
    BY <1>6 DEF RingTypeOK
  <2>. QED
    BY <1>1, <1>8, <2>1, <2>2, Zenon DEF IInv, TypeOK
<1>10. MutexInv'
  BY NextMutex DEF IInv, Next, TaskStep
<1>11. LinesLeft'
  BY <1>1, <1>2, <1>3, <1>6 DEF LinesLeft
<1>12. ASSUME Online
       PROVE  /\ client'.state = client.state /\ client'.since = client.since
              /\ ~client'.overflow =>
                   /\ ~client.overflow
                   /\ client'.got = client.got \cup {written + 1}
                   /\ client'.queued = client.queued + 1
  BY <1>1, <1>5, <1>7, <1>12, SentFacts
<1>13. ReplayInv'
  <2>1. Web \in Tasks
    BY DEF Tasks
  <2>2. at'[Web] \in {"replay", "in_replay"} => at[Web] \in {"replay", "in_replay"}
    BY <1>1, <2>1 DEF IInv, TypeOK
  <2>3. Online => Online'
    BY <1>1, <1>5, <1>7, SentFacts, OnlineFacts DEF Online
  <2>. QED
    BY <1>12, <2>2, <2>3 DEF IInv, ReplayInv
<1>14. QueueInv'
  <2>1. SUFFICES ASSUME Online, client.state = "connected", ~client'.overflow
                 PROVE  client'.queued <= written'
                        /\ (written' - client'.queued) + 1 .. written' \subseteq client'.got
    BY <1>8, <1>12 DEF QueueInv
  <2>2. /\ client.queued <= written /\ (written - client.queued) + 1 .. written \subseteq client.got
        /\ client.queued \in Nat
    BY <1>7, <1>12, <2>1, ClientFacts DEF IInv, QueueInv
  <2>. QED
    BY <1>1, <1>2, <1>12, <2>1, <2>2
<1>15. ShownInv'
  <2>1. SUFFICES ASSUME Online, client.state = "replayed", ~client'.overflow
                 PROVE  client'.since .. written' \subseteq client'.got
    BY <1>8, <1>12 DEF ShownInv
  <2>2. client.since .. written \subseteq client.got /\ client.since \in Nat
    BY <1>7, <1>12, <2>1, ClientFacts DEF IInv, ShownInv
  <2>. QED
    BY <1>1, <1>2, <1>12, <2>1, <2>2
<1>. QED
  BY <1>6, <1>9, <1>10, <1>11, <1>13, <1>14, <1>15 DEF IInv

\* The lines the replay takes from the history: as many as there is room for.
LEMMA ReplayedLines ==
  ASSUME RingTypeOK, RingInv, written \in Nat, history_count <= written,
         NEW n \in 0 .. history_count
  PROVE  {HistoryLine(i).no : i \in 1 .. n}
           = (written - history_count) + 1 .. (written - history_count) + n
<1>. DEFINE k == written - history_count
<1>1. history_count \in Nat /\ k \in Nat /\ n \in Nat
  BY SizeAssumption DEF RingTypeOK
<1>2. \A i \in 1 .. n : i \in 1 .. history_count /\ HistoryLine(i).no = k + i
  BY <1>1 DEF RingInv
<1>. HIDE DEF k
<1>3. ASSUME NEW m \in k + 1 .. k + n PROVE m \in {HistoryLine(i).no : i \in 1 .. n}
  <2>1. m - k \in 1 .. n /\ k + (m - k) = m
    BY <1>1
  <2>. QED
    BY <1>2, <2>1
<1>4. ASSUME NEW i \in 1 .. n PROVE HistoryLine(i).no \in k + 1 .. k + n
  BY <1>1, <1>2
<1>. QED
  BY <1>3, <1>4 DEF k

LEMMA LogFullHistoryKeeps == IInv /\ LogFullHistory => IInv'
<1>. SUFFICES ASSUME IInv, LogFullHistory PROVE IInv'
  OBVIOUS
<1>. DEFINE lines == {HistoryLine(i).no : i \in 1 .. ReplayCount}
            since == IF history_count = 0 THEN written + 1 ELSE HistoryLine(1).no
            k     == written - history_count
<1>1. /\ at' = [at EXCEPT ![Web] = "idle"] /\ at[Web] = "in_replay"
      /\ client' = [client EXCEPT !.state = "replayed", !.since = since,
                                  !.got = @ \cup lines, !.queued = @ + Cardinality(lines)]
      /\ raced' = raced /\ UNCHANGED <<line_buffer, ring, progress, written>>
  BY DEF LogFullHistory, Leave
<1>2. /\ client \in Clients /\ client.state = "connected" /\ Online
      /\ client.queued \in Nat /\ client.queued <= QueueLimit /\ client.got \in SUBSET (1 .. MaxLines)
  <2>1. client \in Clients \cup {Offline} /\ Online /\ client.state = "connected"
    BY <1>1 DEF IInv, TypeOK, ReplayInv
  <2>. QED
    BY <2>1, ClientFacts, SizeAssumption
<1>3. /\ RingTypeOK /\ RingInv /\ history_count \in Nat /\ history_count <= HistorySize
      /\ written \in Nat /\ written <= MaxLines /\ history_count <= written
      /\ HistorySize \in Nat /\ MaxLines \in Nat /\ QueueLimit = HistorySize + 1
  BY SizeAssumption DEF IInv, TypeOK, RingTypeOK, LinesLeft
<1>4. /\ ReplayCount \in 0 .. history_count /\ ReplayCount + client.queued <= QueueLimit
      /\ ReplayCount = history_count \/ ReplayCount = (HistorySize + 1) - client.queued
  BY <1>2, <1>3 DEF ReplayCount, Room
<1>5. lines = k + 1 .. k + ReplayCount
  BY <1>3, <1>4, ReplayedLines
<1>6. since = k + 1 /\ since \in 1 .. MaxLines + 1
  <2>1. history_count # 0 => HistoryLine(1).no = k + 1
    BY <1>3 DEF RingInv
  <2>. QED
    BY <1>3, <2>1
<1>7. Cardinality(lines) = ReplayCount
  <2>1. k + 1 \in Int /\ k + ReplayCount \in Int /\ ReplayCount \in Nat
    BY <1>3, <1>4
  <2>2. Cardinality(lines) = IF k + 1 > k + ReplayCount THEN 0 ELSE (k + ReplayCount) - (k + 1) + 1
    BY <1>5, <2>1, FS_Interval
  <2>. HIDE DEF lines
  <2>. QED
    BY <1>3, <2>1, <2>2
<1>8. lines \subseteq 1 .. MaxLines
  BY <1>3, <1>4, <1>5
<1>. HIDE DEF lines, since, k
<1>9. /\ client'.state = "replayed" /\ client'.since = k + 1 /\ client'.got = client.got \cup lines
      /\ client'.queued = client.queued + ReplayCount
  BY <1>1, <1>2, <1>6, <1>7 DEF Clients
<1>10. client'.overflow = client.overflow
  BY <1>1, <1>2 DEF Clients
<1>11. client' \in Clients
  <2>1. client.queued + ReplayCount \in 0 .. QueueLimit
    BY <1>2, <1>3, <1>4
  <2>. QED
    BY <1>1, <1>2, <1>6, <1>7, <1>8, <2>1 DEF Clients
<1>12. Web \in Tasks
  BY DEF Tasks
<1>13. TypeOK'
  <2>1. at' \in [Tasks -> Places]
    BY <1>1 DEF IInv, TypeOK, Places
  <2>. QED
    BY <1>1, <1>11, <2>1, Zenon DEF IInv, TypeOK, ring
<1>14. MutexInv'
  BY NextMutex DEF IInv, Next
<1>15. LinesLeft'
  BY <1>1, <1>12, MoveKeepsActive, SameActive DEF IInv, ring
<1>16. RingInv'
  BY <1>1 DEF IInv, RingInv, HistoryLine, ring
<1>17. ReplayInv'
  BY <1>1, <1>12 DEF IInv, TypeOK, ReplayInv
<1>18. QueueInv'
  BY <1>9 DEF QueueInv
<1>19. ShownInv'
  <2>1. SUFFICES ASSUME ~client.overflow PROVE k + 1 .. written \subseteq client.got \cup lines
    BY <1>1, <1>9, <1>10 DEF ShownInv
  <2>2. client.queued <= written /\ (written - client.queued) + 1 .. written \subseteq client.got
    BY <1>2, <2>1 DEF IInv, QueueInv
  <2>3. ASSUME NEW m \in k + 1 .. written, m \notin k + 1 .. k + ReplayCount
        PROVE  m \in (written - client.queued) + 1 .. written
    BY <1>2, <1>3, <1>4, <2>2, <2>3 DEF k
  <2>. QED
    BY <1>5, <2>2, <2>3
<1>. QED
  BY <1>13, <1>14, <1>15, <1>16, <1>17, <1>18, <1>19 DEF IInv

LEMMA ConnectKeeps == IInv /\ Connect => IInv'
<1>. SUFFICES ASSUME IInv, Connect PROVE IInv'
  OBVIOUS
<1>1. /\ client' = [state |-> "connected", got |-> {}, queued |-> 0, overflow |-> FALSE, since |-> 1]
      /\ at' = [at EXCEPT ![Web] = "replay"] /\ at[Web] = "idle"
      /\ UNCHANGED <<line_buffer, ring, progress, written, raced>>
  BY DEF Connect
<1>2. Web \in Tasks /\ written \in Nat
  BY SizeAssumption DEF Tasks, IInv, TypeOK
<1>3. client' \in Clients
  <2>1. 0 \in 0 .. QueueLimit /\ 1 \in 1 .. MaxLines + 1
    BY SizeAssumption
  <2>. QED
    BY <1>1, <2>1 DEF Clients
<1>4. TypeOK'
  <2>1. at' \in [Tasks -> Places]
    BY <1>1 DEF IInv, TypeOK, Places
  <2>. QED
    BY <1>1, <1>3, <2>1, Zenon DEF IInv, TypeOK, ring
<1>5. MutexInv'
  BY NextMutex DEF IInv, Next
<1>6. LinesLeft'
  BY <1>1, <1>2, MoveKeepsActive, SameActive DEF IInv, ring
<1>7. RingInv'
  BY <1>1 DEF IInv, RingInv, HistoryLine, ring
<1>8. ReplayInv'
  <2>1. Online'
    BY <1>3, OnlineFacts DEF Online
  <2>. QED
    BY <1>1, <2>1 DEF ReplayInv
<1>9. QueueInv' /\ ShownInv'
  <2>1. client'.state = "connected" /\ client'.queued = 0 /\ written' = written
    BY <1>1
  <2>2. (written - 0) + 1 .. written = {}
    BY <1>2
  <2>. QED
    BY <1>2, <2>1, <2>2 DEF QueueInv, ShownInv
<1>. QED
  BY <1>4, <1>5, <1>6, <1>7, <1>8, <1>9 DEF IInv

LEMMA DeliverKeeps == IInv /\ Deliver => IInv'
<1>. SUFFICES ASSUME IInv, Deliver PROVE IInv'
  OBVIOUS
<1>1. /\ client' = [client EXCEPT !.queued = @ - 1] /\ Online /\ client.queued > 0
      /\ UNCHANGED <<line_buffer, ring, at, progress, written, raced>>
  BY DEF Deliver
<1>2. client \in Clients /\ client.queued \in 0 .. QueueLimit /\ client.queued \in Nat /\ QueueLimit \in Nat
  BY <1>1, ClientFacts, SizeAssumption DEF IInv, TypeOK
<1>3. /\ client'.state = client.state /\ client'.got = client.got /\ client'.since = client.since
      /\ client'.queued = client.queued - 1
  BY <1>1, <1>2 DEF Clients
<1>4. client'.overflow = client.overflow
  BY <1>1, <1>2 DEF Clients
<1>5. client' \in Clients
  <2>1. client.queued - 1 \in 0 .. QueueLimit
    BY <1>1, <1>2
  <2>. QED
    BY <1>1, <1>2, <2>1 DEF Clients
<1>6. TypeOK'
  BY <1>1, <1>5, Zenon DEF IInv, TypeOK, ring
<1>7. MutexInv' /\ LinesLeft' /\ RingInv'
  <2>1. Active' = Active
    BY <1>1 DEF Active
  <2>. QED
    BY <1>1, <2>1, NextMutex, SameActive DEF IInv, RingInv, HistoryLine, Next, ring
<1>8. ReplayInv'
  <2>1. Online'
    BY <1>5, OnlineFacts DEF Online
  <2>. QED
    BY <1>1, <1>3, <2>1 DEF IInv, ReplayInv
<1>9. QueueInv'
  <2>1. SUFFICES ASSUME client.state = "connected", ~client.overflow
                 PROVE  client.queued - 1 <= written
                        /\ (written - (client.queued - 1)) + 1 .. written \subseteq client.got
    BY <1>1, <1>3, <1>4 DEF QueueInv
  <2>2. client.queued <= written /\ (written - client.queued) + 1 .. written \subseteq client.got
    BY <1>1, <2>1 DEF IInv, QueueInv
  <2>3. written \in Nat
    BY SizeAssumption DEF IInv, TypeOK
  <2>. QED
    BY <1>2, <2>2, <2>3
<1>10. ShownInv'
  BY <1>1, <1>3, <1>4 DEF IInv, ShownInv
<1>. QED
  BY <1>6, <1>7, <1>8, <1>9, <1>10 DEF IInv

LEMMA DisconnectKeeps == IInv /\ Disconnect => IInv'
<1>. SUFFICES ASSUME IInv, Disconnect PROVE IInv'
  OBVIOUS
<1>1. client' = Offline /\ at[Web] = "idle" /\ UNCHANGED <<line_buffer, ring, at, progress, written, raced>>
  BY DEF Disconnect
<1>2. TypeOK'
  BY <1>1, Zenon DEF IInv, TypeOK, ring
<1>3. MutexInv' /\ LinesLeft' /\ RingInv'
  <2>1. Active' = Active
    BY <1>1 DEF Active
  <2>. QED
    BY <1>1, <2>1, NextMutex, SameActive DEF IInv, RingInv, HistoryLine, Next, ring
<1>4. ReplayInv' /\ QueueInv' /\ ShownInv'
  BY <1>1 DEF ReplayInv, QueueInv, ShownInv, Online
<1>. QED
  BY <1>2, <1>3, <1>4 DEF IInv

LEMMA LosePieceKeeps == ASSUME IInv, NEW t \in Tasks, LosePiece(t) PROVE IInv'
<1>1. PICK to \in {"chars", "end", "idle"} :
        /\ at' = [at EXCEPT ![t] = to] /\ at[t] \in {"in_string", "in_chars", "in_end"}
        /\ to = "idle" <=> at[t] = "in_end"
  BY DEF LosePiece
<1>2. UNCHANGED <<line_buffer, ring, progress, client, written, raced>>
  BY DEF LosePiece
<1>3. at' \in [Tasks -> Places]
  BY <1>1 DEF IInv, TypeOK, Places
<1>4. TypeOK'
  BY <1>2, <1>3, Zenon DEF IInv, TypeOK, ring
<1>5. MutexInv'
  BY NextMutex DEF IInv, Next, TaskStep
<1>6. LinesLeft'
  <2>1. CASE to # "idle"
    BY <1>1, <1>2, <2>1, MoveKeepsActive, SameActive DEF IInv, ring
  <2>2. CASE to = "idle"
    <3>1. t \in Active /\ Active' = Active \ {t}
      BY <1>1, <2>2 DEF Active, IInv, TypeOK
    <3>2. IsFiniteSet(Active') /\ Cardinality(Active') = Cardinality(Active) - 1
      BY <3>1, FS_RemoveElement DEF IInv, LinesLeft
    <3>3. Cardinality(Active) \in Nat /\ written \in Nat /\ MaxLines \in Nat
      BY FS_CardinalityType, SizeAssumption DEF IInv, LinesLeft, TypeOK
    <3>. QED
      BY <1>2, <3>2, <3>3 DEF IInv, LinesLeft, ring
  <2>. QED
    BY <2>1, <2>2
<1>7. ReplayInv'
  <2>1. Web \in Tasks
    BY DEF Tasks
  <2>. QED
    BY <1>1, <1>2, <2>1 DEF IInv, ReplayInv, TypeOK, Online
<1>. QED
  BY <1>2, <1>4, <1>5, <1>6, <1>7, SameRing DEF IInv

\* A restart is a new beginning.
LEMMA PanicKeeps == IInv /\ Panic => IInv'
<1>. SUFFICES ASSUME IInv, Panic PROVE IInv'
  OBVIOUS
<1>1. TypeOK'
  <2>1. 0 \in 0 .. HistorySize - 1 /\ 0 \in 0 .. HistorySize /\ 0 \in 0 .. MaxLines
    BY SizeAssumption
  <2>2. history_buffer' \in [0 .. HistorySize - 1 -> Lines \cup {NoLine}] /\ at' \in [Tasks -> Places]
    BY DEF Panic, Places
  <2>3. line_buffer' \in Seq(Tasks)
    BY DEF Panic
  <2>. QED
    BY <2>1, <2>2, <2>3, Zenon DEF Panic, TypeOK
<1>2. LinesLeft'
  <2>1. Active' = {}
    BY DEF Panic, Active
  <2>. QED
    BY <2>1, FS_EmptySet, SizeAssumption DEF Panic, LinesLeft
<1>3. RingInv' /\ ReplayInv'
  <2>1. Web \in Tasks
    BY DEF Tasks
  <2>. QED
    BY <2>1 DEF Panic, RingInv, ReplayInv
<1>4. QueueInv' /\ ShownInv'
  BY DEF Panic, Online, QueueInv, ShownInv
<1>5. MutexInv'
  BY NextMutex DEF IInv, Next
<1>. QED
  BY <1>1, <1>2, <1>3, <1>4, <1>5 DEF IInv

LEMMA StutterKeeps == IInv /\ UNCHANGED vars => IInv'
<1>. SUFFICES ASSUME IInv, UNCHANGED vars PROVE IInv'
  OBVIOUS
<1>1. UNCHANGED <<line_buffer, history_buffer, history_start, history_count, at, progress, client,
                  written, raced>>
  BY DEF vars, ring
<1>2. TypeOK'
  BY <1>1, Zenon DEF IInv, TypeOK
<1>3. MutexInv' /\ LinesLeft'
  <2>1. Active' = Active
    BY <1>1 DEF Active
  <2>. QED
    BY <1>1, <2>1, NextMutex, SameActive DEF IInv
<1>4. ReplayInv'
  BY <1>1 DEF IInv, ReplayInv, Online
<1>. QED
  BY <1>1, <1>2, <1>3, <1>4, SameRing DEF IInv, ring

LEMMA NextIInv == IInv /\ [Next]_vars => IInv'
BY StartMessageKeeps, EnterTaskKeeps, WritePieceKeeps, WriteNewlineKeeps, LosePieceKeeps,
   ConnectKeeps, EnterReplayKeeps, LogFullHistoryKeeps, DeliverKeeps, DisconnectKeeps,
   PanicKeeps, StutterKeeps DEF Next, TaskStep

THEOREM Invariance == Spec => []IInv
BY InitIInv, NextIInv, PTL DEF Spec

-----------------------------------------------------------------------------
\* ---- What the log and its clients rely on ----

\* The line buffer, the ring, the client's queue and the places of the tasks are always of
\* their types: the ring is never indexed outside, the queue never fuller than its limit.
THEOREM TypeCorrect == Spec => []TypeOK
BY Invariance, PTL DEF IInv

LEMMA ShownIsComplete == IInv => NoLineMissed
BY DEF IInv, ShownInv, NoLineMissed

\* WebSocketLogger::StoreHistory and LogFullHistory, for a ring of any size: whenever a
\* client connects, and however many lines are written between its connection and the
\* replay, it gets every line from the first it was shown, or its queue overflows.
THEOREM ClientsMissNothing == Spec => []NoLineMissed
BY Invariance, ShownIsComplete, PTL

-----------------------------------------------------------------------------
\* ---- The log of lines ----

\* What LineLog sees of the ring.
History == [i \in 1 .. history_count |-> HistoryLine(i)]

LEMMA HistoryFacts ==
  ASSUME RingTypeOK, RingInv
  PROVE  /\ History \in Seq(Lines) /\ Len(History) = history_count /\ history_count \in Nat
         /\ \A i \in 1 .. history_count : History[i] = HistoryLine(i)
<1>1. history_count \in Nat
  BY SizeAssumption DEF RingTypeOK
<1>2. \A i \in 1 .. history_count : HistoryLine(i) \in Lines
  BY DEF RingInv
<1>. QED
  BY <1>1, <1>2 DEF History

\* The same of the next state.
LEMMA NextHistoryFacts ==
  ASSUME history_count' \in Nat, \A i \in 1 .. history_count' : HistoryLine(i)' \in Lines
  PROVE  /\ History' \in Seq(Lines) /\ Len(History') = history_count'
         /\ \A i \in 1 .. history_count' : History'[i] = HistoryLine(i)'
BY DEF History

\* StoreHistory appends to the log and keeps its last lines.
LEMMA StoreAppends ==
  ASSUME RingTypeOK, RingInv, NEW line \in Lines, StoreHistory(line)
  PROVE  History' = Log!LastLines(Append(History, line), HistorySize)
<1>. DEFINE longer == Append(History, line)
<1>1. /\ History \in Seq(Lines) /\ Len(History) = history_count /\ history_count \in Nat
      /\ \A i \in 1 .. history_count : History[i] = HistoryLine(i) /\ HistoryLine(i) \in Lines
  BY HistoryFacts DEF RingInv
<1>2. HistorySize \in Nat \ {0} /\ history_count <= HistorySize
  BY SizeAssumption DEF RingTypeOK
<1>3. /\ longer \in Seq(Lines) /\ Len(longer) = history_count + 1
      /\ \A i \in 1 .. history_count : longer[i] = HistoryLine(i)
      /\ longer[history_count + 1] = line
  BY <1>1
<1>. HIDE DEF longer
<1>4. CASE history_count < HistorySize
  <2>1. /\ history_count' = history_count + 1
        /\ \A i \in 1 .. history_count : HistoryLine(i)' = HistoryLine(i)
        /\ \A i : i = history_count + 1 => HistoryLine(i)' = line
    BY <1>4, StoreGrows
  <2>2. \A i \in 1 .. history_count + 1 : HistoryLine(i)' = longer[i] /\ HistoryLine(i)' \in Lines
    <3>1. \A i \in 1 .. history_count + 1 : i \in 1 .. history_count \/ i = history_count + 1
      BY <1>1
    <3>. QED
      BY <1>1, <1>3, <2>1, <3>1
  <2>3. /\ History' \in Seq(Lines) /\ Len(History') = history_count + 1
        /\ \A i \in 1 .. history_count + 1 : History'[i] = longer[i]
    BY <1>1, <2>1, <2>2, NextHistoryFacts
  <2>4. History' = longer
    BY <1>3, <2>3, SeqEqual
  <2>5. Len(longer) <= HistorySize
    BY <1>1, <1>2, <1>3, <1>4
  <2>. QED
    BY <2>4, <2>5 DEF Log!LastLines, longer
<1>5. CASE ~(history_count < HistorySize)
  <2>1. /\ history_count = HistorySize /\ history_count' = HistorySize
        /\ \A i \in 1 .. HistorySize - 1 : HistoryLine(i)' = HistoryLine(i + 1)
        /\ HistoryLine(HistorySize)' = line
    BY <1>5, StoreShifts
  <2>2. ASSUME NEW i \in 1 .. HistorySize
        PROVE  HistoryLine(i)' = longer[i + 1] /\ HistoryLine(i)' \in Lines
    <3>1. CASE i = HistorySize
      BY <1>3, <2>1, <3>1
    <3>2. CASE i # HistorySize
      <4>1. i \in 1 .. HistorySize - 1 /\ i + 1 \in 1 .. history_count
        BY <1>2, <2>1, <3>2
      <4>. QED
        BY <1>1, <1>3, <2>1, <4>1
    <3>. QED
      BY <3>1, <3>2
  <2>3. /\ History' \in Seq(Lines) /\ Len(History') = HistorySize
        /\ \A i \in 1 .. HistorySize : History'[i] = longer[i + 1]
    BY <1>2, <2>1, <2>2, NextHistoryFacts
  <2>. DEFINE rest == SubSeq(longer, 2, HistorySize + 1)
  <2>4. /\ rest \in Seq(Lines) /\ Len(rest) = HistorySize
        /\ \A i \in 1 .. HistorySize : rest[i] = longer[i + 1]
    <3>1. \A i \in 2 .. HistorySize + 1 : longer[i] \in Lines
      BY <1>2, <1>3, <2>1
    <3>2. /\ rest \in Seq(Lines)
          /\ Len(rest) = IF 2 <= HistorySize + 1 THEN (HistorySize + 1) - 2 + 1 ELSE 0
          /\ \A i \in 1 .. (HistorySize + 1) - 2 + 1 : rest[i] = longer[2 + i - 1]
      BY <1>2, <3>1, SubSeqProperties
    <3>3. \A i \in 1 .. HistorySize : 2 + i - 1 = i + 1
      BY <1>2
    <3>. HIDE DEF rest
    <3>. QED
      BY <1>2, <3>2, <3>3
  <2>5. History' = rest
    <3>. HIDE DEF rest
    <3>. QED
      BY <2>3, <2>4, SeqEqual
  <2>6. /\ ~(Len(longer) <= HistorySize) /\ Len(longer) = HistorySize + 1
        /\ Len(longer) - HistorySize + 1 = 2
    BY <1>2, <1>3, <2>1
  <2>. QED
    BY <2>5, <2>6 DEF Log!LastLines, longer
<1>. QED
  BY <1>4, <1>5

LEMMA HistoryKept == UNCHANGED ring => History' = History
BY DEF ring, History, HistoryLine

LEMMA InitLogs == Init => Log!Init
<1>. SUFFICES ASSUME Init PROVE Log!Init
  OBVIOUS
<1>1. history_count = 0
  BY DEF Init
<1>2. [i \in 1 .. history_count |-> HistoryLine(i)] = <<>>
  BY <1>1
<1>. QED
  BY <1>2, Zenon DEF Init, Log!Init

\* Whoever enters the logger changes nothing, but the promise may end with it.
LEMMA EnterLogs ==
  ASSUME raced \in BOOLEAN, NEW t, NEW from, NEW to, Enter(t, from, to)
  PROVE  [Log!Next]_Log!vars
<1>1. UNCHANGED <<line_buffer, ring, written>>
  BY DEF Enter
<1>2. raced' \/ raced' = raced
  <2>1. raced' = (raced \/ \E u \in Tasks \ {t} : Touches(at[u]) \cap Touches(to) # {})
    BY Zenon DEF Enter
  <2>. QED
    BY <2>1, Zenon
<1>3. CASE raced'
  BY <1>3, Zenon DEF Log!Next, Log!Race
<1>4. CASE raced' = raced
  <2>1. UNCHANGED <<line_buffer, History, written, raced>>
    BY <1>1, <1>4, HistoryKept, Zenon
  <2>. QED
    BY <2>1, Zenon DEF Log!vars, History
<1>. QED
  BY <1>2, <1>3, <1>4, Zenon

\* What the log does not see: where the tasks are, and the client.
LEMMA UnseenLogs ==
  ASSUME UNCHANGED <<line_buffer, ring, written, raced>>
  PROVE  [Log!Next]_Log!vars
<1>1. UNCHANGED <<line_buffer, History, written, raced>>
  BY HistoryKept, Zenon
<1>. QED
  BY <1>1, Zenon DEF Log!vars, History

LEMMA WritePieceLogs ==
  ASSUME NEW t \in Tasks, WritePiece(t)
  PROVE  [Log!Next]_Log!vars
<1>1. /\ line_buffer' = Append(line_buffer, t) /\ UNCHANGED <<ring, written>>
      /\ raced' = raced
  BY Zenon DEF WritePiece, Leave
<1>2. History' = History
  BY <1>1, HistoryKept
<1>3. Log!WritePiece(t)
  BY <1>1, <1>2, Zenon DEF Log!WritePiece, History
<1>. QED
  BY <1>1, <1>3, Zenon DEF Log!Next, Log!Write

LEMMA WriteNewlineLogs ==
  ASSUME IInv, NEW t \in Tasks, WriteNewline(t)
  PROVE  [Log!Next]_Log!vars
<1>. DEFINE line == [no |-> written + 1, pieces |-> line_buffer]
<1>1. /\ StoreHistory(line) /\ line_buffer' = <<>> /\ written' = written + 1 /\ raced' = raced
      /\ at[t] = "in_end"
  BY Zenon DEF WriteNewline, Leave
<1>2. line \in Lines
  BY <1>1, EndedLine
<1>3. RingTypeOK /\ RingInv
  BY DEF IInv, TypeOK, RingTypeOK
<1>4. History' = Log!LastLines(Append(History, line), HistorySize)
  BY <1>1, <1>2, <1>3, StoreAppends
<1>5. line = [no |-> written', pieces |-> line_buffer]
  BY <1>1
<1>. HIDE DEF line
<1>6. Log!EndLine
  BY <1>1, <1>4, <1>5, Zenon DEF Log!EndLine, History
<1>. QED
  BY <1>1, <1>6, Zenon DEF Log!Next, Log!Write

LEMMA PanicLogs == Panic => [Log!Next]_Log!vars
<1>. SUFFICES ASSUME Panic PROVE Log!Reboot
  BY DEF Log!Next
<1>1. history_count' = 0
  BY DEF Panic
<1>2. History' = <<>>
  BY <1>1 DEF History
<1>3. line_buffer' = <<>> /\ written' = 0
  BY DEF Panic
<1>4. raced' = FALSE
  BY Zenon DEF Panic
<1>. QED
  BY <1>2, <1>3, <1>4, Zenon DEF Log!Reboot, History

LEMMA NextLogs == IInv /\ [Next]_vars => [Log!Next]_Log!vars
<1>. SUFFICES ASSUME IInv, [Next]_vars PROVE [Log!Next]_Log!vars
  OBVIOUS
<1>1. ASSUME NEW t \in Tasks, TaskStep(t) PROVE [Log!Next]_Log!vars
  <2>1. CASE EnterString(t) \/ EnterChars(t) \/ EnterEnd(t)
    BY <2>1, EnterLogs DEF EnterString, EnterChars, EnterEnd, IInv, TypeOK
  <2>2. CASE StartMessage(t) \/ LosePiece(t)
    <3>1. UNCHANGED <<line_buffer, ring, written, raced>>
      BY <2>2, Zenon DEF StartMessage, LosePiece
    <3>. QED
      BY <3>1, UnseenLogs
  <2>. QED
    BY <1>1, <2>1, <2>2, WritePieceLogs, WriteNewlineLogs DEF TaskStep
<1>2. CASE EnterReplay
  BY <1>2, EnterLogs DEF EnterReplay, IInv, TypeOK
<1>3. CASE Connect \/ LogFullHistory \/ Deliver \/ Disconnect \/ UNCHANGED vars
  <2>1. UNCHANGED <<line_buffer, ring, written, raced>>
    BY <1>3, Zenon DEF Connect, LogFullHistory, Leave, Deliver, Disconnect, vars
  <2>. QED
    BY <2>1, UnseenLogs
<1>4. CASE Panic
  BY <1>4, PanicLogs
<1>. QED
  BY <1>1, <1>2, <1>3, <1>4 DEF Next

\* LineBuffer, StoreHistory and the mutex: for a ring of any size, any number of tasks and
\* lines, the ring holds the last lines in order with every piece written to them, until
\* two tasks race.
THEOREM ImplementsLog == Spec => RefinesLog
BY InitLogs, NextLogs, Invariance, PTL DEF Spec, RefinesLog, Log!Spec

=============================================================================
