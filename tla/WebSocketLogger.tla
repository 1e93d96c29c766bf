-------------------------- MODULE WebSocketLogger --------------------------
(***************************************************************************)
(* WebSocketLogger (src/firmware/src/logging): tasks write log messages    *)
(* piece by piece into one line buffer; a complete line goes into a ring   *)
(* of the last lines and to every web socket client; a new client first    *)
(* gets the ring replayed.  A mutex is taken for a piece that is a string  *)
(* and for the replay, but not for a piece that is a single character:     *)
(* the library that formats the messages prints their text character by    *)
(* character.  Two tasks that are at it at once race for the line buffer   *)
(* or the ring; the outcome is that the effects add up, that one gets      *)
(* lost, or a crash.                                                       *)
(*                                                                         *)
(* A message is a string (its time stamp), characters (its text) and a     *)
(* line end, which is a string too, except for the progress of an update   *)
(* over the air, whose text contains it.  What a piece says is left out,   *)
(* and with it that the ring keeps only the beginning of a long line.      *)
(***************************************************************************)
EXTENDS Naturals, Sequences, FiniteSets

CONSTANTS
  Loop, Web,      \* the loop task and the task of the web server
  OtherTasks,     \* further tasks that log, such as the network events
  HistorySize,    \* kMaxHistorySize
  QueueLimit,     \* WS_MAX_QUEUED_MESSAGES, the queue of a client
  MaxLines        \* bound: lines written before the next restart

ASSUME SizeAssumption ==
  /\ HistorySize \in Nat \ {0} /\ QueueLimit = HistorySize + 1
  /\ MaxLines \in Nat
ASSUME TaskAssumption == Loop # Web /\ {Loop, Web} \cap OtherTasks = {}

Tasks == {Loop, Web} \cup OtherTasks

VARIABLES
  line_buffer,      \* line_buffer_
  history_buffer,   \* history_buffer_
  history_start,    \* history_start_
  history_count,    \* history_count_
  at,               \* where each task is, see Places
  progress,         \* the loop task writes the progress of an update
  client,           \* the web socket client
  written,          \* history: number of complete lines
  raced             \* history: have two tasks been in the logger at once

ring == <<history_buffer, history_start, history_count>>
vars == <<line_buffer, ring, at, progress, client, written, raced>>

\* Before and in the writing of a string, the characters and the line end, and in
\* LogFullHistory.
Places == {"idle", "string", "in_string", "chars", "in_chars", "end", "in_end",
           "replay", "in_replay"}

Lines   == [no : 1 .. MaxLines, pieces : Seq(Tasks)]
NoLine  == [no |-> 0, pieces |-> <<>>]
Offline == [state |-> "offline"]

\* The client of the library: got are the lines put into its queue, queued those
\* still in there; since is the first line it can expect.
Clients == [state : {"connected", "replayed"}, got : SUBSET (1 .. MaxLines),
            queued : 0 .. QueueLimit, overflow : BOOLEAN, since : 1 .. MaxLines + 1]

TypeOK ==
  /\ line_buffer \in Seq(Tasks)
  /\ history_buffer \in [0 .. HistorySize - 1 -> Lines \cup {NoLine}]
  /\ history_start \in 0 .. HistorySize - 1
  /\ history_count \in 0 .. HistorySize
  /\ at \in [Tasks -> Places]
  /\ progress \in BOOLEAN
  /\ client \in Clients \cup {Offline}
  /\ written \in 0 .. MaxLines
  /\ raced \in BOOLEAN

-----------------------------------------------------------------------------
\* ---- The mutex and races ----

\* A task is in a write of a string, in a line end that is a string, or in the replay.
HoldsMutex(t) ==
  \/ at[t] \in {"in_string", "in_replay"}
  \/ at[t] = "in_end" /\ ~(t = Loop /\ progress)

\* Mutant: the mutex is only tried, not waited for.
MutexTried == TRUE

MutexFree == \A t \in Tasks : ~HoldsMutex(t)

\* The data a task works on inside the logger.
Touches(place) ==
  CASE place \in {"in_string", "in_chars"} -> {"line_buffer"}
    [] place = "in_replay"                 -> {"history"}
    [] place = "in_end"                    -> {"line_buffer", "history"}
    [] OTHER                               -> {}

\* A task gets into the logger; if another one works on the same data they race.
Enter(t, from, to) ==
  /\ at[t] = from
  /\ at' = [at EXCEPT ![t] = to]
  /\ raced' = (raced \/ \E u \in Tasks \ {t} : Touches(at[u]) \cap Touches(to) # {})
  /\ UNCHANGED <<line_buffer, ring, progress, client, written>>

Leave(t, from, to) ==
  /\ at[t] = from
  /\ at' = [at EXCEPT ![t] = to]
  /\ UNCHANGED raced

-----------------------------------------------------------------------------
\* ---- The ring and the client ----

\* Mutant: a full ring takes the place of its oldest line but does not move on.
StoreHistoryInPlace(line) ==
  /\ history_buffer' = [history_buffer EXCEPT
                          ![(history_start + history_count) % HistorySize] = line]
  /\ history_count' = IF history_count < HistorySize THEN history_count + 1 ELSE history_count
  /\ UNCHANGED history_start

\* Mutant: the start runs over the end of the array.
StoreHistoryUnwrapped(line) ==
  /\ history_buffer' = [history_buffer EXCEPT
                          ![(history_start + history_count) % HistorySize] = line]
  /\ IF history_count < HistorySize
       THEN history_count' = history_count + 1 /\ UNCHANGED history_start
       ELSE history_start' = history_start + 1 /\ UNCHANGED history_count

StoreHistory(line) ==
  IF history_count < HistorySize
    THEN /\ history_buffer' = [history_buffer EXCEPT
                                 ![(history_start + history_count) % HistorySize] = line]
         /\ history_count' = history_count + 1
         /\ UNCHANGED history_start
    ELSE /\ history_buffer' = [history_buffer EXCEPT ![history_start] = line]
         /\ history_start' = (history_start + 1) % HistorySize
         /\ UNCHANGED history_count

\* The i-th line of the history, oldest first.
HistoryLine(i) == history_buffer[(history_start + i - 1) % HistorySize]

Online == client # Offline

\* The library queues a text for the client; one too many is dropped, or the client is.
Sent(line) ==
  IF ~Online THEN client
  ELSE IF client.queued < QueueLimit
    THEN [client EXCEPT !.got = @ \cup {line.no}, !.queued = @ + 1]
    ELSE [client EXCEPT !.overflow = TRUE]

-----------------------------------------------------------------------------
\* ---- Writing a message ----

\* A task logs something.  MaxLines bounds the lines; what is begun after a race is of
\* no interest.
StartMessage(t) ==
  /\ at[t] = "idle" /\ ~raced
  /\ written + Cardinality({u \in Tasks : at[u] \notin {"idle", "replay", "in_replay"}}) < MaxLines
  /\ at' = [at EXCEPT ![t] = "string"]
  /\ IF t = Loop THEN progress' \in BOOLEAN ELSE UNCHANGED progress
  /\ UNCHANGED <<line_buffer, ring, client, written, raced>>

EnterString(t) == MutexFree /\ Enter(t, "string", "in_string")
EnterChars(t)  == Enter(t, "chars", "in_chars")
EnterEnd(t)    == (MutexFree \/ (t = Loop /\ progress)) /\ Enter(t, "end", "in_end")

WritePiece(t) ==
  /\ Leave(t, "in_string", "chars") \/ Leave(t, "in_chars", "end")
  /\ line_buffer' = Append(line_buffer, t)
  /\ UNCHANGED <<ring, progress, client, written>>

WriteNewline(t) ==
  LET line == [no |-> written + 1, pieces |-> line_buffer]
  IN  /\ Leave(t, "in_end", "idle")
      /\ StoreHistory(line) /\ client' = Sent(line)
      /\ line_buffer' = <<>>
      /\ written' = written + 1
      /\ UNCHANGED progress

-----------------------------------------------------------------------------
\* ---- Connecting ----

\* The library has added a client; the event that announces it follows.
Connect ==
  /\ at[Web] = "idle" /\ ~Online /\ ~raced
  /\ client' = [state |-> "connected", got |-> {}, queued |-> 0, overflow |-> FALSE, since |-> 1]
  /\ at' = [at EXCEPT ![Web] = "replay"]
  /\ UNCHANGED <<line_buffer, ring, progress, written, raced>>

EnterReplay == MutexFree /\ Enter(Web, "replay", "in_replay")

Room == QueueLimit - client.queued

\* Mutant: the newest line is left out.
ReplayCountShort == IF history_count <= Room THEN history_count - 1 ELSE Room

ReplayCount == IF history_count < Room THEN history_count ELSE Room

\* The history goes to the client line by line, until its queue is full.
LogFullHistory ==
  LET lines == {HistoryLine(i).no : i \in 1 .. ReplayCount}
  IN  /\ Leave(Web, "in_replay", "idle")
      /\ client' = [client EXCEPT
           !.state = "replayed",
           !.since = IF history_count = 0 THEN written + 1 ELSE HistoryLine(1).no,
           !.got = @ \cup lines,
           !.queued = @ + Cardinality(lines)]
      /\ UNCHANGED <<line_buffer, ring, progress, written>>

\* The network takes a text out of the queue of the client.
Deliver ==
  /\ Online /\ client.queued > 0
  /\ client' = [client EXCEPT !.queued = @ - 1]
  /\ UNCHANGED <<line_buffer, ring, at, progress, written, raced>>

Disconnect ==
  /\ Online /\ at[Web] = "idle"
  /\ client' = Offline
  /\ UNCHANGED <<line_buffer, ring, at, progress, written, raced>>

-----------------------------------------------------------------------------
\* ---- Races ----

\* The effect of a write got lost.
LosePiece(t) ==
  /\ raced /\ at[t] \in {"in_string", "in_chars", "in_end"}
  /\ at' = [at EXCEPT ![t] = CASE at[t] = "in_string" -> "chars"
                               [] at[t] = "in_chars"  -> "end"
                               [] at[t] = "in_end"    -> "idle"]
  /\ UNCHANGED <<line_buffer, ring, progress, client, written, raced>>

Panic ==
  /\ raced
  /\ line_buffer' = <<>>
  /\ history_buffer' = [i \in 0 .. HistorySize - 1 |-> NoLine]
  /\ history_start' = 0 /\ history_count' = 0
  /\ at' = [t \in Tasks |-> "idle"] /\ progress' = FALSE
  /\ client' = Offline /\ written' = 0 /\ raced' = FALSE

-----------------------------------------------------------------------------
Init ==
  /\ line_buffer = <<>>
  /\ history_buffer = [i \in 0 .. HistorySize - 1 |-> NoLine]
  /\ history_start = 0 /\ history_count = 0
  /\ at = [t \in Tasks |-> "idle"] /\ progress = FALSE
  /\ client = Offline /\ written = 0 /\ raced = FALSE

TaskStep(t) ==
  \/ StartMessage(t) \/ EnterString(t) \/ EnterChars(t) \/ EnterEnd(t)
  \/ WritePiece(t) \/ WriteNewline(t) \/ LosePiece(t)

Next ==
  \/ \E t \in Tasks : TaskStep(t)
  \/ Connect \/ EnterReplay \/ LogFullHistory \/ Deliver \/ Disconnect
  \/ Panic

Spec == Init /\ [][Next]_vars

-----------------------------------------------------------------------------
\* ---- Properties ----

\* The line buffer and the ring do what a log of lines promises, however the pieces
\* of two tasks interleave and wherever in the ring the history starts, until there
\* is a race.
Log == INSTANCE LineLog WITH
  text <- line_buffer,
  tail <- [i \in 1 .. history_count |-> HistoryLine(i)]

RefinesLog == Log!Spec

\* A client misses nothing: from the oldest line of the history it was shown on, it
\* has been sent every line, unless its queue ran full.  It is the size of the ring
\* that makes this so: what a full queue cuts off the replay are the lines that were
\* written since the client connected, and these are in the queue already.
NoLineMissed ==
  IF ~Online THEN TRUE
  ELSE client.state = "replayed" /\ ~client.overflow /\ ~raced =>
         client.since .. written \subseteq client.got

\* What the mutex is for: the history is shown to a client and changed by another
\* task at the same time only if the loop task is ending a line of the progress of an
\* update, the one line end that takes no mutex.
HistoryIsGuarded ==
  \A t, u \in Tasks :
    t # u /\ at[t] = "in_end" /\ at[u] \in {"in_end", "in_replay"} =>
      progress /\ Loop \in {t, u} /\ at[Loop] = "in_end"

=============================================================================
