--------------------------- MODULE WebServerProofs ---------------------------
(***************************************************************************)
(* Theorems about WebServer and Persistency, for any sections and keys,    *)
(* any width of millis() and any number of saves and losses of the link: a *)
(* save changes what the user has entered and nothing else, unless         *)
(* SetupOta runs meanwhile; sessions and restarts keep their times.        *)
(***************************************************************************)
EXTENDS WebServer, SequenceTheorems, TLAPS

-----------------------------------------------------------------------------
\* ---- The invariant ----

\* Only a save stores.  While it goes on undisturbed, the event task has nothing to do.
OnlyLoads(t) == \A i \in 1 .. Len(todo[t]) : todo[t][i].op = "load"
Purposes ==
  /\ OnlyLoads("event")
  /\ request # "save" => OnlyLoads("web")
  /\ request = "none" => todo["web"] = <<>>
  /\ request = "save" /\ ~overlapped => todo["event"] = <<>>

\* A save goes through SaveCalls from the first to the last.
Done == Len(SaveCalls) - Len(todo["web"])
SaveFollows ==
  request = "save" =>
    /\ Len(todo["web"]) <= Len(SaveCalls)
    /\ \A i \in 1 .. Len(todo["web"]) : todo["web"][i] = SaveCalls[Done + i]

\* Whoever ends last closes, and a save that nobody disturbs has its own section open.
OpenKnown ==
  /\ todo["web"] = <<>> /\ todo["event"] = <<>> => opened = Closed
  /\ request = "save" /\ ~overlapped =>
       opened = IF calls["web"] = 0 THEN Closed ELSE Section("web")

\* No field loses its value: what a task puts, it has got before.
FieldsStored == \A f \in Fields : flash[f[1]][f[2]] # Absent
HasGot(t, n) == Head(todo[t]).op = "store" \/ n < calls[t]
ConfigFilled ==
  \A t \in Tasks : todo[t] # <<>> =>
    \A n \in 1 .. Len(Keys[Section(t)]) :
      HasGot(t, n) => config[t][Keys[Section(t)][n]] # Absent

\* What a save has got and not yet put is still what the flash holds.
ConfigCurrent ==
  request = "save" /\ ~overlapped /\ todo["web"] # <<>> =>
    \A n \in 1 .. Len(Keys[Section("web")]) :
      (IF Head(todo["web"]).op = "load" THEN n < calls["web"] ELSE calls["web"] <= n) =>
        config["web"][Keys[Section("web")][n]] = flash[Section("web")][Keys[Section("web")][n]]

\* A deadline that has not wrapped is as far from the latest request as it should be,
\* until the delay has passed.
RestartInv ==
  restart_time_ >= RestartDelay =>
    since >= RestartDelay \/ (now < restart_time_ /\ since + restart_time_ = now + RestartDelay)

\* So it is with the sessions.  One that has been idle for long enough is one the loop
\* task has not got to since its deadline, unless it has missed it before the wrap.
NotYetRemoved(t) == sessions[t] <= now /\ now < sessions[t] + waited
SessionInv ==
  \A t \in Tokens : sessions[t] # NoSession /\ sessions[t] < Wrap =>
    \/ now < sessions[t] /\ idle[t] + sessions[t] = now + SessionTimeout
    \/ idle[t] = SessionTimeout /\ (sessions[t] <= Wrap - LoopPause => NotYetRemoved(t))

SaveInv == Purposes /\ SaveFollows /\ OpenKnown /\ FieldsStored
           /\ ConfigFilled /\ ConfigCurrent /\ SaveInOrder

IInv == TypeOK /\ SaveInv /\ RestartInv /\ SessionInv

-----------------------------------------------------------------------------
\* ---- Constants ----

LEMMA TimeFacts ==
  /\ Wrap \in Nat /\ SessionTimeout \in Nat /\ RestartDelay \in Nat
  /\ 0 < SessionTimeout /\ SessionTimeout < Wrap /\ 0 < RestartDelay /\ RestartDelay < Wrap
  /\ LoopPause \in Nat /\ 0 < LoopPause
BY WebServerAssumption

LEMMA TaskFacts == "web" \in Tasks /\ "event" \in Tasks /\ \A t \in Tasks : t = "web" \/ t = "event"
BY WebServerAssumption

LEMMA KeyFacts ==
  ASSUME NEW s \in Sections
  PROVE  /\ Keys[s] \in Seq(STRING) /\ Len(Keys[s]) \in Nat /\ DOMAIN Keys[s] = 1 .. Len(Keys[s])
         /\ \A n \in 1 .. Len(Keys[s]) : Keys[s][n] \in AllKeys /\ <<s, Keys[s][n]>> \in Fields
         /\ \A m, n \in 1 .. Len(Keys[s]) : Keys[s][m] = Keys[s][n] => m = n
<1>1. Keys[s] \in Seq(STRING) /\ Len(Keys[s]) \in Nat /\ DOMAIN Keys[s] = 1 .. Len(Keys[s])
  BY KeysAssumption
<1>2. \A n \in 1 .. Len(Keys[s]) : Keys[s][n] \in Range(Keys[s])
  BY <1>1 DEF Range
<1>3. \A n \in 1 .. Len(Keys[s]) : Keys[s][n] \in AllKeys
  BY <1>2 DEF AllKeys
<1>. QED
  BY <1>1, <1>2, <1>3, KeysAssumption DEF Fields, IsInjective

\* The sum of two times of millis() wraps around once at most.
LEMMA ModWrap ==
  ASSUME NEW w \in Nat \ {0}, NEW a \in 0 .. (w + w - 1)
  PROVE  a % w = (IF a < w THEN a ELSE a - w)
OBVIOUS

LEMMA NextMillis ==
  ASSUME now \in 0 .. Wrap - 1
  PROVE  (now + 1) % Wrap = (IF now + 1 < Wrap THEN now + 1 ELSE 0)
<1>1. Wrap \in Nat \ {0} /\ now + 1 \in 0 .. (Wrap + Wrap - 1)
  BY TimeFacts
<1>2. (now + 1) % Wrap = (IF now + 1 < Wrap THEN now + 1 ELSE (now + 1) - Wrap)
  BY <1>1, ModWrap
<1>. QED
  BY <1>2, TimeFacts

LEMMA RestartTimeIs ==
  ASSUME now \in 0 .. Wrap - 1
  PROVE  RestartTime = (IF now + RestartDelay < Wrap THEN now + RestartDelay ELSE (now + RestartDelay) - Wrap)
<1>1. Wrap \in Nat \ {0} /\ now + RestartDelay \in 0 .. (Wrap + Wrap - 1)
  BY TimeFacts
<1>. QED
  BY <1>1, ModWrap DEF RestartTime

-----------------------------------------------------------------------------
\* ---- Restarts and sessions ----

Clocked == now \in 0 .. Wrap - 1 /\ restart_time_ \in 0 .. Wrap - 1 /\ since \in 0 .. RestartDelay
           /\ sessions \in [Tokens -> {NoSession} \cup 0 .. Wrap - 1 + SessionTimeout]
           /\ idle \in [Tokens -> 0 .. SessionTimeout]
           /\ loop \in {"start", "scanning"} /\ waited \in 0 .. LoopPause

LEMMA TypeOKClocked == TypeOK => Clocked
BY DEF TypeOK, Clocked

\* What Next can do to clock, sessions and deadline.
RequestsRestart == restart_time_' = RestartTime /\ since' = 0
UsesSession(t) ==
  /\ sessions' \in {[sessions EXCEPT ![t] = now + SessionTimeout], [sessions EXCEPT ![t] = NoSession]}
  /\ idle' = [idle EXCEPT ![t] = 0]
Passes ==
  \/ loop = "start" /\ loop' = "scanning" /\ UNCHANGED <<now, waited, sessions, idle, restart_time_, since>>
  \/ /\ loop = "scanning" /\ ~RestartDue /\ loop' = "start" /\ waited' = 0
     /\ sessions' = [t \in Tokens |-> IF Expired(t) THEN NoSession ELSE sessions[t]]
     /\ UNCHANGED <<now, idle, restart_time_, since>>
  \/ /\ waited < LoopPause /\ now' = (now + 1) % Wrap /\ waited' = waited + 1
     /\ idle' = [t \in Tokens |-> IF sessions[t] = NoSession THEN 0 ELSE Plus1(idle[t], SessionTimeout)]
     /\ since' = IF restart_time_ = 0 THEN 0 ELSE Plus1(since, RestartDelay)
     /\ UNCHANGED <<loop, sessions, restart_time_>>
Boots ==
  /\ now' = 0 /\ loop' = "start" /\ waited' = 0 /\ restart_time_' = 0 /\ since' = 0
  /\ sessions' = [t \in Tokens |-> NoSession] /\ idle' = [t \in Tokens |-> 0]

LEMMA NextClock ==
  ASSUME [Next]_vars
  PROVE  \/ Passes
         \/ Boots
         \/ /\ UNCHANGED <<now, loop, waited>>
            /\ RequestsRestart \/ UNCHANGED <<restart_time_, since>>
            /\ \/ UNCHANGED <<sessions, idle>>
               \/ \E t \in Tokens : UsesSession(t)
               \/ \E t \in Tokens : sessions' = [sessions EXCEPT ![t] = NoSession] /\ UNCHANGED idle
<1>1. CASE LinkUp \/ EventStep \/ LinkDown \/ HandleLoginPost \/ WebStep \/ LoginFails \/ ConfigShown \/ Saved
  BY <1>1 DEF LinkUp, EventStep, LinkDown, HandleLoginPost, WebStep, LoginFails, ConfigShown, Saved,
              clock_vars, session_vars, restart_vars
<1>2. ASSUME NEW t \in Tokens, HandlePage(t) \/ HandleConfig(t) \/ HandleSave(t) \/ HandleOtaRequest(t)
      PROVE  /\ UNCHANGED <<now, loop, waited>>
             /\ RequestsRestart \/ UNCHANGED <<restart_time_, since>>
             /\ UsesSession(t)
  BY <1>2 DEF HandlePage, HandleConfig, HandleSave, HandleOtaRequest, CheckAuthentication, clock_vars,
              restart_vars, UsesSession, RequestsRestart
<1>3. ASSUME NEW t \in Tokens, HandleLogout(t)
      PROVE  /\ UNCHANGED <<now, loop, waited>> /\ UNCHANGED <<restart_time_, since>>
             /\ sessions' = [sessions EXCEPT ![t] = NoSession] /\ UNCHANGED idle
  BY <1>3 DEF HandleLogout, clock_vars, restart_vars
<1>4. CASE HandleRestart
  BY <1>4 DEF HandleRestart, clock_vars, session_vars, RequestsRestart
<1>5. CASE LoginSucceeds
  <2>1. PICK t \in Tokens : /\ sessions' = [sessions EXCEPT ![t] = now + SessionTimeout]
                            /\ idle' = [idle EXCEPT ![t] = 0]
    BY <1>5 DEF LoginSucceeds
  <2>. QED
    BY <1>5, <2>1 DEF LoginSucceeds, UsesSession, clock_vars, restart_vars
<1>6. CASE LoopRestarts \/ Panic
  BY <1>6 DEF LoopRestarts, Panic, Boot, Boots
<1>7. CASE LoopScans \/ LoopRemovesExpired \/ Tick
  BY <1>7 DEF LoopScans, LoopRemovesExpired, Tick, Passes, session_vars, restart_vars
<1>8. CASE UNCHANGED vars
  BY <1>8 DEF vars, clock_vars, session_vars, restart_vars
<1>. QED
  BY <1>1, <1>2, <1>3, <1>4, <1>5, <1>6, <1>7, <1>8 DEF Next

LEMMA NextClocked ==
  ASSUME Clocked, [Next]_vars
  PROVE  Clocked'
<1>1. NoSession \in Int /\ 0 \in 0 .. Wrap - 1 /\ 0 \in 0 .. SessionTimeout /\ 0 \in 0 .. RestartDelay
  BY TimeFacts DEF NoSession
<1>2. now + SessionTimeout \in 0 .. Wrap - 1 + SessionTimeout
  BY TimeFacts DEF Clocked
<1>3. \A t \in Tokens : /\ [sessions EXCEPT ![t] = now + SessionTimeout] \in [Tokens -> {NoSession} \cup 0 .. Wrap - 1 + SessionTimeout]
                        /\ [sessions EXCEPT ![t] = NoSession] \in [Tokens -> {NoSession} \cup 0 .. Wrap - 1 + SessionTimeout]
                        /\ [idle EXCEPT ![t] = 0] \in [Tokens -> 0 .. SessionTimeout]
  BY <1>1, <1>2 DEF Clocked
<1>4. CASE Boots
  BY <1>1, <1>4, TimeFacts DEF Boots, Clocked
<1>5. CASE Passes
  <2>1. now' \in 0 .. Wrap - 1
    BY <1>5, NextMillis, TimeFacts DEF Passes, Clocked
  <2>2. since' \in 0 .. RestartDelay /\ restart_time_' \in 0 .. Wrap - 1 /\ loop' \in {"start", "scanning"}
       /\ waited' \in 0 .. LoopPause
    BY <1>1, <1>5, TimeFacts DEF Passes, Clocked, Plus1
  <2>3. sessions' \in [Tokens -> {NoSession} \cup 0 .. Wrap - 1 + SessionTimeout]
    BY <1>5 DEF Passes, Clocked
  <2>4. idle' \in [Tokens -> 0 .. SessionTimeout]
    <3>1. \A t \in Tokens : Plus1(idle[t], SessionTimeout) \in 0 .. SessionTimeout
      BY TimeFacts DEF Clocked, Plus1
    <3>. QED
      BY <1>1, <1>5, <3>1 DEF Passes, Clocked
  <2>. QED
    BY <2>1, <2>2, <2>3, <2>4 DEF Clocked
<1>6. ASSUME /\ UNCHANGED <<now, loop, waited>>
             /\ RequestsRestart \/ UNCHANGED <<restart_time_, since>>
             /\ \/ UNCHANGED <<sessions, idle>>
                \/ \E t \in Tokens : UsesSession(t)
                \/ \E t \in Tokens : sessions' = [sessions EXCEPT ![t] = NoSession] /\ UNCHANGED idle
      PROVE  Clocked'
  <2>1. restart_time_' \in 0 .. Wrap - 1 /\ since' \in 0 .. RestartDelay
    BY <1>1, <1>6, RestartTimeIs, TimeFacts DEF Clocked, RequestsRestart
  <2>2. /\ sessions' \in [Tokens -> {NoSession} \cup 0 .. Wrap - 1 + SessionTimeout]
        /\ idle' \in [Tokens -> 0 .. SessionTimeout]
    BY <1>3, <1>6 DEF Clocked, UsesSession
  <2>. QED
    BY <1>6, <2>1, <2>2 DEF Clocked
<1>. QED
  BY <1>4, <1>5, <1>6, NextClock

LEMMA NextRestart ==
  ASSUME Clocked, RestartInv, [Next]_vars
  PROVE  RestartInv'
<1>1. CASE Boots
  BY <1>1, TimeFacts DEF Boots, RestartInv
<1>2. CASE Passes
  BY <1>2, NextMillis, TimeFacts DEF Passes, Clocked, RestartInv, RestartDue, Plus1
<1>3. CASE UNCHANGED <<now, loop, waited>> /\ RequestsRestart
  BY <1>3, RestartTimeIs, TimeFacts DEF RequestsRestart, Clocked, RestartInv
<1>4. CASE UNCHANGED <<now, loop, waited, restart_time_, since>>
  BY <1>4 DEF RestartInv
<1>. QED
  BY <1>1, <1>2, <1>3, <1>4, NextClock

\* What SessionInv says of one session.
Timed(t) ==
  sessions[t] # NoSession /\ sessions[t] < Wrap =>
    \/ now < sessions[t] /\ idle[t] + sessions[t] = now + SessionTimeout
    \/ idle[t] = SessionTimeout /\ (sessions[t] <= Wrap - LoopPause => NotYetRemoved(t))

LEMMA NextSession ==
  ASSUME Clocked, SessionInv, [Next]_vars
  PROVE  SessionInv'
<1>. SUFFICES ASSUME NEW t \in Tokens, sessions'[t] # NoSession, sessions'[t] < Wrap PROVE Timed(t)'
  BY DEF SessionInv, Timed
<1>1. sessions[t] \in Int /\ idle[t] \in 0 .. SessionTimeout /\ (sessions[t] # NoSession => sessions[t] \in Nat)
  BY TimeFacts DEF Clocked, NoSession
<1>2. Timed(t)
  BY DEF SessionInv, Timed
<1>3. CASE Boots
  BY <1>3 DEF Boots
<1>4. CASE Passes
  <2>1. sessions'[t] = sessions[t]
    BY <1>4 DEF Passes, Clocked
  <2>2. CASE UNCHANGED <<now, waited, sessions, idle>>
    BY <1>2, <2>2 DEF Timed, NotYetRemoved
  <2>3. CASE /\ waited' = 0 /\ UNCHANGED <<now, idle>>
             /\ sessions' = [u \in Tokens |-> IF Expired(u) THEN NoSession ELSE sessions[u]]
    <3>1. now < sessions[t]
      BY <1>1, <2>1, <2>3 DEF Expired, Clocked
    <3>. QED
      BY <1>1, <1>2, <2>1, <2>3, <3>1 DEF Timed, NotYetRemoved, Clocked
  <2>4. CASE /\ waited < LoopPause /\ waited' = waited + 1 /\ now' = (now + 1) % Wrap /\ UNCHANGED sessions
             /\ idle' = [u \in Tokens |-> IF sessions[u] = NoSession THEN 0 ELSE Plus1(idle[u], SessionTimeout)]
    <3>1. idle'[t] = (IF idle[t] < SessionTimeout THEN idle[t] + 1 ELSE idle[t])
      BY <1>1, <2>1, <2>4 DEF Plus1, Clocked
    <3>2. /\ now \in Nat /\ waited \in Nat /\ waited + 1 <= LoopPause
          /\ now' = (IF now + 1 < Wrap THEN now + 1 ELSE 0)
      BY <2>4, NextMillis, TimeFacts DEF Clocked
    <3>3. CASE now < sessions[t] /\ idle[t] + sessions[t] = now + SessionTimeout
      BY <1>1, <2>1, <2>4, <3>1, <3>2, <3>3, TimeFacts DEF Timed, NotYetRemoved
    <3>4. CASE idle[t] = SessionTimeout /\ (sessions[t] <= Wrap - LoopPause => NotYetRemoved(t))
      BY <1>1, <2>1, <2>4, <3>1, <3>2, <3>4, TimeFacts DEF Timed, NotYetRemoved
    <3>. QED
      BY <1>2, <2>1, <3>3, <3>4 DEF Timed
  <2>. QED
    BY <1>4, <2>2, <2>3, <2>4 DEF Passes
<1>5. ASSUME UNCHANGED <<now, loop, waited>>, NEW u \in Tokens, UsesSession(u)
      PROVE  Timed(t)'
  <2>1. CASE u = t
    BY <1>5, <2>1, TimeFacts DEF UsesSession, Clocked, Timed
  <2>2. CASE u # t
    BY <1>2, <1>5, <2>2 DEF UsesSession, Clocked, Timed, NotYetRemoved
  <2>. QED
    BY <2>1, <2>2
<1>6. ASSUME UNCHANGED <<now, loop, waited, idle>>, NEW u \in Tokens, sessions' = [sessions EXCEPT ![u] = NoSession]
      PROVE  Timed(t)'
  BY <1>2, <1>6 DEF Clocked, Timed, NotYetRemoved
<1>7. CASE UNCHANGED <<now, loop, waited, sessions, idle>>
  BY <1>2, <1>7 DEF Timed, NotYetRemoved
<1>. QED
  BY <1>3, <1>4, <1>5, <1>6, <1>7, NextClock

-----------------------------------------------------------------------------
\* ---- The calls of a save ----

LEMMA JobFacts ==
  ASSUME NEW s \in Sections
  PROVE  /\ Load(s) \in Jobs /\ Load(s).op = "load" /\ Load(s).section = s
         /\ Store(s) \in Jobs /\ Store(s).op = "store" /\ Store(s).section = s
BY DEF Load, Store, Jobs

LEMMA LoadsFacts ==
  ASSUME NEW order \in Seq(Sections)
  PROVE  /\ Loads(order) \in Seq(Jobs) /\ Len(Loads(order)) = Len(order)
         /\ \A i \in 1 .. Len(order) : Loads(order)[i] = Load(order[i])
<1>1. Loads(order) = [i \in 1 .. Len(order) |-> Load(order[i])]
  BY DEF Loads
<1>2. \A i \in 1 .. Len(order) : Load(order[i]) \in Jobs
  BY JobFacts
<1>. QED
  BY <1>1, <1>2

LEMMA OrderFacts ==
  /\ SaveOrder \in Seq(Sections) /\ Len(SaveOrder) \in Nat
  /\ PrintOrder \in Seq(Sections) /\ Len(PrintOrder) \in Nat
  /\ \A i, j \in 1 .. Len(SaveOrder) : SaveOrder[i] = SaveOrder[j] => i = j
  /\ \A s \in Sections : \E i \in 1 .. Len(SaveOrder) : SaveOrder[i] = s
<1>1. SaveOrder \in Seq(Sections) /\ Len(SaveOrder) \in Nat /\ DOMAIN SaveOrder = 1 .. Len(SaveOrder)
  BY WebServerAssumption
<1>2. \A s \in Sections : \E i \in 1 .. Len(SaveOrder) : SaveOrder[i] = s
  BY <1>1, WebServerAssumption DEF Range
<1>. QED
  BY <1>1, <1>2, WebServerAssumption DEF IsInjective

LEMMA Halves ==
  ASSUME NEW l \in Nat, NEW i \in 1 .. 2 * l
  PROVE  /\ i % 2 = 1 => (i + 1) \div 2 \in 1 .. l /\ i = 2 * ((i + 1) \div 2) - 1
         /\ i % 2 # 1 => i \div 2 \in 1 .. l /\ i = 2 * (i \div 2)
OBVIOUS

LEMMA Doubles ==
  ASSUME NEW l \in Nat, NEW j \in 1 .. l
  PROVE  /\ 2 * j \in 2 .. 2 * l /\ 2 * j - 1 \in 1 .. 2 * l
         /\ (2 * j) % 2 # 1 /\ (2 * j) \div 2 = j
         /\ (2 * j - 1) % 2 = 1 /\ ((2 * j - 1) + 1) \div 2 = j
OBVIOUS

\* The save of section j of SaveOrder.
LEMMA SavesFacts ==
  /\ Saves \in Seq(Jobs) /\ Len(Saves) = 2 * Len(SaveOrder)
  /\ \A j \in 1 .. Len(SaveOrder) : /\ Saves[2 * j - 1] = Load(SaveOrder[j])
                                    /\ Saves[2 * j] = Store(SaveOrder[j])
  /\ \A i \in 1 .. 2 * Len(SaveOrder) :
       \E j \in 1 .. Len(SaveOrder) : \/ i = 2 * j - 1 /\ Saves[i] = Load(SaveOrder[j])
                                      \/ i = 2 * j /\ Saves[i] = Store(SaveOrder[j])
<1>. DEFINE l == Len(SaveOrder)
<1>0. l \in Nat /\ 2 * l \in Nat
  BY OrderFacts
<1>1. \A i \in 1 .. 2 * l : IF i % 2 = 1 THEN Saves[i] = Load(SaveOrder[(i + 1) \div 2])
                                         ELSE Saves[i] = Store(SaveOrder[i \div 2])
  BY DEF Saves
<1>2. \A i \in 1 .. 2 * l :
        \E j \in 1 .. l : \/ i = 2 * j - 1 /\ Saves[i] = Load(SaveOrder[j])
                          \/ i = 2 * j /\ Saves[i] = Store(SaveOrder[j])
  BY <1>0, <1>1, Halves
<1>3. \A j \in 1 .. l : Saves[2 * j - 1] = Load(SaveOrder[j]) /\ Saves[2 * j] = Store(SaveOrder[j])
  <2>. SUFFICES ASSUME NEW j \in 1 .. l
                PROVE  Saves[2 * j - 1] = Load(SaveOrder[j]) /\ Saves[2 * j] = Store(SaveOrder[j])
    OBVIOUS
  <2>1. /\ 2 * j \in 2 .. 2 * l /\ 2 * j - 1 \in 1 .. 2 * l
        /\ (2 * j) % 2 # 1 /\ (2 * j) \div 2 = j
        /\ (2 * j - 1) % 2 = 1 /\ ((2 * j - 1) + 1) \div 2 = j
    BY <1>0, Doubles
  <2>2. 2 * j \in 1 .. 2 * l
    BY <2>1
  <2>3. Saves[2 * j] = Store(SaveOrder[(2 * j) \div 2])
    BY <1>1, <2>1, <2>2
  <2>4. Saves[2 * j - 1] = Load(SaveOrder[((2 * j - 1) + 1) \div 2])
    BY <1>1, <2>1
  <2>. QED
    BY <2>1, <2>3, <2>4
<1>4. \A i \in 1 .. 2 * l : Saves[i] \in Jobs
  <2>1. \A j \in 1 .. l : Load(SaveOrder[j]) \in Jobs /\ Store(SaveOrder[j]) \in Jobs
    BY OrderFacts, JobFacts
  <2>. QED
    BY <1>2, <2>1
<1>5. Saves \in Seq(Jobs) /\ Len(Saves) = 2 * l
  BY <1>0, <1>4 DEF Saves
<1>. QED
  BY <1>2, <1>3, <1>5

LEMMA SaveCallsFacts ==
  /\ SaveCalls \in Seq(Jobs) /\ Len(SaveCalls) \in Nat
  /\ \A i \in 1 .. Len(SaveCalls) :
       SaveCalls[i].op = "store" => /\ i > 1
                                    /\ SaveCalls[i - 1].op = "load"
                                    /\ SaveCalls[i - 1].section = SaveCalls[i].section
  /\ \A i, j \in 1 .. Len(SaveCalls) :
       SaveCalls[i].op = "store" /\ SaveCalls[j] = SaveCalls[i] => i = j
  /\ \A s \in Sections : \E i \in 2 .. Len(SaveCalls) : SaveCalls[i] = Store(s)
<1>. DEFINE l == Len(SaveOrder)
            c == Loads(PrintOrder)
            n == Len(SaveCalls)
<1>1. /\ Saves \in Seq(Jobs) /\ Len(Saves) = 2 * l /\ l \in Nat
      /\ c \in Seq(Jobs) /\ \A i \in 1 .. Len(c) : c[i].op = "load"
  BY SavesFacts, LoadsFacts, OrderFacts, JobFacts
<1>2. /\ SaveCalls \in Seq(Jobs) /\ n = 2 * l + Len(c)
      /\ \A i \in 1 .. n : SaveCalls[i] = IF i <= 2 * l THEN Saves[i] ELSE c[i - 2 * l]
  BY <1>1 DEF SaveCalls
<1>3. \A i \in 1 .. n : SaveCalls[i].op = "store" =>
        \E j \in 1 .. l : i = 2 * j /\ SaveCalls[i] = Store(SaveOrder[j])
  <2>. SUFFICES ASSUME NEW i \in 1 .. n, SaveCalls[i].op = "store"
                PROVE  \E j \in 1 .. l : i = 2 * j /\ SaveCalls[i] = Store(SaveOrder[j])
    OBVIOUS
  <2>1. CASE i <= 2 * l
    <3>1. SaveCalls[i] = Saves[i] /\ i \in 1 .. 2 * l
      BY <1>1, <1>2, <2>1
    <3>2. PICK j \in 1 .. l : \/ i = 2 * j - 1 /\ Saves[i] = Load(SaveOrder[j])
                              \/ i = 2 * j /\ Saves[i] = Store(SaveOrder[j])
      BY <3>1, SavesFacts
    <3>3. Load(SaveOrder[j]).op = "load"
      BY DEF Load
    <3>. QED
      BY <3>1, <3>2, <3>3
  <2>2. CASE ~(i <= 2 * l)
    <3>1. SaveCalls[i] = c[i - 2 * l] /\ i - 2 * l \in 1 .. Len(c)
      BY <1>1, <1>2, <2>2
    <3>. QED
      BY <1>1, <3>1
  <2>. QED
    BY <2>1, <2>2
<1>4. \A j \in 1 .. l : /\ SaveCalls[2 * j - 1] = Load(SaveOrder[j])
                        /\ SaveCalls[2 * j] = Store(SaveOrder[j])
                        /\ 2 * j \in 2 .. n
  <2>. SUFFICES ASSUME NEW j \in 1 .. l
                PROVE  /\ SaveCalls[2 * j - 1] = Load(SaveOrder[j])
                       /\ SaveCalls[2 * j] = Store(SaveOrder[j])
                       /\ 2 * j \in 2 .. n
    OBVIOUS
  <2>1. 2 * j \in 1 .. n /\ 2 * j - 1 \in 1 .. n /\ 2 * j \in 2 .. n /\ 2 * j <= 2 * l
    BY <1>1, <1>2
  <2>2. Saves[2 * j - 1] = Load(SaveOrder[j]) /\ Saves[2 * j] = Store(SaveOrder[j])
    BY SavesFacts
  <2>. QED
    <3>1. SaveCalls[2 * j] = Saves[2 * j]
      BY <1>1, <1>2, <2>1
    <3>2. SaveCalls[2 * j - 1] = Saves[2 * j - 1]
      BY <1>1, <1>2, <2>1
    <3>. QED
      BY <2>1, <2>2, <3>1, <3>2
<1>5. \A i \in 1 .. n : SaveCalls[i].op = "store" => /\ i > 1
                                                     /\ SaveCalls[i - 1].op = "load"
                                                     /\ SaveCalls[i - 1].section = SaveCalls[i].section
  <2>. SUFFICES ASSUME NEW i \in 1 .. n, SaveCalls[i].op = "store"
                PROVE  /\ i > 1 /\ SaveCalls[i - 1].op = "load"
                       /\ SaveCalls[i - 1].section = SaveCalls[i].section
    OBVIOUS
  <2>1. PICK j \in 1 .. l : i = 2 * j /\ SaveCalls[i] = Store(SaveOrder[j])
    BY <1>3
  <2>2. i - 1 = 2 * j - 1 /\ SaveCalls[i - 1] = Load(SaveOrder[j]) /\ i > 1
    BY <1>4, <2>1
  <2>3. SaveOrder[j] \in Sections
    BY OrderFacts
  <2>. QED
    BY <2>1, <2>2, <2>3, JobFacts
<1>6. \A i, j \in 1 .. n : SaveCalls[i].op = "store" /\ SaveCalls[j] = SaveCalls[i] => i = j
  <2>. SUFFICES ASSUME NEW i \in 1 .. n, NEW j \in 1 .. n, SaveCalls[i].op = "store",
                       SaveCalls[j] = SaveCalls[i]
                PROVE  i = j
    OBVIOUS
  <2>1. PICK a \in 1 .. l : i = 2 * a /\ SaveCalls[i] = Store(SaveOrder[a])
    BY <1>3
  <2>2. PICK b \in 1 .. l : j = 2 * b /\ SaveCalls[j] = Store(SaveOrder[b])
    BY <1>3
  <2>3. SaveOrder[a] = SaveOrder[b]
    BY <2>1, <2>2 DEF Store
  <2>. QED
    BY <2>1, <2>2, <2>3, OrderFacts
<1>7. \A s \in Sections : \E i \in 2 .. n : SaveCalls[i] = Store(s)
  <2>. SUFFICES ASSUME NEW s \in Sections PROVE \E i \in 2 .. n : SaveCalls[i] = Store(s)
    OBVIOUS
  <2>1. PICK j \in 1 .. l : SaveOrder[j] = s
    BY OrderFacts
  <2>. QED
    BY <1>4, <2>1
<1>. QED
  BY <1>1, <1>2, <1>5, <1>6, <1>7

-----------------------------------------------------------------------------
\* ---- A call to preferences_ ----

LEMMA TodoFacts ==
  ASSUME PersistencyTypeOK, NEW t \in Tasks, todo[t] # <<>>
  PROVE  /\ todo[t] \in Seq(Jobs) /\ Len(todo[t]) \in Nat /\ Len(todo[t]) >= 1
         /\ Head(todo[t]) = todo[t][1] /\ Head(todo[t]) \in Jobs
         /\ Section(t) \in Sections /\ Len(Keys[Section(t)]) \in Nat
         /\ calls[t] \in Nat /\ calls[t] <= Len(Keys[Section(t)]) + 1
         /\ AtKey(t) => Key(t) \in AllKeys
         /\ Tail(todo[t]) \in Seq(Jobs) /\ Len(Tail(todo[t])) = Len(todo[t]) - 1
         /\ \A i \in 1 .. Len(todo[t]) - 1 : Tail(todo[t])[i] = todo[t][i + 1]
<1>1. /\ todo[t] \in Seq(Jobs) /\ Len(todo[t]) \in Nat /\ Len(todo[t]) >= 1
      /\ Head(todo[t]) = todo[t][1] /\ Head(todo[t]) \in Jobs
      /\ Tail(todo[t]) \in Seq(Jobs) /\ Len(Tail(todo[t])) = Len(todo[t]) - 1
      /\ \A i \in 1 .. Len(todo[t]) - 1 : Tail(todo[t])[i] = todo[t][i + 1]
  BY DEF PersistencyTypeOK
<1>2. Section(t) \in Sections
  BY <1>1 DEF Section, Jobs
<1>3. Len(Keys[Section(t)]) \in Nat /\ (AtKey(t) => Key(t) \in AllKeys)
  BY <1>2, KeyFacts DEF AtKey, Key
<1>. QED
  BY <1>1, <1>2, <1>3 DEF PersistencyTypeOK, Section

\* A step within the first section: begin, get or put; or the end of it.
Goes(t)   == /\ calls[t] <= Len(Keys[Section(t)])
             /\ calls' = [calls EXCEPT ![t] = @ + 1] /\ todo' = todo
Begins(t) == calls[t] = 0 /\ Goes(t) /\ Begin(Section(t))
Gets(t)   == /\ Head(todo[t]).op = "load" /\ AtKey(t) /\ Goes(t)
             /\ config' = [config EXCEPT ![t][Key(t)] = Got(Key(t), Value(Section(t), Key(t), "default"))]
             /\ UNCHANGED <<flash, opened>>
Puts(t, entered) ==
  /\ Head(todo[t]).op = "store" /\ AtKey(t) /\ Goes(t) /\ UNCHANGED config
  /\ Put(Key(t), IF <<Section(t), Key(t)>> \in entered
                 THEN Value(Section(t), Key(t), "entered") ELSE config[t][Key(t)])
Ends(t)   == /\ End /\ calls[t] > Len(Keys[Section(t)])
             /\ calls' = [calls EXCEPT ![t] = 0] /\ todo' = [todo EXCEPT ![t] = Tail(todo[t])]
             /\ config' = IF Len(todo[t]) = 1 THEN [config EXCEPT ![t] = Nothing] ELSE config

LEMMA AccessCases ==
  ASSUME PersistencyTypeOK, NEW t \in Tasks, NEW entered, Access(t, entered)
  PROVE  /\ todo[t] # <<>>
         /\ \/ /\ Begins(t)
               /\ IF Head(todo[t]).op = "load" THEN config' = [config EXCEPT ![t] = Nothing]
                                               ELSE config' = config
            \/ Gets(t)
            \/ Puts(t, entered)
            \/ Ends(t)
<1>1. todo[t] # <<>> /\ Head(todo[t]).op \in {"load", "store"}
  BY TodoFacts DEF Access, Jobs
<1>2. Len(Keys[Section(t)]) \in Nat /\ calls[t] \in Nat
  BY <1>1, TodoFacts
<1>3. CASE LoadStep(t) /\ calls' = [calls EXCEPT ![t] = @ + 1] /\ todo' = todo
  BY <1>1, <1>2, <1>3 DEF LoadStep, Begins, Gets, Goes, AtKey
<1>4. CASE StoreStep(t, entered) /\ calls' = [calls EXCEPT ![t] = @ + 1] /\ todo' = todo
  BY <1>1, <1>2, <1>4 DEF StoreStep, Begins, Puts, Goes, AtKey
<1>5. CASE LastStep(t) /\ calls' = [calls EXCEPT ![t] = 0] /\ todo' = [todo EXCEPT ![t] = Tail(@)]
  BY <1>1, <1>2, <1>5 DEF LastStep, Ends
<1>. QED
  BY <1>1, <1>3, <1>4, <1>5 DEF Access

LEMMA ValueTyped ==
  ASSUME NEW s \in Sections, NEW k \in AllKeys, NEW o \in {"stored", "entered", "default"}
  PROVE  Value(s, k, o) \in Values /\ Value(s, k, o) # Absent
BY DEF Value, Values, Absent

LEMMA NothingTyped == Nothing \in [AllKeys -> Values \cup {Absent}]
BY DEF Nothing

LEMMA AccessType ==
  ASSUME PersistencyTypeOK, NEW t \in Tasks, NEW entered, Access(t, entered)
  PROVE  PersistencyTypeOK'
<1>. DEFINE Configs == [AllKeys -> Values \cup {Absent}]
<1>1. /\ flash \in [Sections -> Configs] /\ opened \in Sections \cup {Closed}
      /\ config \in [Tasks -> Configs] /\ todo \in [Tasks -> Seq(Jobs)] /\ calls \in [Tasks -> Nat]
  BY DEF PersistencyTypeOK
<1>2. /\ todo[t] # <<>> /\ Section(t) \in Sections /\ (AtKey(t) => Key(t) \in AllKeys)
      /\ Tail(todo[t]) \in Seq(Jobs) /\ Len(Keys[Section(t)]) \in Nat
  BY AccessCases, TodoFacts
<1>3. [config EXCEPT ![t] = Nothing] \in [Tasks -> Configs]
  BY <1>1, NothingTyped
<1>4. /\ todo' \in [Tasks -> Seq(Jobs)] /\ calls' \in [Tasks -> Nat]
      /\ \A u \in Tasks :
           calls'[u] <= IF todo'[u] = <<>> THEN 0 ELSE Len(Keys[Head(todo'[u]).section]) + 1
  <2>0. \A u \in Tasks : calls[u] <= IF todo[u] = <<>> THEN 0 ELSE Len(Keys[Head(todo[u]).section]) + 1
    BY DEF PersistencyTypeOK
  <2>1. CASE Goes(t)
    <3>1. todo' = todo /\ calls' = [calls EXCEPT ![t] = calls[t] + 1] /\ calls[t] <= Len(Keys[Section(t)])
      BY <2>1 DEF Goes
    <3>. QED
      BY <1>1, <1>2, <2>0, <3>1 DEF Section
  <2>2. CASE Ends(t)
    <3>1. calls' = [calls EXCEPT ![t] = 0] /\ todo' = [todo EXCEPT ![t] = Tail(todo[t])]
      BY <2>2 DEF Ends
    <3>2. todo' \in [Tasks -> Seq(Jobs)] /\ calls' \in [Tasks -> Nat]
      BY <1>1, <1>2, <3>1
    <3>3. calls'[t] = 0 /\ \A u \in Tasks \ {t} : calls'[u] = calls[u] /\ todo'[u] = todo[u]
      BY <1>1, <3>1
    <3>4. todo'[t] # <<>> => Len(Keys[Head(todo'[t]).section]) \in Nat
      <4>1. todo'[t] # <<>> => Head(todo'[t]) \in Jobs
        BY <3>2
      <4>. QED
        BY <4>1, KeyFacts DEF Jobs
    <3>. SUFFICES ASSUME NEW u \in Tasks
                  PROVE  calls'[u] <= IF todo'[u] = <<>> THEN 0 ELSE Len(Keys[Head(todo'[u]).section]) + 1
      BY <3>2
    <3>5. CASE u = t
      BY <3>3, <3>4, <3>5
    <3>6. CASE u # t
      BY <2>0, <3>3, <3>6
    <3>. QED
      BY <3>5, <3>6
  <2>. QED
    BY <2>1, <2>2, AccessCases DEF Begins, Gets, Puts
<1>5. flash' \in [Sections -> Configs] /\ opened' \in Sections \cup {Closed} /\ config' \in [Tasks -> Configs]
  <2>1. CASE Begins(t) /\ config' \in {config, [config EXCEPT ![t] = Nothing]}
    BY <1>1, <1>2, <1>3, <2>1 DEF Begins, Begin
  <2>2. CASE Gets(t)
    <3>1. Key(t) \in AllKeys
      BY <1>2, <2>2 DEF Gets
    <3>2. Got(Key(t), Value(Section(t), Key(t), "default")) \in Values \cup {Absent}
      BY <1>1, <1>2, <3>1, ValueTyped DEF Got
    <3>. QED
      BY <1>1, <2>2, <3>1, <3>2 DEF Gets
  <2>3. CASE Puts(t, entered)
    <3>1. Key(t) \in AllKeys
      BY <1>2, <2>3 DEF Puts
    <3>2. /\ Value(Section(t), Key(t), "entered") \in Values \cup {Absent}
          /\ config[t][Key(t)] \in Values \cup {Absent}
      BY <1>1, <1>2, <3>1, ValueTyped
    <3>3. ASSUME NEW v \in Values \cup {Absent}, Put(Key(t), v)
          PROVE  flash' \in [Sections -> Configs] /\ opened' = opened
      BY <1>1, <3>1, <3>3 DEF Put
    <3>. QED
      BY <1>1, <2>3, <3>2, <3>3 DEF Puts
  <2>4. CASE Ends(t)
    BY <1>1, <1>3, <2>4 DEF Ends, End
  <2>. QED
    BY <2>1, <2>2, <2>3, <2>4, AccessCases
<1>. QED
  BY <1>4, <1>5 DEF PersistencyTypeOK

-----------------------------------------------------------------------------
\* ---- A call keeps the invariant ----

\* WebStep and EventStep, as far as saves are concerned.
Calls(t) == /\ Access(t, IF t = "web" THEN form ELSE {})
            /\ UNCHANGED <<request, form, before, overlapped>>

LEMMA OtherTask ==
  ASSUME PersistencyTypeOK, NEW t \in Tasks, NEW entered, Access(t, entered)
  PROVE  \A u \in Tasks \ {t} : todo'[u] = todo[u] /\ calls'[u] = calls[u] /\ config'[u] = config[u]
<1>1. config \in [Tasks -> [AllKeys -> Values \cup {Absent}]] /\ todo \in [Tasks -> Seq(Jobs)] /\ calls \in [Tasks -> Nat]
  BY DEF PersistencyTypeOK
<1>2. CASE Begins(t) /\ config' \in {config, [config EXCEPT ![t] = Nothing]}
  BY <1>1, <1>2 DEF Begins, Goes
<1>3. CASE Gets(t)
  BY <1>1, <1>3 DEF Gets, Goes
<1>4. CASE Puts(t, entered)
  BY <1>1, <1>4 DEF Puts, Goes
<1>5. CASE Ends(t)
  BY <1>1, <1>5 DEF Ends
<1>. QED
  BY <1>2, <1>3, <1>4, <1>5, AccessCases

\* Only the AsyncTCP task stores, and only for a save.
LEMMA OnlySavesStore ==
  ASSUME PersistencyTypeOK, Purposes, NEW t \in Tasks, NEW i \in 1 .. Len(todo[t]), todo[t][i].op = "store"
  PROVE  t = "web" /\ request = "save"
BY TaskFacts DEF Purposes, OnlyLoads

\* A section is stored after it has been loaded.
LEMMA StoresWhatItLoaded ==
  ASSUME PersistencyTypeOK, Purposes, SaveFollows, NEW t \in Tasks, Len(todo[t]) >= 2, todo[t][2].op = "store"
  PROVE  /\ t = "web" /\ request = "save"
         /\ todo[t][1].op = "load" /\ todo[t][1].section = todo[t][2].section
<1>1. todo[t] \in Seq(Jobs) /\ Len(todo[t]) \in Nat /\ 2 \in 1 .. Len(todo[t]) /\ 1 \in 1 .. Len(todo[t])
  BY DEF PersistencyTypeOK
<1>2. t = "web" /\ request = "save"
  BY <1>1, OnlySavesStore
<1>3. /\ todo[t][2] = SaveCalls[Done + 2] /\ todo[t][1] = SaveCalls[Done + 1]
      /\ Done + 2 \in 1 .. Len(SaveCalls)
  <2>1. \A i \in 1 .. Len(todo[t]) : todo[t][i] = SaveCalls[Done + i]
    BY <1>2 DEF SaveFollows
  <2>2. Len(todo[t]) <= Len(SaveCalls) /\ Len(SaveCalls) \in Nat
    BY <1>2, SaveCallsFacts DEF SaveFollows
  <2>3. Done + 2 \in 1 .. Len(SaveCalls)
    BY <1>1, <1>2, <2>2 DEF Done
  <2>. QED
    BY <1>1, <2>1, <2>3
<1>4. Done + 1 = (Done + 2) - 1
  BY <1>1, <1>2, SaveCallsFacts DEF Done
<1>. QED
  BY <1>2, <1>3, <1>4, SaveCallsFacts

LEMMA CallPurposes ==
  ASSUME PersistencyTypeOK, Purposes, NEW t \in Tasks, Calls(t)
  PROVE  Purposes'
<1>1. todo[t] # <<>>
  BY AccessCases DEF Calls
<1>2. todo \in [Tasks -> Seq(Jobs)] /\ UNCHANGED <<request, overlapped>>
  BY DEF PersistencyTypeOK, Calls
<1>3. \A u \in Tasks \ {t} : todo'[u] = todo[u]
  BY OtherTask DEF Calls
<1>4. todo'[t] \in {todo[t], Tail(todo[t])}
  BY <1>2, AccessCases DEF Calls, Begins, Gets, Puts, Goes, Ends
<1>5. \A u \in Tasks : OnlyLoads(u) => OnlyLoads(u)'
  <2>1. OnlyLoads(t) => OnlyLoads(t)'
    <3>1. CASE todo'[t] = todo[t]
      BY <3>1 DEF OnlyLoads
    <3>2. CASE todo'[t] = Tail(todo[t])
      <4>1. /\ Len(todo[t]) \in Nat /\ Len(todo'[t]) = Len(todo[t]) - 1
            /\ \A i \in 1 .. Len(todo[t]) - 1 : todo'[t][i] = todo[t][i + 1]
        BY <1>1, <3>2, TodoFacts
      <4>. QED
        BY <4>1 DEF OnlyLoads
    <3>. QED
      BY <1>4, <3>1, <3>2
  <2>. QED
    BY <1>3, <2>1 DEF OnlyLoads
<1>6. \A u \in Tasks : todo[u] = <<>> => todo'[u] = <<>>
  BY <1>1, <1>3
<1>. QED
  BY <1>2, <1>5, <1>6, TaskFacts DEF Purposes

LEMMA CallFollows ==
  ASSUME PersistencyTypeOK, SaveFollows, NEW t \in Tasks, Calls(t)
  PROVE  SaveFollows'
<1>0. request' = request /\ todo \in [Tasks -> Seq(Jobs)]
  BY DEF Calls, PersistencyTypeOK
<1>1. CASE todo'["web"] = todo["web"]
  BY <1>0, <1>1 DEF SaveFollows, Done
<1>2. CASE t = "web" /\ Ends(t)
  <2>1. /\ todo["web"] # <<>> /\ todo'["web"] = Tail(todo["web"])
    BY <1>0, <1>2, AccessCases DEF Ends, Calls
  <2>2. /\ Len(todo["web"]) \in Nat /\ Len(todo'["web"]) = Len(todo["web"]) - 1
        /\ \A i \in 1 .. Len(todo["web"]) - 1 : todo'["web"][i] = todo["web"][i + 1]
    BY <1>2, <2>1, TodoFacts
  <2>3. ASSUME request = "save"
        PROVE  /\ Len(todo'["web"]) <= Len(SaveCalls)
               /\ \A i \in 1 .. Len(todo'["web"]) : todo'["web"][i] = SaveCalls[Done' + i]
    <3>1. /\ Len(todo["web"]) <= Len(SaveCalls) /\ Len(SaveCalls) \in Nat
          /\ \A i \in 1 .. Len(todo["web"]) : todo["web"][i] = SaveCalls[Done + i]
      BY <2>3, SaveCallsFacts DEF SaveFollows
    <3>2. Done \in Int /\ Done' = Done + 1
      BY <2>2, <3>1 DEF Done
    <3>3. \A i \in 1 .. Len(todo'["web"]) : i + 1 \in 1 .. Len(todo["web"]) /\ Done' + i = Done + (i + 1)
      BY <2>2, <3>2
    <3>4. \A i \in 1 .. Len(todo'["web"]) : todo'["web"][i] = SaveCalls[Done' + i]
      BY <2>2, <3>1, <3>3
    <3>. QED
      BY <2>2, <3>1, <3>4
  <2>. QED
    BY <1>0, <2>3 DEF SaveFollows
<1>. QED
  BY <1>0, <1>1, <1>2, OtherTask, AccessCases, TaskFacts DEF Calls, Begins, Gets, Puts, Goes

\* What is in flash is never empty again.
LEMMA CallStored ==
  ASSUME PersistencyTypeOK, Purposes, ConfigFilled, FieldsStored, NEW t \in Tasks, Calls(t)
  PROVE  /\ FieldsStored'
         /\ Puts(t, IF t = "web" THEN form ELSE {}) \/ flash' = flash
<1>. DEFINE e == IF t = "web" THEN form ELSE {}
<1>0. /\ flash \in [Sections -> [AllKeys -> Values \cup {Absent}]] /\ todo[t] # <<>>
      /\ opened \in Sections \cup {Closed}
  BY AccessCases DEF Calls, PersistencyTypeOK
<1>1. CASE Begins(t) \/ Gets(t) \/ Ends(t)
  BY <1>1 DEF FieldsStored, Begins, Begin, Gets, Ends, End
<1>2. CASE Puts(t, e)
  <2>. DEFINE s == Section(t)
              k == Key(t)
              v == IF <<s, k>> \in e THEN Value(s, k, "entered") ELSE config[t][k]
  <2>1. s \in Sections /\ k \in AllKeys /\ calls[t] \in 1 .. Len(Keys[s]) /\ k = Keys[s][calls[t]]
    BY <1>0, <1>2, TodoFacts DEF Puts, AtKey, Key
  <2>2. config[t][k] # Absent
    BY <1>0, <1>2, <2>1 DEF Puts, ConfigFilled, HasGot
  <2>3. v # Absent
    BY <2>1, <2>2, ValueTyped
  <2>4. flash' = IF opened = Closed THEN flash ELSE [flash EXCEPT ![opened][k] = v]
    BY <1>2 DEF Puts, Put
  <2>5. ASSUME NEW f \in Fields PROVE flash'[f[1]][f[2]] # Absent
    <3>1. flash[f[1]][f[2]] # Absent /\ f[1] \in Sections /\ f[2] \in AllKeys
      BY DEF FieldsStored, Fields
    <3>2. CASE opened = Closed
      BY <2>4, <3>1, <3>2
    <3>3. CASE opened # Closed /\ f[1] = opened /\ f[2] = k
      BY <1>0, <2>1, <2>3, <2>4, <3>1, <3>3
    <3>4. CASE opened # Closed /\ ~(f[1] = opened /\ f[2] = k)
      BY <1>0, <2>1, <2>4, <3>1, <3>4
    <3>. QED
      BY <3>2, <3>3, <3>4
  <2>. QED
    BY <1>2, <2>5 DEF FieldsStored
<1>. QED
  BY <1>1, <1>2, AccessCases DEF Calls

\* A get finds a value, in flash or the default.
LEMMA GotFilled ==
  ASSUME PersistencyTypeOK, NEW t \in Tasks, todo[t] # <<>>, Gets(t)
  PROVE  /\ config'[t][Key(t)] = Got(Key(t), Value(Section(t), Key(t), "default"))
         /\ config'[t][Key(t)] # Absent
         /\ \A k \in AllKeys \ {Key(t)} : config'[t][k] = config[t][k]
<1>1. /\ config \in [Tasks -> [AllKeys -> Values \cup {Absent}]]
      /\ Key(t) \in AllKeys /\ Section(t) \in Sections
  BY TodoFacts DEF PersistencyTypeOK, Gets
<1>2. Got(Key(t), Value(Section(t), Key(t), "default")) # Absent
  BY <1>1, ValueTyped DEF Got
<1>. QED
  BY <1>1, <1>2 DEF Gets

LEMMA CallFilled ==
  ASSUME PersistencyTypeOK, Purposes, SaveFollows, ConfigFilled, NEW t \in Tasks, Calls(t)
  PROVE  ConfigFilled'
<1>. DEFINE e == IF t = "web" THEN form ELSE {}
<1>0. /\ todo[t] # <<>> /\ todo \in [Tasks -> Seq(Jobs)] /\ calls \in [Tasks -> Nat]
      /\ config \in [Tasks -> [AllKeys -> Values \cup {Absent}]]
  BY AccessCases DEF Calls, PersistencyTypeOK
<1>. SUFFICES ASSUME NEW u \in Tasks, todo'[u] # <<>>,
                     NEW n \in 1 .. Len(Keys[Head(todo'[u]).section]),
                     Head(todo'[u]).op = "store" \/ n < calls'[u]
              PROVE  config'[u][Keys[Head(todo'[u]).section][n]] # Absent
  BY DEF ConfigFilled, HasGot, Section
<1>1. ASSUME NEW w \in Tasks, todo[w] # <<>>, NEW m \in 1 .. Len(Keys[Section(w)]),
             Head(todo[w]).op = "store" \/ m < calls[w]
      PROVE  config[w][Keys[Section(w)][m]] # Absent
  BY <1>1 DEF ConfigFilled, HasGot
<1>2. CASE u # t
  BY <1>1, <1>2, OtherTask DEF Calls, Section
<1>3. CASE u = t /\ Goes(t)
  <2>1. todo' = todo /\ calls'[t] = calls[t] + 1 /\ Section(t) \in Sections /\ Head(todo'[u]).section = Section(t)
    BY <1>0, <1>3, TodoFacts DEF Goes, Section
  <2>2. Keys[Section(t)][n] \in AllKeys
    BY <2>1, KeyFacts
  <2>3. CASE Begins(t) /\ Head(todo[t]).op = "load"
    BY <1>0, <1>3, <2>1, <2>3, TodoFacts DEF Begins
  <2>4. CASE config' = config /\ Head(todo[t]).op = "store"
    BY <1>1, <1>3, <2>1, <2>4, <1>0
  <2>5. CASE Gets(t)
    <3>1. CASE Keys[Section(t)][n] = Key(t)
      BY <1>0, <1>3, <2>1, <2>5, <3>1, GotFilled
    <3>2. CASE Keys[Section(t)][n] # Key(t)
      <4>1. n < calls[t]
        BY <1>0, <1>3, <2>1, <2>5, <3>2 DEF Gets, Key
      <4>2. config'[t][Keys[Section(t)][n]] = config[t][Keys[Section(t)][n]]
        BY <1>0, <2>2, <2>5, <3>2, GotFilled
      <4>. QED
        BY <1>0, <1>1, <1>3, <2>1, <4>1, <4>2
    <3>. QED
      BY <3>1, <3>2
  <2>6. Head(todo[t]).op \in {"load", "store"}
    BY <1>0, TodoFacts DEF Jobs
  <2>7. ~ Ends(t)
    BY <1>0, <1>3, TodoFacts DEF Ends, Goes
  <2>. QED
    BY <2>3, <2>4, <2>5, <2>6, <2>7, AccessCases DEF Calls, Puts
<1>4. CASE u = t /\ Ends(t)
  <2>1. todo'[t] = Tail(todo[t]) /\ calls'[t] = 0 /\ calls[t] > Len(Keys[Section(t)])
    BY <1>0, <1>4 DEF Ends
  <2>2. Len(todo[t]) \in Nat /\ Len(todo[t]) >= 2 /\ Head(todo'[t]) = todo[t][2]
    BY <1>0, <1>4, <2>1, TodoFacts
  <2>3. todo[t][2].op = "store"
    BY <1>4, <2>1, <2>2
  <2>4. todo[t][1].op = "load" /\ todo[t][1].section = todo[t][2].section
    BY <2>2, <2>3, StoresWhatItLoaded
  <2>5. Section(t) = todo[t][2].section /\ Section(t) \in Sections /\ Len(Keys[Section(t)]) \in Nat /\ calls[t] \in Nat
    BY <1>0, <2>4, TodoFacts DEF Section
  <2>6. config' = config
    BY <1>4, <2>2 DEF Ends
  <2>7. n \in 1 .. Len(Keys[Section(t)]) /\ n < calls[t]
    BY <1>4, <2>1, <2>2, <2>5
  <2>. QED
    BY <1>0, <1>1, <1>4, <2>2, <2>5, <2>6, <2>7
<1>. QED
  BY <1>2, <1>3, <1>4, AccessCases DEF Calls, Begins, Gets, Puts

LEMMA CallOpen ==
  ASSUME PersistencyTypeOK, Purposes, OpenKnown, NEW t \in Tasks, Calls(t)
  PROVE  OpenKnown'
<1>. DEFINE e == IF t = "web" THEN form ELSE {}
<1>0. /\ todo[t] # <<>> /\ todo \in [Tasks -> Seq(Jobs)] /\ calls \in [Tasks -> Nat]
      /\ UNCHANGED <<request, overlapped>>
  BY AccessCases DEF Calls, PersistencyTypeOK
<1>1. CASE Ends(t)
  <2>1. opened' = Closed /\ calls'[t] = 0
    BY <1>0, <1>1 DEF Ends, End
  <2>2. request = "save" /\ ~overlapped => t = "web"
    BY <1>0, TaskFacts DEF Purposes
  <2>. QED
    BY <1>0, <2>1, <2>2 DEF OpenKnown
<1>2. CASE Goes(t)
  <2>1. todo' = todo /\ calls'[t] = calls[t] + 1 /\ calls[t] \in Nat
    BY <1>0, <1>2 DEF Goes
  <2>2. t = "web" \/ t = "event"
    BY TaskFacts
  <2>3. ASSUME request = "save", ~overlapped
        PROVE  opened' = IF calls'["web"] = 0 THEN Closed ELSE Section("web")'
    <3>1. t = "web" /\ opened = IF calls["web"] = 0 THEN Closed ELSE Section("web")
      BY <1>0, <2>2, <2>3 DEF Purposes, OpenKnown
    <3>2. Section("web")' = Section("web") /\ calls'["web"] # 0
      BY <2>1, <3>1 DEF Section
    <3>3. ~ Ends(t)
      BY <1>0, <1>2, TodoFacts DEF Ends, Goes
    <3>4. CASE Begins(t)
      BY <3>1, <3>2, <3>4 DEF Begins, Begin
    <3>5. CASE Gets(t) \/ Puts(t, e)
      BY <1>0, <3>1, <3>2, <3>5 DEF Gets, Puts, Put, AtKey
    <3>. QED
      BY <3>3, <3>4, <3>5, AccessCases DEF Calls
  <2>. QED
    BY <1>0, <2>1, <2>2, <2>3 DEF OpenKnown
<1>. QED
  BY <1>1, <1>2, AccessCases DEF Calls, Begins, Gets, Puts

LEMMA CallCurrent ==
  ASSUME PersistencyTypeOK, Purposes, SaveFollows, OpenKnown, FieldsStored, ConfigCurrent,
         NEW t \in Tasks, Calls(t)
  PROVE  ConfigCurrent'
<1>. SUFFICES ASSUME request' = "save", ~overlapped', todo'["web"] # <<>>,
                     NEW n \in 1 .. Len(Keys[Head(todo'["web"]).section]),
                     IF Head(todo'["web"]).op = "load" THEN n < calls'["web"] ELSE calls'["web"] <= n
              PROVE  config'["web"][Keys[Head(todo'["web"]).section][n]]
                       = flash'[Head(todo'["web"]).section][Keys[Head(todo'["web"]).section][n]]
  BY DEF ConfigCurrent, Section
<1>0. /\ todo[t] # <<>> /\ todo \in [Tasks -> Seq(Jobs)] /\ calls \in [Tasks -> Nat]
      /\ flash \in [Sections -> [AllKeys -> Values \cup {Absent}]]
      /\ config \in [Tasks -> [AllKeys -> Values \cup {Absent}]]
      /\ UNCHANGED <<request, overlapped>>
  BY AccessCases DEF Calls, PersistencyTypeOK
<1>1. t = "web" /\ request = "save" /\ ~overlapped
  BY <1>0, TaskFacts DEF Purposes
<1>2. opened = IF calls["web"] = 0 THEN Closed ELSE Section("web")
  BY <1>1 DEF OpenKnown
<1>. DEFINE s == Section("web")
<1>3. /\ s \in Sections /\ Len(Keys[s]) \in Nat /\ calls["web"] \in Nat
      /\ Head(todo["web"]).op \in {"load", "store"}
  BY <1>0, <1>1, TodoFacts DEF Jobs
<1>4. \A m \in 1 .. Len(Keys[s]) :
        (IF Head(todo["web"]).op = "load" THEN m < calls["web"] ELSE calls["web"] <= m) =>
          config["web"][Keys[s][m]] = flash[s][Keys[s][m]]
  BY <1>0, <1>1 DEF ConfigCurrent
<1>5. CASE Goes(t)
  <2>1. todo' = todo /\ calls'["web"] = calls["web"] + 1 /\ Head(todo'["web"]).section = s
        /\ n \in 1 .. Len(Keys[s])
    BY <1>0, <1>1, <1>5 DEF Goes, Section
  <2>2. Keys[s][n] \in AllKeys /\ <<s, Keys[s][n]>> \in Fields
    BY <1>3, <2>1, KeyFacts
  <2>3. CASE Begins(t) /\ Head(todo["web"]).op = "load"
    BY <1>1, <1>3, <2>1, <2>3 DEF Begins
  <2>4. CASE Begins(t) /\ Head(todo["web"]).op = "store" /\ config' = config
    BY <1>1, <1>3, <1>4, <2>1, <2>4 DEF Begins, Begin
  <2>5. CASE Gets(t)
    <3>0. flash' = flash /\ Head(todo["web"]).op = "load" /\ calls["web"] \in 1 .. Len(Keys[s])
          /\ Key("web") = Keys[s][calls["web"]]
      BY <1>1, <2>5 DEF Gets, AtKey, Key
    <3>1. CASE Keys[s][n] = Key("web")
      <4>1. opened = s /\ flash[s][Key("web")] # Absent
        BY <1>2, <2>2, <3>0, <3>1 DEF FieldsStored
      <4>2. Got(Key("web"), Value(s, Key("web"), "default")) = flash[s][Key("web")]
        BY <1>3, <4>1, KeysAssumption DEF Got
      <4>. QED
        BY <1>0, <1>1, <2>1, <2>5, <3>0, <3>1, <4>2, GotFilled
    <3>2. CASE Keys[s][n] # Key("web")
      <4>1. config'["web"][Keys[s][n]] = config["web"][Keys[s][n]]
        BY <1>0, <1>1, <2>2, <2>5, <3>2, GotFilled
      <4>2. n < calls["web"]
        BY <1>3, <2>1, <3>0, <3>2
      <4>. QED
        BY <1>4, <2>1, <3>0, <4>1, <4>2
    <3>. QED
      BY <3>1, <3>2
  <2>6. CASE Puts(t, form)
    <3>1. /\ Head(todo["web"]).op = "store" /\ config' = config /\ calls["web"] \in 1 .. Len(Keys[s])
          /\ Key("web") = Keys[s][calls["web"]]
      BY <1>1, <2>6 DEF Puts, AtKey, Key
    <3>2. calls["web"] <= n /\ n # calls["web"]
      BY <1>3, <2>1, <3>1
    <3>3. Keys[s][n] # Key("web")
      BY <1>3, <2>1, <3>1, <3>2, KeyFacts
    <3>4. flash'[s][Keys[s][n]] = flash[s][Keys[s][n]]
      BY <1>0, <1>1, <1>3, <2>2, <2>6, <3>3 DEF Puts, Put
    <3>. QED
      BY <1>4, <2>1, <3>1, <3>2, <3>4
  <2>7. ~ Ends(t)
    BY <1>0, <1>5, TodoFacts DEF Ends, Goes
  <2>. QED
    BY <1>1, <1>3, <2>3, <2>4, <2>5, <2>6, <2>7, AccessCases DEF Calls
<1>6. CASE Ends(t)
  <2>1. todo'["web"] = Tail(todo["web"]) /\ calls'["web"] = 0 /\ calls["web"] > Len(Keys[s]) /\ flash' = flash
    BY <1>0, <1>1, <1>6 DEF Ends, End
  <2>2. Len(todo["web"]) \in Nat /\ Len(todo["web"]) >= 2 /\ Head(todo'["web"]) = todo["web"][2]
        /\ Head(todo["web"]) = todo["web"][1] /\ todo["web"][2] \in Jobs
    BY <1>0, <1>1, <2>1, TodoFacts
  <2>3. todo["web"][2].op = "store"
    BY <2>1, <2>2 DEF Jobs
  <2>4. todo["web"][1].op = "load" /\ todo["web"][1].section = todo["web"][2].section
    BY <2>2, <2>3, TaskFacts, StoresWhatItLoaded
  <2>5. s = todo["web"][2].section /\ config' = config
    BY <1>1, <1>6, <2>2, <2>4 DEF Section, Ends
  <2>6. n \in 1 .. Len(Keys[s]) /\ n < calls["web"]
    BY <1>3, <2>1, <2>2, <2>5
  <2>. QED
    BY <1>4, <2>1, <2>2, <2>4, <2>5, <2>6
<1>. QED
  BY <1>5, <1>6, AccessCases DEF Calls, Begins, Gets, Puts

LEMMA CallInOrder ==
  ASSUME PersistencyTypeOK, SaveInv, NEW t \in Tasks, Calls(t)
  PROVE  SaveInOrder'
<1>. SUFFICES ASSUME request' = "save", ~overlapped', NEW f \in Sections \X AllKeys
              PROVE  flash'[f[1]][f[2]] = IF f \in form' /\ ~PutAhead(f)' THEN Value(f[1], f[2], "entered")
                                                                         ELSE before'[f[1]][f[2]]
  BY DEF SaveInOrder
<1>0. /\ todo[t] # <<>> /\ todo \in [Tasks -> Seq(Jobs)] /\ calls \in [Tasks -> Nat]
      /\ flash \in [Sections -> [AllKeys -> Values \cup {Absent}]]
      /\ UNCHANGED <<request, form, before, overlapped>>
  BY AccessCases DEF Calls, PersistencyTypeOK
<1>1. t = "web" /\ request = "save" /\ ~overlapped
  BY <1>0, TaskFacts DEF SaveInv, Purposes
<1>2. flash[f[1]][f[2]] = IF f \in form /\ ~PutAhead(f) THEN Value(f[1], f[2], "entered") ELSE before[f[1]][f[2]]
  BY <1>1 DEF SaveInv, SaveInOrder
<1>. DEFINE s == Section("web")
<1>3. /\ s \in Sections /\ Len(Keys[s]) \in Nat /\ calls["web"] \in Nat /\ Len(todo["web"]) \in Nat
      /\ Head(todo["web"]) = todo["web"][1] /\ Len(todo["web"]) >= 1 /\ Head(todo["web"]) \in Jobs
  BY <1>0, <1>1, TodoFacts
<1>4. /\ f[1] \in Sections /\ f[2] \in AllKeys /\ f = <<f[1], f[2]>>
      /\ Len(Keys[f[1]]) \in Nat /\ DOMAIN Keys[f[1]] = 1 .. Len(Keys[f[1]])
  BY KeyFacts
<1>5. Store(f[1]).section = f[1] /\ Store(f[1]).op = "store"
  BY <1>4, JobFacts
\* What is still to be put changes with a put only.
<1>6. ASSUME todo' = todo, calls'["web"] = calls["web"] + 1,
             \A n \in 1 .. Len(Keys[s]) : Head(todo["web"]) = Store(f[1]) /\ Keys[s][n] = f[2] => n # calls["web"]
      PROVE  PutAhead(f)' = PutAhead(f)
  <2>1. \A i \in DOMAIN todo["web"], n \in DOMAIN Keys[f[1]] :
          todo["web"][i] = Store(f[1]) /\ Keys[f[1]][n] = f[2] =>
            ((i > 1 \/ calls["web"] <= n) <=> (i > 1 \/ calls'["web"] <= n))
    <3>. SUFFICES ASSUME NEW i \in DOMAIN todo["web"], NEW n \in DOMAIN Keys[f[1]],
                         todo["web"][i] = Store(f[1]), Keys[f[1]][n] = f[2], ~(i > 1)
                  PROVE  calls["web"] <= n <=> calls["web"] + 1 <= n
      BY <1>6
    <3>1. i = 1 /\ f[1] = s /\ n \in 1 .. Len(Keys[s])
      BY <1>0, <1>3, <1>4, <1>5, TaskFacts DEF Section
    <3>. QED
      BY <1>3, <1>6, <3>1
  <2>. QED
    BY <1>6, <2>1 DEF PutAhead
<1>7. CASE Goes(t) /\ ~Puts(t, form)
  <2>1. todo' = todo /\ calls'["web"] = calls["web"] + 1
    BY <1>0, <1>1, <1>7 DEF Goes
  <2>2. flash' = flash
    BY <1>1, <1>7, CallStored DEF SaveInv
  <2>3. CASE Begins(t)
    <3>1. \A n \in 1 .. Len(Keys[s]) : n # calls["web"]
      BY <1>1, <2>3 DEF Begins
    <3>. QED
      BY <1>0, <1>2, <1>6, <2>1, <2>2, <3>1
  <2>4. CASE Gets(t)
    <3>1. Head(todo["web"]) # Store(f[1])
      BY <1>1, <1>5, <2>4 DEF Gets
    <3>. QED
      BY <1>0, <1>2, <1>6, <2>1, <2>2, <3>1
  <2>5. ~ Ends(t)
    BY <1>0, <1>1, <1>3, <1>7 DEF Ends, Goes
  <2>. QED
    BY <1>1, <1>7, <2>3, <2>4, <2>5, AccessCases DEF Calls
<1>8. CASE Puts(t, form)
  <2>. DEFINE k == Key("web")
              v == IF <<s, k>> \in form THEN Value(s, k, "entered") ELSE config["web"][k]
  <2>1. /\ todo' = todo /\ calls'["web"] = calls["web"] + 1 /\ Head(todo["web"]).op = "store"
        /\ calls["web"] \in 1 .. Len(Keys[s]) /\ k = Keys[s][calls["web"]] /\ k \in AllKeys
    BY <1>0, <1>1, <1>3, <1>8, KeyFacts DEF Puts, Goes, AtKey, Key
  <2>2. opened = s /\ opened # Closed
    BY <1>1, <1>3, <2>1, KeysAssumption DEF SaveInv, OpenKnown
  <2>3. flash' = [flash EXCEPT ![s][k] = v]
    BY <1>1, <1>8, <2>2 DEF Puts, Put
  <2>4. CASE f = <<s, k>>
    <3>1. flash'[f[1]][f[2]] = v
      BY <1>0, <1>3, <2>1, <2>3, <2>4
    <3>2. ~PutAhead(f)'
      <4>. SUFFICES ASSUME NEW i \in DOMAIN todo["web"], NEW n \in DOMAIN Keys[f[1]],
                           todo["web"][i] = Store(f[1]), Keys[f[1]][n] = f[2],
                           i > 1 \/ calls["web"] + 1 <= n
                    PROVE  FALSE
        BY <2>1 DEF PutAhead
      <4>1. todo["web"][1] = todo["web"][i] /\ todo["web"][1].op = "store"
        BY <1>3, <1>5, <2>1, <2>4 DEF Section, Store, Jobs
      <4>2. i \in 1 .. Len(todo["web"]) /\ 1 \in 1 .. Len(todo["web"])
        BY <1>0, <1>3, TaskFacts
      <4>3. /\ todo["web"][1] = SaveCalls[Done + 1] /\ todo["web"][i] = SaveCalls[Done + i]
            /\ Done + 1 \in 1 .. Len(SaveCalls) /\ Done + i \in 1 .. Len(SaveCalls)
        <5>1. \A j \in 1 .. Len(todo["web"]) : todo["web"][j] = SaveCalls[Done + j]
          BY <1>1 DEF SaveInv, SaveFollows
        <5>2. Len(todo["web"]) <= Len(SaveCalls) /\ Len(SaveCalls) \in Nat
          BY <1>1, SaveCallsFacts DEF SaveInv, SaveFollows
        <5>3. \A j \in 1 .. Len(todo["web"]) : Done + j \in 1 .. Len(SaveCalls)
          BY <1>3, <5>2 DEF Done
        <5>. QED
          BY <4>2, <5>1, <5>3
      <4>4. Done + 1 = Done + i
        BY <4>1, <4>3, SaveCallsFacts
      <4>5. i = 1
        <5>1. Done \in Int
          BY <1>3, SaveCallsFacts DEF Done
        <5>. QED
          BY <4>2, <4>4, <5>1
      <4>6. n = calls["web"]
        BY <1>3, <1>4, <2>1, <2>4, KeyFacts
      <4>. QED
        BY <2>1, <4>5, <4>6
    <3>3. CASE f \in form
      BY <1>0, <2>4, <3>1, <3>2, <3>3
    <3>4. CASE f \notin form
      <4>1. config["web"][k] = flash[s][k]
        BY <1>0, <1>1, <1>3, <2>1 DEF SaveInv, ConfigCurrent
      <4>. QED
        BY <1>0, <1>2, <2>4, <3>1, <3>4, <4>1
    <3>. QED
      BY <3>3, <3>4
  <2>5. CASE f # <<s, k>>
    <3>1. flash'[f[1]][f[2]] = flash[f[1]][f[2]]
      BY <1>0, <1>3, <1>4, <2>1, <2>3, <2>5
    <3>2. \A n \in 1 .. Len(Keys[s]) : Head(todo["web"]) = Store(f[1]) /\ Keys[s][n] = f[2] => n # calls["web"]
      BY <1>4, <1>5, <2>1, <2>5 DEF Section
    <3>. QED
      BY <1>0, <1>2, <1>6, <2>1, <3>1, <3>2
  <2>. QED
    BY <2>4, <2>5
<1>9. CASE Ends(t)
  <2>1. /\ todo'["web"] = Tail(todo["web"]) /\ calls'["web"] = 0 /\ calls["web"] > Len(Keys[s]) /\ flash' = flash
        /\ Len(todo'["web"]) = Len(todo["web"]) - 1
        /\ \A i \in 1 .. Len(todo["web"]) - 1 : todo'["web"][i] = todo["web"][i + 1]
        /\ DOMAIN todo'["web"] = 1 .. Len(todo["web"]) - 1
    BY <1>0, <1>1, <1>3, <1>9, TodoFacts DEF Ends, End
  <2>2. PutAhead(f) => PutAhead(f)'
    <3>. SUFFICES ASSUME NEW i \in DOMAIN todo["web"], NEW n \in DOMAIN Keys[f[1]],
                         todo["web"][i] = Store(f[1]), Keys[f[1]][n] = f[2], i > 1 \/ calls["web"] <= n
                  PROVE  PutAhead(f)'
      BY DEF PutAhead
    <3>1. i \in 1 .. Len(todo["web"])
      BY <1>0, TaskFacts
    <3>2. i > 1
      BY <1>3, <1>4, <1>5, <2>1, <3>1 DEF Section
    <3>3. i - 1 \in DOMAIN todo'["web"] /\ todo'["web"][i - 1] = todo["web"][i]
      BY <1>3, <2>1, <3>1, <3>2
    <3>4. calls'["web"] <= n
      BY <1>4, <2>1
    <3>. QED
      BY <3>3, <3>4 DEF PutAhead
  <2>3. PutAhead(f)' => PutAhead(f)
    <3>. SUFFICES ASSUME NEW i \in DOMAIN todo'["web"], NEW n \in DOMAIN Keys[f[1]],
                         todo'["web"][i] = Store(f[1]), Keys[f[1]][n] = f[2]
                  PROVE  PutAhead(f)
      BY DEF PutAhead
    <3>1. i + 1 \in DOMAIN todo["web"] /\ todo["web"][i + 1] = Store(f[1]) /\ i + 1 > 1
      BY <1>0, <1>3, <2>1, TaskFacts
    <3>. QED
      BY <3>1 DEF PutAhead
  <2>. QED
    BY <1>0, <1>2, <2>1, <2>2, <2>3
<1>. QED
  BY <1>1, <1>7, <1>8, <1>9, AccessCases DEF Calls, Begins, Gets, Puts

LEMMA CallKeeps ==
  ASSUME PersistencyTypeOK, SaveInv, NEW t \in Tasks, Calls(t)
  PROVE  PersistencyTypeOK' /\ SaveInv'
<1>1. PersistencyTypeOK'
  BY AccessType DEF Calls
<1>2. Purposes' /\ SaveFollows' /\ OpenKnown'
  BY CallPurposes, CallFollows, CallOpen DEF SaveInv
<1>3. FieldsStored' /\ ConfigFilled' /\ ConfigCurrent'
  BY CallStored, CallFilled, CallCurrent DEF SaveInv
<1>. QED
  BY <1>1, <1>2, <1>3, CallInOrder DEF SaveInv

-----------------------------------------------------------------------------
\* ---- The other steps keep it too ----

\* What no other task and no request disturbs.
SaveKeeps == UNCHANGED <<persistency_vars, request, form, before, overlapped>>

LEMMA Undisturbed == SaveInv /\ SaveKeeps => SaveInv'
<1>. SUFFICES ASSUME SaveInv, SaveKeeps PROVE SaveInv'
  OBVIOUS
<1>1. UNCHANGED <<flash, opened, config, todo, calls, request, form, before, overlapped>>
  BY DEF SaveKeeps, persistency_vars
<1>2. Purposes' /\ SaveFollows'
  BY <1>1 DEF SaveInv, Purposes, OnlyLoads, SaveFollows, Done
<1>3. OpenKnown' /\ FieldsStored' /\ ConfigFilled' /\ ConfigCurrent'
  BY <1>1 DEF SaveInv, OpenKnown, FieldsStored, ConfigFilled, HasGot, ConfigCurrent, Section
<1>4. SaveInOrder'
  BY <1>1 DEF SaveInv, SaveInOrder, PutAhead
<1>. QED
  BY <1>2, <1>3, <1>4 DEF SaveInv

\* While nothing is saved, the other half of the invariant says nothing.
LEMMA NotSaving ==
  ASSUME request' # "save", Purposes', FieldsStored', ConfigFilled',
         todo'["web"] = <<>> /\ todo'["event"] = <<>> => opened' = Closed
  PROVE  SaveInv'
BY DEF SaveInv, SaveFollows, OpenKnown, ConfigCurrent, SaveInOrder

\* The response to a request.
LEMMA RespondKeeps ==
  ASSUME SaveInv, todo["web"] = <<>>, request' = "none", UNCHANGED persistency_vars
  PROVE  SaveInv'
<1>1. UNCHANGED <<flash, opened, config, todo, calls>>
  BY DEF persistency_vars
<1>2. todo'["web"] = <<>> /\ OnlyLoads("web")'
  BY <1>1 DEF OnlyLoads
<1>3. Purposes'
  BY <1>1, <1>2 DEF SaveInv, Purposes, OnlyLoads
<1>4. FieldsStored' /\ ConfigFilled'
  BY <1>1 DEF SaveInv, FieldsStored, ConfigFilled, HasGot, Section
<1>. QED
  BY <1>1, <1>3, <1>4, NotSaving DEF SaveInv, OpenKnown

\* A task that has nothing to do is given a sequence of sections, the first to be loaded.
Given(t, jobs) == todo' = [todo EXCEPT ![t] = jobs] /\ UNCHANGED <<flash, opened, config, calls>>

LEMMA GivenKeeps ==
  ASSUME PersistencyTypeOK, NEW t \in Tasks, NEW jobs \in Seq(Jobs), todo[t] = <<>>, Given(t, jobs),
         jobs # <<>> => jobs[1].op = "load"
  PROVE  /\ PersistencyTypeOK'
         /\ todo'[t] = jobs /\ calls'[t] = 0 /\ \A u \in Tasks \ {t} : todo'[u] = todo[u]
         /\ ConfigFilled => ConfigFilled'
         /\ FieldsStored => FieldsStored'
<1>1. todo \in [Tasks -> Seq(Jobs)] /\ calls \in [Tasks -> Nat] /\ calls[t] = 0
  BY DEF PersistencyTypeOK
<1>2. todo'[t] = jobs /\ calls' = calls /\ \A u \in Tasks \ {t} : todo'[u] = todo[u]
  BY <1>1 DEF Given
<1>3. jobs # <<>> => Head(jobs) = jobs[1] /\ Head(jobs) \in Jobs /\ Len(Keys[Head(jobs).section]) \in Nat
  <2>1. jobs # <<>> => Head(jobs) = jobs[1] /\ Head(jobs) \in Jobs
    OBVIOUS
  <2>. QED
    BY <2>1, KeyFacts DEF Jobs
<1>4. PersistencyTypeOK'
  <2>1. todo' \in [Tasks -> Seq(Jobs)]
    BY <1>1 DEF Given
  <2>2. ASSUME NEW u \in Tasks
        PROVE  calls'[u] <= IF todo'[u] = <<>> THEN 0 ELSE Len(Keys[Head(todo'[u]).section]) + 1
    <3>1. CASE u = t
      BY <1>1, <1>2, <1>3, <3>1
    <3>2. CASE u # t
      BY <1>2, <3>2 DEF PersistencyTypeOK
    <3>. QED
      BY <3>1, <3>2
  <2>. QED
    BY <2>1, <2>2 DEF PersistencyTypeOK, Given
<1>5. ConfigFilled => ConfigFilled'
  <2>. SUFFICES ASSUME ConfigFilled, NEW u \in Tasks, todo'[u] # <<>>,
                       NEW n \in 1 .. Len(Keys[Head(todo'[u]).section]),
                       Head(todo'[u]).op = "store" \/ n < calls'[u]
                PROVE  config'[u][Keys[Head(todo'[u]).section][n]] # Absent
    BY DEF ConfigFilled, HasGot, Section
  <2>1. u # t
    BY <1>1, <1>2, <1>3
  <2>. QED
    BY <1>2, <2>1 DEF ConfigFilled, HasGot, Section, Given
<1>6. FieldsStored => FieldsStored'
  BY DEF FieldsStored, Given
<1>. QED
  BY <1>1, <1>2, <1>4, <1>5, <1>6

LEMMA LinkUpKeeps ==
  ASSUME PersistencyTypeOK, SaveInv, LinkUp
  PROVE  PersistencyTypeOK' /\ SaveInv'
<1>. DEFINE jobs == <<Load("ota")>>
<1>1. Load("ota") \in Jobs /\ Load("ota").op = "load"
  BY JobFacts, WebServerAssumption
<1>2. jobs \in Seq(Jobs) /\ jobs # <<>> /\ jobs[1].op = "load" /\ \A i \in 1 .. Len(jobs) : jobs[i].op = "load"
  BY <1>1
<1>3. /\ todo["event"] = <<>> /\ Given("event", jobs)
      /\ UNCHANGED <<request, form, before>> /\ overlapped' = (overlapped \/ request = "save")
  BY DEF LinkUp, Given
<1>4. /\ PersistencyTypeOK' /\ FieldsStored' /\ ConfigFilled'
      /\ todo'["event"] = jobs /\ todo'["web"] = todo["web"]
  BY <1>2, <1>3, GivenKeeps, TaskFacts DEF SaveInv
<1>5. Purposes'
  BY <1>2, <1>3, <1>4 DEF SaveInv, Purposes, OnlyLoads
<1>6. request' = "save" => overlapped'
  BY <1>3
<1>7. SaveFollows'
  BY <1>3, <1>4 DEF SaveInv, SaveFollows, Done
<1>. QED
  BY <1>2, <1>4, <1>5, <1>6, <1>7 DEF SaveInv, OpenKnown, ConfigCurrent, SaveInOrder

LEMMA OrdersLoad ==
  ASSUME NEW order \in Seq(Sections)
  PROVE  /\ Loads(order) \in Seq(Jobs)
         /\ \A i \in 1 .. Len(Loads(order)) : Loads(order)[i].op = "load"
         /\ Loads(order) # <<>> => Loads(order)[1].op = "load"
<1>1. /\ Loads(order) \in Seq(Jobs) /\ Len(Loads(order)) = Len(order)
      /\ \A i \in 1 .. Len(order) : Loads(order)[i].op = "load"
  BY LoadsFacts, JobFacts
<1>. QED
  BY <1>1

\* A request that only loads: HandleConfig and HandleLoginPost.
LEMMA LoadingKeeps ==
  ASSUME PersistencyTypeOK, SaveInv, request = "none", request' \in {"login", "config"},
         NEW jobs \in Seq(Jobs), \A i \in 1 .. Len(jobs) : jobs[i].op = "load",
         jobs # <<>> => jobs[1].op = "load", Given("web", jobs)
  PROVE  PersistencyTypeOK' /\ SaveInv'
<1>1. todo["web"] = <<>>
  BY DEF SaveInv, Purposes
<1>2. /\ PersistencyTypeOK' /\ FieldsStored' /\ ConfigFilled'
      /\ todo'["web"] = jobs /\ todo'["event"] = todo["event"] /\ opened' = opened
  BY <1>1, GivenKeeps, TaskFacts DEF SaveInv, Given
<1>3. Purposes'
  BY <1>2 DEF SaveInv, Purposes, OnlyLoads
<1>4. todo'["web"] = <<>> /\ todo'["event"] = <<>> => opened' = Closed
  BY <1>1, <1>2 DEF SaveInv, OpenKnown
<1>. QED
  BY <1>2, <1>3, <1>4, NotSaving

LEMMA HandleSaveKeeps ==
  ASSUME PersistencyTypeOK, SaveInv, NEW t \in Tokens, HandleSave(t)
  PROVE  PersistencyTypeOK' /\ SaveInv'
<1>1. SaveCalls \in Seq(Jobs) /\ Len(SaveCalls) \in Nat
  BY SaveCallsFacts
<1>2. SaveCalls # <<>> => SaveCalls[1].op = "load"
  <2>0. \A c \in Seq(Jobs) : c # <<>> => 1 \in 1 .. Len(c) /\ c[1] \in Jobs
    OBVIOUS
  <2>1. SaveCalls # <<>> => 1 \in 1 .. Len(SaveCalls) /\ SaveCalls[1].op \in {"load", "store"}
    BY <1>1, <2>0 DEF Jobs
  <2>. QED
    BY <2>1, SaveCallsFacts
<1>3. /\ request = "none" /\ request' = "save" /\ Given("web", SaveCalls)
      /\ form' \in Forms /\ before' = flash /\ flash' = flash /\ overlapped' = (todo["event"] # <<>>)
  BY DEF HandleSave, Arrives, Given
<1>4. todo["web"] = <<>>
  BY <1>3 DEF SaveInv, Purposes
<1>5. /\ PersistencyTypeOK' /\ FieldsStored' /\ ConfigFilled'
      /\ todo'["web"] = SaveCalls /\ todo'["event"] = todo["event"] /\ calls'["web"] = 0 /\ opened' = opened
  BY <1>1, <1>2, <1>3, <1>4, GivenKeeps, TaskFacts DEF SaveInv, Given
<1>6. Purposes'
  BY <1>3, <1>5 DEF SaveInv, Purposes, OnlyLoads
<1>7. SaveFollows'
  <2>1. Done' = 0
    BY <1>1, <1>5 DEF Done
  <2>. QED
    BY <1>1, <1>5, <2>1 DEF SaveFollows
<1>8. OpenKnown'
  BY <1>3, <1>4, <1>5 DEF SaveInv, OpenKnown
<1>9. ConfigCurrent'
  <2>. SUFFICES ASSUME todo'["web"] # <<>>, NEW n \in 1 .. Len(Keys[Section("web")'])
                PROVE  ~(IF Head(todo'["web"]).op = "load" THEN n < calls'["web"] ELSE calls'["web"] <= n)
    BY DEF ConfigCurrent
  <2>1. Head(todo'["web"]).op = "load"
    BY <1>1, <1>2, <1>5
  <2>. QED
    BY <1>5, <2>1
<1>10. SaveInOrder'
  <2>. SUFFICES ASSUME NEW f \in form' PROVE PutAhead(f)'
    BY <1>3 DEF SaveInOrder
  <2>1. f[1] \in Sections /\ f[2] \in Range(Keys[f[1]])
    BY <1>3, WebServerAssumption DEF Fields
  <2>2. PICK n \in DOMAIN Keys[f[1]] : Keys[f[1]][n] = f[2]
    BY <2>1 DEF Range
  <2>3. PICK i \in 2 .. Len(SaveCalls) : SaveCalls[i] = Store(f[1])
    BY <2>1, SaveCallsFacts
  <2>4. i \in DOMAIN todo'["web"] /\ todo'["web"][i] = Store(f[1]) /\ i > 1
    BY <1>1, <1>5, <2>3
  <2>. QED
    BY <2>2, <2>4 DEF PutAhead
<1>. QED
  BY <1>5, <1>6, <1>7, <1>8, <1>9, <1>10 DEF SaveInv

LEMMA BootKeeps ==
  ASSUME PersistencyTypeOK, SaveInv, Boot
  PROVE  PersistencyTypeOK' /\ SaveInv'
<1>1. /\ opened' = Closed /\ config' = [t \in Tasks |-> Nothing] /\ todo' = [t \in Tasks |-> <<>>]
      /\ calls' = [t \in Tasks |-> 0] /\ request' = "none" /\ flash' = flash
  BY DEF Boot
<1>2. \A t \in Tasks : todo'[t] = <<>> /\ calls'[t] = 0
  BY <1>1
<1>3. PersistencyTypeOK'
  <2>1. /\ todo' \in [Tasks -> Seq(Jobs)] /\ calls' \in [Tasks -> Nat]
        /\ config' \in [Tasks -> [AllKeys -> Values \cup {Absent}]]
    BY <1>1, NothingTyped
  <2>. QED
    BY <1>1, <1>2, <2>1 DEF PersistencyTypeOK
<1>4. Purposes' /\ ConfigFilled' /\ FieldsStored'
  BY <1>1, <1>2, TaskFacts DEF SaveInv, Purposes, OnlyLoads, ConfigFilled, FieldsStored
<1>. QED
  BY <1>1, <1>3, <1>4, NotSaving

LEMMA InitSave == Init => PersistencyTypeOK /\ SaveInv
<1>. SUFFICES ASSUME Init PROVE PersistencyTypeOK /\ SaveInv
  OBVIOUS
<1>1. /\ flash = [s \in Sections |-> [k \in AllKeys |-> IF <<s, k>> \in Fields THEN Value(s, k, "stored") ELSE Absent]]
      /\ opened = Closed /\ config = [t \in Tasks |-> Nothing] /\ todo = [t \in Tasks |-> <<>>]
      /\ calls = [t \in Tasks |-> 0] /\ request = "none"
  BY DEF Init
<1>2. \A t \in Tasks : todo[t] = <<>> /\ calls[t] = 0
  BY <1>1
<1>3. \A s \in Sections, k \in AllKeys : Value(s, k, "stored") \in Values /\ Value(s, k, "stored") # Absent
  BY ValueTyped
<1>4. PersistencyTypeOK
  <2>1. /\ todo \in [Tasks -> Seq(Jobs)] /\ calls \in [Tasks -> Nat]
        /\ config \in [Tasks -> [AllKeys -> Values \cup {Absent}]]
    BY <1>1, NothingTyped
  <2>2. flash \in [Sections -> [AllKeys -> Values \cup {Absent}]]
    BY <1>1, <1>3
  <2>. QED
    BY <1>1, <1>2, <2>1, <2>2 DEF PersistencyTypeOK
<1>5. FieldsStored
  <2>. SUFFICES ASSUME NEW f \in Fields PROVE flash[f[1]][f[2]] # Absent
    BY DEF FieldsStored
  <2>1. f[1] \in Sections /\ f[2] \in AllKeys /\ f = <<f[1], f[2]>>
    BY DEF Fields
  <2>. QED
    BY <1>1, <1>3, <2>1
<1>6. Purposes /\ ConfigFilled
  BY <1>1, <1>2, TaskFacts DEF Purposes, OnlyLoads, ConfigFilled
<1>. QED
  BY <1>1, <1>4, <1>5, <1>6 DEF SaveInv, SaveFollows, OpenKnown, ConfigCurrent, SaveInOrder

LEMMA NextSave ==
  ASSUME PersistencyTypeOK, SaveInv, [Next]_vars
  PROVE  PersistencyTypeOK' /\ SaveInv'
<1>1. ASSUME SaveKeeps PROVE PersistencyTypeOK' /\ SaveInv'
  BY <1>1, Undisturbed DEF SaveKeeps, persistency_vars, PersistencyTypeOK
<1>2. ASSUME todo["web"] = <<>>, request' = "none", UNCHANGED persistency_vars
      PROVE  PersistencyTypeOK' /\ SaveInv'
  BY <1>2, RespondKeeps DEF persistency_vars, PersistencyTypeOK
<1>3. CASE LinkUp
  BY <1>3, LinkUpKeeps
<1>4. CASE EventStep
  BY <1>4, CallKeeps, TaskFacts DEF EventStep, Calls, save_vars
<1>5. CASE WebStep
  BY <1>5, CallKeeps, TaskFacts DEF WebStep, Calls, save_vars
<1>6. CASE LinkDown \/ HandleRestart \/ LoopScans \/ LoopRemovesExpired \/ Tick
  BY <1>1, <1>6 DEF LinkDown, HandleRestart, LoopScans, LoopRemovesExpired, Tick, save_vars, SaveKeeps
<1>7. ASSUME NEW t \in Tokens, HandlePage(t) \/ HandleLogout(t) \/ HandleOtaRequest(t)
      PROVE  PersistencyTypeOK' /\ SaveInv'
  BY <1>1, <1>7 DEF HandlePage, HandleLogout, HandleOtaRequest, save_vars, SaveKeeps
<1>8. ASSUME NEW t \in Tokens, HandleConfig(t)
      PROVE  PersistencyTypeOK' /\ SaveInv'
  <2>1. /\ request = "none" /\ request' = "config" /\ Given("web", Loads(SaveOrder))
    BY <1>8 DEF HandleConfig, Arrives, Given
  <2>. QED
    BY <2>1, OrderFacts, OrdersLoad, LoadingKeeps
<1>9. ASSUME NEW t \in Tokens, HandleSave(t)
      PROVE  PersistencyTypeOK' /\ SaveInv'
  BY <1>9, HandleSaveKeeps
<1>10. CASE HandleLoginPost
  <2>1. /\ request = "none" /\ request' = "login" /\ Given("web", <<Load("webserver")>>)
    BY <1>10 DEF HandleLoginPost, Arrives, Given
  <2>2. Load("webserver") \in Jobs /\ Load("webserver").op = "load"
    BY JobFacts, WebServerAssumption
  <2>3. /\ <<Load("webserver")>> \in Seq(Jobs) /\ <<Load("webserver")>>[1].op = "load"
        /\ \A i \in 1 .. Len(<<Load("webserver")>>) : <<Load("webserver")>>[i].op = "load"
    BY <2>2
  <2>. QED
    BY <2>1, <2>3, LoadingKeeps
<1>11. CASE LoginSucceeds \/ LoginFails \/ ConfigShown \/ Saved
  BY <1>2, <1>11 DEF LoginSucceeds, LoginFails, ConfigShown, Saved, Respond
<1>12. CASE LoopRestarts \/ Panic
  BY <1>12, BootKeeps DEF LoopRestarts, Panic
<1>13. CASE UNCHANGED vars
  BY <1>1, <1>13 DEF vars, save_vars, SaveKeeps
<1>. QED
  BY <1>3, <1>4, <1>5, <1>6, <1>7, <1>8, <1>9, <1>10, <1>11, <1>12, <1>13 DEF Next

-----------------------------------------------------------------------------
\* ---- The theorems ----

LEMMA InitInv == Init => IInv
<1>. SUFFICES ASSUME Init PROVE IInv
  OBVIOUS
<1>1. PersistencyTypeOK /\ SaveInv
  BY InitSave
<1>2. 0 \in 0 .. Wrap - 1 /\ 0 \in 0 .. SessionTimeout /\ 0 \in 0 .. RestartDelay /\ 0 \in 0 .. MaxSaves /\ 0 \in 0 .. MaxFlaps
      /\ 0 \in 0 .. LoopPause
  BY TimeFacts, WebServerAssumption
<1>3. before \in [Sections -> [AllKeys -> Values \cup {Absent}]]
  BY <1>1 DEF Init, PersistencyTypeOK
<1>4. TypeOK
  BY <1>1, <1>2, <1>3 DEF Init, TypeOK
<1>5. RestartInv /\ SessionInv
  BY TimeFacts DEF Init, RestartInv, SessionInv
<1>. QED
  BY <1>1, <1>4, <1>5 DEF IInv

LEMMA NextType ==
  ASSUME IInv, [Next]_vars
  PROVE  TypeOK'
<1>. DEFINE rest == /\ request \in {"none", "login", "config", "save"} /\ form \subseteq Fields
                    /\ before \in [Sections -> [AllKeys -> Values \cup {Absent}]]
                    /\ saves \in 0 .. MaxSaves /\ flaps \in 0 .. MaxFlaps
            flags == raced \in BOOLEAN /\ overlapped \in BOOLEAN /\ link \in BOOLEAN /\ reachable \in BOOLEAN
<1>0. TypeOK /\ SaveInv /\ Clocked
  BY TypeOKClocked DEF IInv
<1>1. PersistencyTypeOK /\ rest /\ flags
  BY <1>0 DEF TypeOK
<1>2. PersistencyTypeOK' /\ Clocked'
  BY <1>0, <1>1, NextSave, NextClocked
<1>3. flash \in [Sections -> [AllKeys -> Values \cup {Absent}]] /\ MaxSaves \in Nat /\ MaxFlaps \in Nat
      /\ \A f \in Forms : f \subseteq Fields
  BY <1>1, WebServerAssumption DEF PersistencyTypeOK
<1>4. rest'
  <2>1. CASE LinkUp \/ EventStep \/ WebStep \/ LinkDown
    BY <1>1, <1>3, <2>1 DEF LinkUp, EventStep, WebStep, LinkDown, save_vars, link_vars
  <2>2. CASE HandleRestart \/ LoopScans \/ LoopRemovesExpired \/ Tick \/ HandleLoginPost
    BY <1>1, <2>2 DEF HandleRestart, LoopScans, LoopRemovesExpired, Tick, HandleLoginPost, save_vars, link_vars
  <2>3. CASE LoginSucceeds \/ LoginFails \/ ConfigShown
    BY <1>1, <2>3 DEF LoginSucceeds, LoginFails, ConfigShown, Respond, save_vars, link_vars
  <2>4. CASE Saved
    BY <1>1, <1>3, <2>4 DEF Saved, Respond, link_vars
  <2>5. CASE LoopRestarts \/ Panic
    BY <1>1, <1>3, <2>5 DEF LoopRestarts, Panic, Boot
  <2>6. ASSUME NEW t \in Tokens, HandlePage(t) \/ HandleLogout(t) \/ HandleOtaRequest(t) \/ HandleConfig(t)
        PROVE  rest'
    BY <1>1, <2>6 DEF HandlePage, HandleLogout, HandleOtaRequest, HandleConfig, save_vars, link_vars
  <2>7. ASSUME NEW t \in Tokens, HandleSave(t) PROVE rest'
    BY <1>1, <1>3, <2>7 DEF HandleSave, link_vars
  <2>8. CASE UNCHANGED vars
    BY <1>1, <2>8 DEF vars, save_vars, link_vars
  <2>. QED
    BY <2>1, <2>2, <2>3, <2>4, <2>5, <2>6, <2>7, <2>8 DEF Next
<1>5. flags'
  <2>1. CASE LinkUp \/ EventStep \/ WebStep \/ LinkDown
    BY <1>1, <2>1 DEF LinkUp, EventStep, WebStep, LinkDown, save_vars, link_vars, session_vars
  <2>2. CASE HandleRestart \/ LoopScans \/ LoopRemovesExpired \/ Tick \/ HandleLoginPost
    BY <1>1, <2>2 DEF HandleRestart, LoopScans, LoopRemovesExpired, Tick, HandleLoginPost, save_vars, link_vars, session_vars
  <2>3. CASE LoginSucceeds \/ LoginFails \/ ConfigShown \/ Saved
    BY <1>1, <2>3 DEF LoginSucceeds, LoginFails, ConfigShown, Saved, save_vars, link_vars, session_vars
  <2>4. CASE LoopRestarts \/ Panic
    BY <2>4 DEF LoopRestarts, Panic, Boot
  <2>5. ASSUME NEW t \in Tokens, HandlePage(t) \/ HandleLogout(t) \/ HandleOtaRequest(t) \/ HandleConfig(t) \/ HandleSave(t)
        PROVE  flags'
    BY <1>1, <2>5 DEF HandlePage, HandleLogout, HandleOtaRequest, HandleConfig, HandleSave, CheckAuthentication,
                      save_vars, link_vars
  <2>6. CASE UNCHANGED vars
    BY <1>1, <2>6 DEF vars, save_vars, link_vars, session_vars
  <2>. QED
    BY <2>1, <2>2, <2>3, <2>4, <2>5, <2>6 DEF Next
<1>. QED
  BY <1>2, <1>4, <1>5 DEF TypeOK, Clocked

LEMMA NextInv == IInv /\ [Next]_vars => IInv'
<1>. SUFFICES ASSUME IInv, [Next]_vars PROVE IInv'
  OBVIOUS
<1>1. PersistencyTypeOK /\ SaveInv /\ Clocked /\ RestartInv /\ SessionInv
  BY TypeOKClocked DEF IInv, TypeOK
<1>2. SaveInv'
  BY <1>1, NextSave
<1>3. RestartInv' /\ SessionInv'
  BY <1>1, NextRestart, NextSession
<1>. QED
  BY <1>2, <1>3, NextType DEF IInv

LEMMA Invariant == Spec => []IInv
BY InitInv, NextInv, PTL DEF Spec

\* The variables keep their types, and no task makes more calls for a section than
\* there are keys, and begin and end (LoadOtaConfig, StoreOtaConfig and the others).
THEOREM TypeCorrect == Spec => []TypeOK
<1>1. IInv => TypeOK
  BY DEF IInv
<1>. QED
  BY <1>1, Invariant, PTL

\* While a configuration is being saved, and SetupOta does not run meanwhile,
\* the flash holds what was entered for exactly the keys already put, and for all
\* others what it held before (HandleSave with Persistency).
THEOREM SavesInOrder == Spec => []SaveInOrder
<1>1. IInv => SaveInOrder
  BY DEF IInv, SaveInv
<1>. QED
  BY <1>1, Invariant, PTL

\* A save that says "All parts updated" has stored all that the user has entered,
\* unless SetupOta ran meanwhile: nothing else spoils one (HandleSave).
THEOREM OnlySetupOtaSpoilsSaves == Spec => [](~overlapped => AllPartsUpdated)
<1>1. IInv => (~overlapped => AllPartsUpdated)
  <2>. SUFFICES ASSUME IInv, ~overlapped, request = "save", todo["web"] = <<>>, NEW f \in form
                PROVE  flash[f[1]][f[2]] = Value(f[1], f[2], "entered")
    BY DEF AllPartsUpdated
  <2>1. f \in Sections \X AllKeys
    BY DEF IInv, TypeOK, Fields
  <2>2. ~ PutAhead(f)
    BY DEF PutAhead
  <2>. QED
    BY <2>1, <2>2 DEF IInv, SaveInv, SaveInOrder
<1>. QED
  BY <1>1, Invariant, PTL

\* Once every field has a value, none ever loses it, even by a save that SetupOta has spoiled or a
\* restart has cut short: a task only puts what it has got or the user has entered
\* (LoadOtaConfig, StoreOtaConfig and the others).
THEOREM FieldsKeepAValue == Spec => []FieldsStored
<1>1. IInv => FieldsStored
  BY DEF IInv, SaveInv
<1>. QED
  BY <1>1, Invariant, PTL

\* The board does not restart before the browser has had RestartDelay to take the
\* response, however late the loop task comes, unless the deadline has wrapped around
\* (HandleRestart, HandleOtaRequest, Loop).
THEOREM RestartsKeepDelay == Spec => []RestartKeepsDelay
<1>1. IInv => RestartKeepsDelay
  BY TypeOKClocked, TimeFacts DEF IInv, Clocked, RestartInv, RestartKeepsDelay, RestartDue
<1>. QED
  BY <1>1, Invariant, PTL

\* A session lasts for SessionTimeout from its latest use, neither more nor less, unless
\* its deadline lies where millis() never gets, or where the loop task may miss it
\* before the wrap (CheckAuthentication, Loop).
THEOREM SessionsKeepTime == Spec => []SessionsLastTimeout
<1>1. IInv => SessionsLastTimeout
  <2>. SUFFICES ASSUME IInv, NEW t \in Tokens, sessions[t] # NoSession
                PROVE  /\ idle[t] < SessionTimeout => Authenticated(t)
                       /\ Authenticated(t) => idle[t] < SessionTimeout \/ sessions[t] > Wrap - LoopPause
    BY DEF SessionsLastTimeout
  <2>1. sessions[t] \in Nat /\ now \in 0 .. Wrap - 1 /\ idle[t] \in 0 .. SessionTimeout
    BY TypeOKClocked, TimeFacts DEF IInv, Clocked
  <2>. QED
    BY <2>1, TimeFacts DEF IInv, SessionInv, Authenticated, NotYetRemoved
<1>. QED
  BY <1>1, Invariant, PTL

=============================================================================
