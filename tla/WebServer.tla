------------------------------ MODULE WebServer ------------------------------
(***************************************************************************)
(* WebServer: sessions, saving the configuration, and the delayed restart. *)
(* Three tasks run it without a lock:                                      *)
(*   - the AsyncTCP task ("web") runs the handler of one request after the *)
(*     other;                                                              *)
(*   - the event task ("event") sets up the network update, and starts the *)
(*     web server, whenever the ethernet link comes up;                    *)
(*   - the Arduino loop task removes old sessions and restarts.            *)
(*                                                                         *)
(* millis() counts modulo Wrap.  restart_time_ is as wide as millis();     *)
(* the deadline of a session is wider.  The loop task passes when it gets  *)
(* to it: scans and requests of the other subsystems may hold it up.       *)
(*                                                                         *)
(* sessions_ is one std::map used by two tasks.  A handler that uses it    *)
(* while the loop task walks through it has no defined result: from then   *)
(* on the firmware may panic, which reboots it.                            *)
(***************************************************************************)
EXTENDS Persistency

CONSTANTS
  Tokens,          \* session tokens
  SaveOrder,       \* the sections in the order of HandleSave and HandleConfig
  PrintOrder,      \* the sections in the order of Persistency::PrettyPrint
  Forms,           \* the forms a browser may send: the fields each of them sets,
                   \*   all checkboxes included, a password only if it is not empty
  Wrap,            \* values of millis()
  SessionTimeout,  \* kSessionTimeoutMs
  RestartDelay,    \* kRestartDelay
  LoopPause,       \* the longest time between two passes of the loop task
  MaxSaves,        \* bound: configurations saved
  MaxFlaps         \* bound: losses of the ethernet link

ASSUME WebServerAssumption ==
  /\ Tasks = {"web", "event"} /\ {"ota", "webserver"} \subseteq Sections
  /\ SaveOrder \in Seq(Sections) /\ PrintOrder \in Seq(Sections)
  /\ IsInjective(SaveOrder) /\ Range(SaveOrder) = Sections
  /\ Forms \subseteq SUBSET Fields
  /\ Wrap \in Nat /\ SessionTimeout \in 1 .. Wrap - 1 /\ RestartDelay \in 1 .. Wrap - 1
  /\ LoopPause \in Nat \ {0}
  /\ MaxSaves \in Nat /\ MaxFlaps \in Nat

VARIABLES
  now,            \* millis()
  sessions,       \* for each token expires_at_ms, or NoSession
  idle,           \* history: time a session has not been used
  restart_time_,  \* 0, or when to restart
  since,          \* history: time since the latest request to restart
  loop,           \* the loop task: "start" of a pass, or "scanning" sessions_
  waited,         \* time since the loop task has passed
  raced,          \* has sessions_ been used by two tasks at once
  request,        \* the request the AsyncTCP task is working on
  form,           \* what the user has entered, for a save
  before,         \* history: flash when the save began
  overlapped,     \* history: did SetupOta run during the save
  link,           \* was the last event of the link that it is up
  reachable,      \* has a browser been able to connect since boot
  saves, flaps    \* bounds: saves and losses of the link so far

clock_vars   == <<now, loop, waited>>
session_vars == <<sessions, idle, raced>>
restart_vars == <<restart_time_, since>>
save_vars    == <<form, before, overlapped, saves>>
link_vars    == <<link, reachable, flaps>>
vars == <<persistency_vars, clock_vars, session_vars, restart_vars, request, save_vars, link_vars>>

NoSession == -1
Plus1(n, max) == IF n < max THEN n + 1 ELSE n

TypeOK ==
  /\ PersistencyTypeOK
  /\ now \in 0 .. Wrap - 1 /\ loop \in {"start", "scanning"} /\ waited \in 0 .. LoopPause
  /\ sessions \in [Tokens -> {NoSession} \cup 0 .. Wrap - 1 + SessionTimeout]
  /\ idle \in [Tokens -> 0 .. SessionTimeout] /\ raced \in BOOLEAN
  /\ restart_time_ \in 0 .. Wrap - 1 /\ since \in 0 .. RestartDelay
  /\ request \in {"none", "login", "config", "save"}
  /\ form \subseteq Fields /\ overlapped \in BOOLEAN
  /\ before \in [Sections -> [AllKeys -> Values \cup {Absent}]]
  /\ link \in BOOLEAN /\ reachable \in BOOLEAN
  /\ saves \in 0 .. MaxSaves /\ flaps \in 0 .. MaxFlaps

Init ==
  /\ flash = [s \in Sections |-> [k \in AllKeys |-> IF <<s, k>> \in Fields THEN Value(s, k, "stored") ELSE Absent]]
  /\ opened = Closed
  /\ config = [t \in Tasks |-> Nothing] /\ todo = [t \in Tasks |-> <<>>]
  /\ calls = [t \in Tasks |-> 0]
  /\ now = 0 /\ loop = "start" /\ waited = 0
  /\ sessions = [t \in Tokens |-> NoSession] /\ idle = [t \in Tokens |-> 0] /\ raced = FALSE
  /\ restart_time_ = 0 /\ since = 0
  /\ request = "none"
  /\ form = {} /\ before = flash /\ overlapped = FALSE /\ saves = 0
  /\ link = FALSE /\ reachable = FALSE /\ flaps = 0

\* Everything but the flash starts anew (the bounds apart).
Boot ==
  /\ opened' = Closed
  /\ config' = [t \in Tasks |-> Nothing] /\ todo' = [t \in Tasks |-> <<>>]
  /\ calls' = [t \in Tasks |-> 0]
  /\ now' = 0 /\ loop' = "start" /\ waited' = 0
  /\ sessions' = [t \in Tokens |-> NoSession] /\ idle' = [t \in Tokens |-> 0] /\ raced' = FALSE
  /\ restart_time_' = 0 /\ since' = 0
  /\ request' = "none" /\ form' = {} /\ before' = flash /\ overlapped' = FALSE
  /\ link' = FALSE /\ reachable' = FALSE
  /\ UNCHANGED <<flash, saves, flaps>>

-----------------------------------------------------------------------------
\* ---- Event task: OtaSystem::SetupOta, then WebServer::OnConnectionStateChange ----

LinkUp ==
  /\ ~link /\ todo["event"] = <<>>
  /\ link' = TRUE
  /\ todo' = [todo EXCEPT !["event"] = <<Load("ota")>>]
  /\ overlapped' = (overlapped \/ request = "save")
  /\ UNCHANGED <<flash, opened, config, calls, clock_vars, session_vars, restart_vars, request,
                 form, before, saves, reachable, flaps>>

EventStep ==
  /\ Access("event", {})
  /\ reachable' = (reachable \/ todo'["event"] = <<>>)
  /\ UNCHANGED <<clock_vars, session_vars, restart_vars, request, save_vars, link, flaps>>

\* The server stops listening; connections it has accepted outlive the loss.
LinkDown ==
  /\ link /\ todo["event"] = <<>> /\ flaps < MaxFlaps
  /\ link' = FALSE /\ flaps' = flaps + 1
  /\ UNCHANGED <<persistency_vars, clock_vars, session_vars, restart_vars, request, save_vars, reachable>>

-----------------------------------------------------------------------------
\* ---- AsyncTCP task: the handlers ----

Arrives == link /\ reachable /\ request = "none"

\* Mutant: a session whose deadline is this very moment still counts.
AuthenticatedLate(t) == sessions[t] >= now

Authenticated(t) == sessions[t] > now

\* Finds the session, and prolongs it or removes it.
CheckAuthentication(t) ==
  /\ sessions' = [sessions EXCEPT ![t] = IF Authenticated(t) THEN now + SessionTimeout ELSE NoSession]
  /\ idle' = [idle EXCEPT ![t] = 0]
  /\ raced' = (raced \/ loop = "scanning")

\* HandleDashboard, HandleOta and HandleConsole; also HandleOtaRequest after an
\* upload that failed, and every handler that redirects for want of a session.
HandlePage(t) ==
  /\ Arrives
  /\ CheckAuthentication(t)
  /\ UNCHANGED <<persistency_vars, clock_vars, restart_vars, request, save_vars, link_vars>>

Loads(order) == [i \in DOMAIN order |-> Load(order[i])]

HandleConfig(t) ==
  /\ Arrives /\ Authenticated(t)
  /\ CheckAuthentication(t)
  /\ request' = "config"
  /\ todo' = [todo EXCEPT !["web"] = Loads(SaveOrder)]
  /\ UNCHANGED <<flash, opened, config, calls, clock_vars, restart_vars, save_vars, link_vars>>

\* Each section is loaded, changed and stored ...
Saves == [i \in 1 .. 2 * Len(SaveOrder) |->
            IF i % 2 = 1 THEN Load(SaveOrder[(i + 1) \div 2]) ELSE Store(SaveOrder[i \div 2])]

\* ... and PrettyPrint loads all but that of the web server once more.
SaveCalls == Saves \o Loads(PrintOrder)

HandleSave(t) ==
  /\ Arrives /\ Authenticated(t) /\ saves < MaxSaves
  /\ CheckAuthentication(t)
  /\ request' = "save" /\ saves' = saves + 1
  /\ form' \in Forms
  /\ todo' = [todo EXCEPT !["web"] = SaveCalls]
  /\ before' = flash /\ overlapped' = (todo["event"] # <<>>)
  /\ UNCHANGED <<flash, opened, config, calls, clock_vars, restart_vars, link_vars>>

HandleLoginPost ==
  /\ Arrives
  /\ request' = "login"
  /\ todo' = [todo EXCEPT !["web"] = <<Load("webserver")>>]
  /\ UNCHANGED <<flash, opened, config, calls, clock_vars, session_vars, restart_vars, save_vars, link_vars>>

WebStep ==
  /\ Access("web", form)
  /\ UNCHANGED <<clock_vars, session_vars, restart_vars, request, save_vars, link_vars>>

\* The response is sent.
Respond(kind) == request = kind /\ todo["web"] = <<>> /\ request' = "none"

LoginSucceeds ==
  /\ Respond("login")
  /\ \E t \in {u \in Tokens : sessions[u] = NoSession} :
       /\ sessions' = [sessions EXCEPT ![t] = now + SessionTimeout]
       /\ idle' = [idle EXCEPT ![t] = 0]
  /\ raced' = (raced \/ loop = "scanning")
  /\ UNCHANGED <<persistency_vars, clock_vars, restart_vars, save_vars, link_vars>>

LoginFails ==
  /\ Respond("login")
  /\ UNCHANGED <<persistency_vars, clock_vars, session_vars, restart_vars, save_vars, link_vars>>

ConfigShown ==
  /\ Respond("config")
  /\ UNCHANGED <<persistency_vars, clock_vars, session_vars, restart_vars, save_vars, link_vars>>

\* "Stored! Restart necessary..."
Saved ==
  /\ Respond("save")
  /\ form' = {} /\ before' = flash /\ overlapped' = FALSE
  /\ UNCHANGED <<persistency_vars, clock_vars, session_vars, restart_vars, saves, link_vars>>

HandleLogout(t) ==
  /\ Arrives
  /\ sessions' = [sessions EXCEPT ![t] = NoSession]
  /\ raced' = (raced \/ loop = "scanning")
  /\ UNCHANGED <<persistency_vars, idle, clock_vars, restart_vars, request, save_vars, link_vars>>

\* Mutant: the deadline is kept in more bits than millis() has.
RestartTimeWide == now + RestartDelay

RestartTime == (now + RestartDelay) % Wrap

HandleRestart ==
  /\ Arrives
  /\ restart_time_' = RestartTime /\ since' = 0
  /\ UNCHANGED <<persistency_vars, clock_vars, session_vars, request, save_vars, link_vars>>

\* The end of an upload without error.
HandleOtaRequest(t) ==
  /\ Arrives /\ Authenticated(t)
  /\ CheckAuthentication(t)
  /\ restart_time_' = RestartTime /\ since' = 0
  /\ UNCHANGED <<persistency_vars, clock_vars, request, save_vars, link_vars>>

-----------------------------------------------------------------------------
\* ---- Loop task: WebServer::Loop ----

\* Mutant: a session whose deadline is this very moment is kept.
ExpiredLate(t) == sessions[t] # NoSession /\ sessions[t] < now

Expired(t) == sessions[t] # NoSession /\ sessions[t] <= now

\* Mutant: restarts as soon as it has been asked to.
RestartDueNow == restart_time_ # 0

\* Mutant: a restart that is due this very moment is left for the next.
RestartDueLater == restart_time_ # 0 /\ now > restart_time_

RestartDue == restart_time_ # 0 /\ now >= restart_time_

LoopScans ==
  /\ loop = "start"
  /\ loop' = "scanning"
  /\ UNCHANGED <<persistency_vars, now, waited, session_vars, restart_vars, request, save_vars, link_vars>>

LoopRemovesExpired ==
  /\ loop = "scanning" /\ ~RestartDue
  /\ loop' = "start" /\ waited' = 0
  /\ sessions' = [t \in Tokens |-> IF Expired(t) THEN NoSession ELSE sessions[t]]
  /\ UNCHANGED <<persistency_vars, now, idle, raced, restart_vars, request, save_vars, link_vars>>

LoopRestarts == loop = "scanning" /\ RestartDue /\ Boot

Panic == raced /\ Boot

\* Loop reads millis() once: no time passes while it scans.
Tick ==
  /\ loop = "start" /\ waited < LoopPause
  /\ now' = (now + 1) % Wrap /\ waited' = waited + 1
  /\ idle' = [t \in Tokens |-> IF sessions[t] = NoSession THEN 0 ELSE Plus1(idle[t], SessionTimeout)]
  /\ since' = IF restart_time_ = 0 THEN 0 ELSE Plus1(since, RestartDelay)
  /\ UNCHANGED <<persistency_vars, loop, sessions, raced, restart_time_, request, save_vars, link_vars>>

Next ==
  \/ LinkUp \/ EventStep \/ LinkDown
  \/ \E t \in Tokens :
       HandlePage(t) \/ HandleConfig(t) \/ HandleSave(t) \/ HandleLogout(t) \/ HandleOtaRequest(t)
  \/ HandleLoginPost \/ HandleRestart
  \/ WebStep \/ LoginSucceeds \/ LoginFails \/ ConfigShown \/ Saved
  \/ LoopScans \/ LoopRemovesExpired \/ LoopRestarts \/ Panic \/ Tick

Spec == Init /\ [][Next]_vars

\* The loop task never stops.  Neither does the clock, however often it passes.
FairSpec == Spec /\ WF_vars(LoopScans \/ LoopRemovesExpired \/ LoopRestarts) /\ SF_vars(Tick)

-----------------------------------------------------------------------------
\* Has the save still to put field f?
PutAhead(f) ==
  \E i \in DOMAIN todo["web"], n \in DOMAIN Keys[f[1]] :
    /\ todo["web"][i] = Store(f[1]) /\ Keys[f[1]][n] = f[2]
    /\ i > 1 \/ calls["web"] <= n

\* While a configuration is being saved, and SetupOta does not run meanwhile,
\* the flash holds what was entered for exactly the keys already put, and for all
\* others what it held before: so at the end all of it, and after a restart in
\* the middle no mixture of sections (HandleSave with Persistency).
SaveInOrder ==
  request = "save" /\ ~overlapped =>
    \A f \in Sections \X AllKeys :
      flash[f[1]][f[2]] = IF f \in form /\ ~PutAhead(f) THEN Value(f[1], f[2], "entered")
                                                       ELSE before[f[1]][f[2]]

\* HandleSave says "All parts updated" before it sends its response: what the
\* user has entered is stored then.
AllPartsUpdated ==
  request = "save" /\ todo["web"] = <<>> =>
    \A f \in form : flash[f[1]][f[2]] = Value(f[1], f[2], "entered")

\* A session lasts for SessionTimeout from its latest use, neither more nor less,
\* until it is logged out; unless its deadline, wider than millis(), lies where
\* millis() never gets, or so close before the wrap that the loop task may come too
\* late for it: then it only lasts no less (CheckAuthentication, Loop).
SessionsLastTimeout ==
  \A t \in Tokens : sessions[t] # NoSession =>
    /\ idle[t] < SessionTimeout => Authenticated(t)
    /\ Authenticated(t) => idle[t] < SessionTimeout \/ sessions[t] > Wrap - LoopPause

\* The board does not restart before the browser has had RestartDelay to take
\* the response, counted from the latest of the requests, also if the loop task has
\* missed the deadline before a wrap; unless the deadline, as wide as millis(), has
\* wrapped around itself (HandleRestart, HandleOtaRequest, Loop).
RestartKeepsDelay == RestartDue => since >= RestartDelay \/ restart_time_ < RestartDelay

\* A restart with a deadline comes, or is put off by another request; unless the loop
\* task may miss the deadline before each wrap.
RestartComes ==
  (restart_time_ \in 1 .. Wrap - LoopPause /\ since > 0) ~> (restart_time_ = 0 \/ since = 0)

\* A session that is no longer used goes away; unless its deadline, wider than
\* millis(), lies where millis() never gets, or where the loop task may miss it
\* (CheckAuthentication, Loop).
IdleSessionsEnd ==
  \A t \in Tokens :
    (sessions[t] \in 0 .. Wrap - LoopPause /\ idle[t] > 0) ~> (sessions[t] = NoSession \/ idle[t] = 0)
=============================================================================
