------------------------------- MODULE Timer -------------------------------
(***************************************************************************)
(* cmd::Timer: a delay is kept as an absolute deadline on millis(), a      *)
(* counter of milliseconds since boot that wraps around (2^32 on the       *)
(* ESP32, about 49.7 days).  The modules with commands count the time that *)
(* remains down instead; this module says when the two agree, and by how   *)
(* much they differ around a wrap.                                         *)
(***************************************************************************)
EXTENDS Integers

CONSTANTS
  Wrap,        \* number of values of millis(): 2^32 in the firmware
  Delays,      \* the delays timers are started with
  MaxElapsed   \* bound: how long after Reset a timer is watched

ASSUME TimerAssumption ==
  /\ Wrap \in Nat \ {0}
  /\ Delays \subseteq 0 .. Wrap - 1
  /\ MaxElapsed \in Nat

VARIABLES
  millis,      \* what millis() returns
  delay,       \* delay_
  deadline,    \* minimum_abs_execution_time_
  elapsed,     \* history: the time that has really passed since Reset
  slip         \* history: by how much a wrap of either puts the expiry off

timer_vars == <<millis, delay, deadline, elapsed, slip>>

TimerTypeOK ==
  /\ millis \in 0 .. Wrap - 1
  /\ delay \in 0 .. Wrap - 1
  /\ deadline \in 0 .. Wrap - 1
  /\ elapsed \in Nat
  /\ slip \in Int

\* Unsigned addition at the width of millis().
Plus(a, b) == IF a + b < Wrap THEN a + b ELSE (a + b) - Wrap

\* One period of millis() if it wraps around within the next d milliseconds.
Period(d) == IF millis + d < Wrap THEN 0 ELSE Wrap

\* Mutant: the comparison is strict.
IsExpiredStrictly == deadline = 0 \/ deadline < millis

IsExpired == deadline = 0 \/ deadline <= millis

\* Timer::Reset(delay): a delay of 0 is stored as the deadline 0, "expired".
Reset(d) ==
  /\ delay' = d
  /\ deadline' = IF d > 0 THEN Plus(millis, d) ELSE 0
  /\ elapsed' = 0
  /\ slip' = -Period(d)
  /\ UNCHANGED millis

\* One millisecond passes.
Advance ==
  /\ elapsed < MaxElapsed
  /\ millis' = Plus(millis, 1)
  /\ elapsed' = elapsed + 1
  /\ slip' = slip + Period(1)
  /\ UNCHANGED <<delay, deadline>>

\* A timer is created (and so reset) at any time after boot.
TimerInit ==
  /\ millis \in 0 .. Wrap - 1
  /\ delay \in Delays
  /\ deadline = IF delay > 0 THEN Plus(millis, delay) ELSE 0
  /\ elapsed = 0
  /\ slip = -Period(delay)

TimerNext == Advance \/ \E d \in Delays : Reset(d)

TimerSpec == TimerInit /\ [][TimerNext]_timer_vars

-----------------------------------------------------------------------------
\* When a timer is expired, by the time that has really passed since Reset: with its
\* delay as long as neither the deadline nor millis() has wrapped around, which
\* CommandHandler assumes of every timer.  A deadline beyond the wrap expires the timer
\* a period too early, at once; one that nobody looked at before the wrap puts it off by a
\* period, and by another one at each further wrap.  Once both have wrapped, the timer
\* is exact again.
ExpiresWithItsDelay == IsExpired <=> delay = 0 \/ elapsed >= delay + slip

=============================================================================
