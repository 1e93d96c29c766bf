\* The timer against the time that really passes.
SPECIFICATION TimerSpec
CONSTANTS
  Wrap = 16
  Delays <- MCDelays
  MaxElapsed = 40
INVARIANT ExpiresWithItsDelay
