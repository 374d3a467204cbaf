\* Four packets each way and a window of two skipped packets: packets can be
\* in order, late within the window, beyond the window, and replayed.
SPECIFICATION Spec
CONSTANTS
  A = A
  B = B
  Initiators = {A}
  MaxSkip = 2
  MaxSent = 4
INVARIANTS TypeOK GenuineOpens NoReplay KeysUsedOnce KeysForgotten  SkippedAreMissing
PROPERTY ImplementsChannel
\* Both ends may close their session, after which nothing happens.
CHECK_DEADLOCK FALSE
