\* One minisocket-style caller with interrupts enabled and one sleeper,
\* with delays of one and two ticks.
CONSTANTS
  Threads = {u, s}
  Masked = {s}
  Delays = {100, 200}
SPECIFICATION Spec
CHECK_DEADLOCK FALSE
INVARIANT TypeOK
PROPERTY SleeperWakes
