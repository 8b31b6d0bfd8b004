\* The counter and the base of the code, a key of one byte, nothing lost, no
\* call fails.
CONSTANTS
  KeyLen = 1
  Base = 10
  CounterMod = 256
  SigWords = 1
  Runs = 1
  Faults = 0
  PortSize = 6
SPECIFICATION Spec
INVARIANT
  DigestIsOfMessage
CHECK_DEADLOCK FALSE
