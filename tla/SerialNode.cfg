\* Keys of two bytes, two runs of the script, two faults of any kind (a reset, a
\* burst of bytes lost, a call that fails); a counter that wraps after two;
\* signatures of two words; room for two lines of a round in the port.
CONSTANTS
  KeyLen = 2
  Base = 2
  CounterMod = 2
  SigWords = 2
  Runs = 2
  Faults = 2
  PortSize = 14
SPECIFICATION Spec
INVARIANTS
  TypeOK
PROPERTIES
  VerifiedWasSigned
  MessageBelongs
  RefusedForAReason
  LoadsWholeKey
  StartsDespiteOneLoss
\* Without a run, or with too few bytes, the node waits and so does the script.
CHECK_DEADLOCK FALSE
