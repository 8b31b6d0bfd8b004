\* A buffer of three bytes, for the odd and even cases of the reversal, and
\* texts long enough for three bytes with colons and for one byte too many.
CONSTANTS
  OutLen = 3
  Digits = {0, 10}
  MaxLen = 8
SPECIFICATION Spec
INVARIANTS
  TypeOK
  WithinBuffer
  ShownCanBeTyped
  PanIsNumber
  ShownPanIsNotRead
  AcceptedIsTyped
PROPERTY
  Terminates
\* The function returns.
CHECK_DEADLOCK FALSE
