\* Two values a driver may return, thousandths below zero and above one unit.
CONSTANTS
  Values = {v, w}
  Millis <- AroundZero
  Unset = Unset
SPECIFICATION Spec
INVARIANTS
  TypeOK
  RecordIsOfReadings
\* main() returns when a driver cannot be initialised.
CHECK_DEADLOCK FALSE
