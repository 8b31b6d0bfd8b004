\* Two boards: nothing couples them here, the second one lets the boot of one
\* overlap the interrupts of the other.
CONSTANTS
  Nodes = {a, b}
SPECIFICATION Spec
INVARIANTS
  TypeOK
  UnservedIsAnnounced
PROPERTIES
  Served
  BackToReceive
\* A board whose main() has failed, and one that no radio event reaches,
\* have nothing to do.
CHECK_DEADLOCK FALSE
