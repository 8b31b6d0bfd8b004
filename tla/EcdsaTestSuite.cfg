\* The test has no parameters.
SPECIFICATION Spec
INVARIANTS
  TypeOK
  WhatPassedHides
\* The function returns.
CHECK_DEADLOCK FALSE
