\* One record is enough.
CONSTANTS
  Records = {r}
  Unset = Unset
  Garbled = Garbled
  MaxRecords = 1
  MaxDamages = 0
SPECIFICATION Spec
INVARIANT
  GeneratedMeansSigned
