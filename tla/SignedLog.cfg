\* Four rounds, any of which may fail to sign; four damaged lines.
CONSTANTS
  Records = {r, s}
  Unset = Unset
  Garbled = Garbled
  MaxRecords = 4
  MaxDamages = 4
SPECIFICATION Spec
INVARIANTS
  TypeOK
  DamageIsLocal
