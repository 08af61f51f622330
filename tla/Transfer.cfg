SPECIFICATION Spec
CONSTANTS
  Fact = {f1, f2}
  Claim = {c1}
  None = None
  Backend = "sqlite"
  MaxEvents = 4
  MaxDamage = 1
  MaxWrites = 1
CHECK_DEADLOCK FALSE
SYMMETRY Symmetry
INVARIANTS DamageIsNoticed ChainStaysWhole ImportIsWhole SliceKeepsFates
