SPECIFICATION Spec
CONSTANTS
  Fact = {f1, f2}
  Claim = {c1, c2}
  Evidence = {v1, v2}
  Token = {t1}
  Absent = Absent
  MaxObjects = 3
  MaxMoves = 2
  MaxOpens = 1
SYMMETRY Symmetry
INVARIANTS EnvelopeIsHonest ContradictionsSurvive EnvelopeIsAuthorized ExpansionIsLive
