SPECIFICATION Spec
CONSTANTS
  Thread = {t1, t2}
  NoThread = NoThread
  Obj = {o1, o2}
  Text = {x1, x2}
  NoText = NoText
  Absent = Absent
  NoRow = NoRow
  MaxEvents = 3
  MaxOpens = 1
  MaxFaults = 2
  Calls = {"put", "search", "rebuild_index", "rebuild_projection", "verify"}
SYMMETRY Symmetry
INVARIANTS DriftNeedsFault OneFaultIsDetected FlagIsHonest
