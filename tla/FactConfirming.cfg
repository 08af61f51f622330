SPECIFICATION FairSpec
CONSTANTS
  f1 = f1
  f2 = f2
  Thread = {t1, t2}
  NoThread = NoThread
  MaxEvents = 3
  Fact = {f1, f2}
  NoFact = NoFact
  Absent = Absent
  Open = Open
  MaxTime = 1
  MaxConfidence = 1
  MonotoneClock = TRUE
  Calls = {"assert", "confirm", "contradict", "retract", "rebuild"}
  Moment = {0, 1}
  Worlds <- MCWorlds
INVARIANTS ConfidenceFloor CurrentIsAsOfNow
PROPERTIES LockIsReleased SettledAnswersStand
