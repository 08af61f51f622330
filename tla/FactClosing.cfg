SPECIFICATION Spec
CONSTANTS
  Thread = {t1, t2}
  NoThread = NoThread
  MaxEvents = 5
  Fact = {f1, f2, f3}
  NoFact = NoFact
  Absent = Absent
  Open = Open
  MaxTime = 1
  MaxConfidence = 0
  MonotoneClock = TRUE
  Calls = {"assert", "supersede", "correct_validity", "retract", "rebuild"}
SYMMETRY Symmetry
INVARIANTS TypeOK ProjectionIsReplay NoBeliefGap IntervalsWellFormed
PROPERTIES FirstCloseStands SettledPastIsFixed ImplementsBeliefHistory
