CONSTANTS
  Scenes = {s, f}
  Flaky = {f}
  MaxEvents = 4
SPECIFICATION FairSpec
INVARIANTS TypeOK OnePulse LatchIsCovered NoLostChange
PROPERTY ChangeIsDrawn
CHECK_DEADLOCK FALSE
