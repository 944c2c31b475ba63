CONSTANTS
  Scenes = {f}
  Flaky = {f}
  MaxEvents = 3
SPECIFICATION Spec
INVARIANT NoLostRepaint
CHECK_DEADLOCK FALSE
