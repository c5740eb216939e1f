\* Two processors, a device whose number is in the high registers and the timer
\* in the low ones; the level is 0 at first, and software lets through the timer or both.
CONSTANTS
  Procs = {0, 1}
  Numbers = {0, 2, 40}
  Devices = {40}
  Timer = 2
  Ipls = {2, 40}
  Handlers = {0}
  CyclesGoal = 1
SPECIFICATION FairSpec
INVARIANT LineIsClaim
INVARIANT HandlerHasInterrupt
PROPERTY HaltedIsWoken
