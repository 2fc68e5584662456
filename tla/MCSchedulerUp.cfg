SPECIFICATION FairSpec
CONSTANTS
  c0 = c0
  c1 = c1
  none = none
  CPU <- MC_OneCpu
  CPU0 = c0
  NoCpu = none
  NPROC = 3
  MaxPid = 3
  TickMod = 3
  ADVICE_TIMEOUT_TICKS = 2
  AdvisorPids = {2}
  AdvicePids = {0, 1, 3}
INVARIANTS
  AdviceOnce
  AdvisedNotSkipped
PROPERTIES
  NoStarvation
