SPECIFICATION Spec
CONSTANTS
  c0 = c0
  c1 = c1
  none = none
  CPU <- MC_TwoCpus
  CPU0 = c0
  NoCpu = none
  NPROC = 3
  MaxPid = 3
  TickMod = 2
  ADVICE_TIMEOUT_TICKS = 1
  AdvisorPids = {2}
  AdvicePids = {1, 3}
INVARIANTS
  ClearsOwnAdvice
