SPECIFICATION Spec
CONSTANTS
  Threads = {t1, t2}
  Agents = {a1}
  Nobody = Nobody
  AuthEnabled = FALSE
  SweepEnabled = FALSE
  DefaultTtl = 1
  Ttls <- NoTtls
  Grace = 0
  TrafficSize = 0
  MayRestart = FALSE
  Operations <- AllOperations
  MaxSends = 0
  MaxClock = 0
INVARIANT EveryAgentBearsTtl
