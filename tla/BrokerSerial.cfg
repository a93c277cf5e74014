SPECIFICATION FairSpec
CONSTANTS
  Threads = {t1}
  Agents = {a1, a2}
  Nobody = Nobody
  AuthEnabled = TRUE
  SweepEnabled = FALSE
  DefaultTtl = 1
  Ttls <- FiniteTtls
  Grace = 0
  TrafficSize = 0
  MayRestart = TRUE
  Operations <- AllOperations
  MaxSends = 2
  MaxClock = 1
INVARIANT TablesAgree
PROPERTY TokenOwnsAgent
PROPERTY PollingHeals
PROPERTY KeepsPromise
