SPECIFICATION FairSpec
CONSTANTS
  Threads = {t1}
  Agents = {a1}
  Nobody = Nobody
  AuthEnabled = FALSE
  SweepEnabled = TRUE
  DefaultTtl = 1
  Ttls <- NoTtls
  Grace = 0
  TrafficSize = 0
  MayRestart = FALSE
  Operations <- SendAndPoll
  MaxSends = 1
  MaxClock = 2
PROPERTY PollingHeals
