SPECIFICATION Spec
CONSTANTS
  Threads = {t1, t2, t3}
  Agents = {a1}
  Nobody = Nobody
  AuthEnabled = FALSE
  SweepEnabled = FALSE
  DefaultTtl = 1
  Ttls <- NoTtls
  Grace = 0
  TrafficSize = 1
  MayRestart = FALSE
  Operations <- AllOperations
  MaxSends = 2
  MaxClock = 0
INVARIANT TypeOK
INVARIANT NoStarvedWaiter
INVARIANT MessageConservation
INVARIANT FifoMailbox
INVARIANT TrafficComplete
SYMMETRY ThreadSymmetry
PROPERTY KeepsPromise
