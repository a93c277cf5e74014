SPECIFICATION FairSpec
CONSTANTS
  first = first
  second = second
  anonymous = anonymous
  Messages = {first, second}
  Sender <- Threads
  Order <- Program
  Principals = {anonymous}
  Key <- SamePrincipal
  RateNum = 3
  RateDen = 2
  Second = 2
  MaxAttempts = 3
  BaseDelay = 1
  Factor = 3
  MaxDelay = 2
  MaxFailures = 2
  MaxClock = 5
INVARIANT TypeOK
INVARIANT Allowance
INVARIANT OutcomeHonest
INVARIANT SendOrder
INVARIANT BacksOff
PROPERTY SendsEnd
CHECK_DEADLOCK FALSE
