SPECIFICATION FairSpec
CONSTANTS
  Services = {s1}
  Loops = {l1}
  NoLoop = NoLoop
  MaxRestarts = 3
  BackoffBase = 2
  BackoffMax = 3
  Cooldown = 1
  MaxClock = 8
INVARIANT TypeOK
INVARIANT StreakStory
INVARIANT RestartsSpaced
PROPERTY FailingServiceEscalates
PROPERTY RecoveryIsNoticed
