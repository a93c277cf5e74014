SPECIFICATION Spec
CONSTANTS
  Services = {s1}
  Loops = {l1, l2}
  NoLoop = NoLoop
  MaxRestarts = 3
  BackoffBase = 2
  BackoffMax = 3
  Cooldown = 1
  MaxClock = 4
INVARIANT RestartsSpaced
