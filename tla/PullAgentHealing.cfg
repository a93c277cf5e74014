SPECIFICATION FairSpec
CONSTANTS
  alice = alice
  bob = bob
  ask = ask
  back = back
  again = again
  la = la
  Agents = {alice, bob}
  Requests = {ask}
  From <- Askers
  To <- Asked
  Parent <- Nested
  NoRequest = NoRequest
  Loops = {la, lb1}
  Owner <- LoopOwners
  NoLoop = NoLoop
  Workers = 1
  Stoppers = {bob}
  MaxStops = 0
  MaxFaults = 1
PROPERTY SelfHealing
