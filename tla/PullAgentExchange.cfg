SPECIFICATION FairSpec
CONSTANTS
  alice = alice
  bob = bob
  ask = ask
  back = back
  again = again
  la = la
  Agents = {alice, bob}
  Requests = {ask, back, again}
  From <- Askers
  To <- Asked
  Parent <- Nested
  NoRequest = NoRequest
  Loops = {la, lb1, lb2}
  Owner <- LoopOwners
  NoLoop = NoLoop
  Workers = 1
  Stoppers = {bob}
  MaxStops = 1
  MaxFaults = 1
INVARIANT TypeOK
INVARIANT OneWay
INVARIANT WorkHasExecutor
PROPERTY RepliesArrive
PROPERTY HealsWhileAlive
PROPERTY StopSettles
CONSTRAINT Bounded
