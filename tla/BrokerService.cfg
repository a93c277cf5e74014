SPECIFICATION FairSpec
CONSTANTS
  erin = erin
  frank = frank
  key1 = key1
  key2 = key2
  bogus = bogus
  Nobody = Nobody
  NoToken = NoToken
  conn1 = conn1
  conn2 = conn2
  Connections = {conn1, conn2}
  Agents = {erin, frank}
  Tokens <- AllTokens
  TokenTables <- Tables
  Envs = {"staging", "development"}
  FileSets <- NamedFiles
  RequestKinds <- Kinds
INVARIANT TypeOK
INVARIANT Secured
INVARIANT AnsweredIsRecorded
INVARIANT ExitHonest
PROPERTY SignalEndsService
PROPERTY ConnectionsAccepted
CHECK_DEADLOCK FALSE
