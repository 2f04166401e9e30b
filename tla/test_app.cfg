SPECIFICATION FairSpec
INVARIANT TypeOK
INVARIANT HandshakeNeverStalls
INVARIANT HandshakesConserved
INVARIANT ReadyMeansConfigured
INVARIANT NoCreditStarvation
PROPERTY InitTerminates
PROPERTY CreditRefreshed
CHECK_DEADLOCK FALSE
CONSTANTS
  a1 = a1
  h1 = h1
  ZeroAddr = ZeroAddr
  JunkAddr = JunkAddr
  NoHandle = NoHandle
  Addrs = {a1}
  Handles = {h1}
  NUM_PEERS = 2
  NUM_ACLS = 1
  Installed <- TestApp
  Grants = {0, 1}
  Outcomes = {TRUE, FALSE}
  FailHandle = NoHandle
  MaxEvents = 3
  MaxRemote = 1
  MaxBoots = 2
  AllowHangup = TRUE
