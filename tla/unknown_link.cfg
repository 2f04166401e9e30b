SPECIFICATION Spec
INVARIANT NoNullAcl
CHECK_DEADLOCK FALSE
CONSTANTS
  a1 = a1
  h1 = h1
  h2 = h2
  ZeroAddr = ZeroAddr
  JunkAddr = JunkAddr
  NoHandle = NoHandle
  Addrs = {a1}
  Handles = {h1, h2}
  NUM_PEERS = 2
  NUM_ACLS = 1
  Installed <- Client
  Grants = {1}
  Outcomes = {TRUE}
  FailHandle = NoHandle
  MaxEvents = 3
  MaxRemote = 1
  MaxBoots = 1
  AllowHangup = FALSE
