SPECIFICATION Spec
INVARIANT AclTracksLink
INVARIANT HandlesUnique
PROPERTY ConnectionsKept
PROPERTY ImplementsConnTable
SYMMETRY DeviceSymmetry
CHECK_DEADLOCK FALSE
CONSTANTS
  a1 = a1
  a2 = a2
  h1 = h1
  h2 = h2
  ZeroAddr = ZeroAddr
  JunkAddr = JunkAddr
  NoHandle = NoHandle
  Addrs = {a1, a2}
  Handles = {h1, h2}
  NUM_PEERS = 2
  NUM_ACLS = 2
  Installed <- Client
  Grants = {1}
  Outcomes = {TRUE, FALSE}
  FailHandle = h1
  MaxEvents = 3
  MaxRemote = 2
  MaxBoots = 1
  AllowHangup = FALSE
