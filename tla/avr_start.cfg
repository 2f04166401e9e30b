SPECIFICATION OlderSpec
PROPERTY SuccessGoesOn
CHECK_DEADLOCK FALSE
CONSTANTS
  d1 = d1
  zero = zero
  junk = junk
  h1 = h1
  none = none
  Addrs = {d1}
  ZeroAddr = zero
  JunkAddr = junk
  Handles = {h1}
  NoHandle = none
  Grants = {0, 1}
  Outcomes = {TRUE, FALSE}
  FailHandle = none
  MaxEvents = 1
  MaxRemote = 0
  NumPeers = 1
  Programs = {"avr"}
  MaxStarts = 2
