SPECIFICATION OlderSpec
INVARIANT PastInitMeansConfigured
INVARIANT InquiryUnderWay
PROPERTY InitEnds
CHECK_DEADLOCK FALSE
CONSTANTS
  d1 = d1
  d2 = d2
  zero = zero
  junk = junk
  h1 = h1
  none = none
  Addrs = {d1, d2}
  ZeroAddr = zero
  JunkAddr = junk
  Handles = {h1}
  NoHandle = none
  Grants = {0, 1}
  Outcomes = {TRUE, FALSE}
  FailHandle = none
  MaxEvents = 2
  MaxRemote = 1
  NumPeers = 2
  Programs = {"mouse", "avr"}
  MaxStarts = 2
