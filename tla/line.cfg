SPECIFICATION MCSpec
INVARIANT FramingInv
INVARIANT SignallingInv
INVARIANT FitsMeansFramed
INVARIANT ListInv
PROPERTY ImplementsPacketLine
PROPERTY EventsGetThrough
PROPERTY ImplementsBag
CONSTANTS
  BufSize = 5
  EventCodes = {4}
  ParamBytes = {0, 4}
  MaxParams = 2
  DataBytes = {2, 4}
  MaxData = 2
  MaxSent = 3
  MaxStarts = 2
  Lengths <- CheckedLengths
  Sizes <- CheckedSizes
  AclHandles <- CheckedHandles
  c1 = c1
  c2 = c2
  c3 = c3
  c4 = c4
  NULL = NULL
  Cells = {c1, c2, c3, c4}
