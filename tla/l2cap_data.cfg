SPECIFICATION L2capSpec
INVARIANT DataReachParser
CHECK_DEADLOCK FALSE
CONSTANTS
  Lengths = {0}
  Sizes = {0, 1, 8}
  AclHandles = {0, 1, 4095}
