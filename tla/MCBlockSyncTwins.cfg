CONSTANTS
  Nodes = {"p", "r"}
  Hashing = {"p"}
  Signing = {}
  Blocks <- TwinBlocks
  Genesis = "g"
  NoBlock = "none"
  Prev <- TwinPrev
  Stake <- TwinStake
  NoStake = "nostake"
  Unconnectable <- OneFails
  Known <- TwinKnown
  Signed <- TwinSigned
  Upstream = {"p"}
  nLimit = 2
  MaxDisconnects = 0
SPECIFICATION Spec
INVARIANTS
  OrphansConsistent
CHECK_DEADLOCK FALSE
PROPERTY CatchesUp
