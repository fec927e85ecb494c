CONSTANTS
  Nodes = {"p", "r"}
  Hashing = {"p"}
  Signing = {"p"}
  Blocks <- MCBlocks
  Genesis = "g"
  NoBlock = "none"
  Prev <- MCPrev
  Stake <- MCStake
  NoStake = "nostake"
  Unconnectable <- AllConnect
  Known <- MCKnown
  Signed <- MCSigned
  Upstream = {"p"}
  nLimit = 1
  MaxDisconnects = 1
SPECIFICATION Spec
INVARIANTS
  OnlySignedAccepted
CHECK_DEADLOCK FALSE
PROPERTY CatchesUp
