CONSTANTS
  Addresses = {"A"}
  Keys = {"note"}
  Values = {"hello"}
  Sources <- MCSources
  Records <- MCRecords
  KeyType <- MCKeyType
  BadKeys = {}
  IDValues = {}
  NoValue = "novalue"
  Blocks <- MCBlocks
  Genesis = "g"
  Prev <- MCPrev
  BlockTrust <- MCTrust
  BadBlocks = {"e4"}
  Hardened <- MCHardened
  Txs <- MCTxs
  vtx <- MCvtx
  vin <- MCvin
  Coinbases <- MCCoinbases
  infosOf <- MCNoInfos
  NoBlock = "none"
  Absent = "absent"
  Unspent = "unspent"
  SignedCheckpoints = {"p1", "d2", "d3", "e3"}
  LargeTxs = {}
  NonStandardTxs = {}
  nMaxOrphans = 1
  MaxRestarts = 2
  MaxKeyChanges = 1
SPECIFICATION Spec
INVARIANTS
  DiskIsOneChain
  CheckpointInMainChain
PROPERTY CheckpointAdvances
CHECK_DEADLOCK FALSE
