CONSTANTS
  Addresses = {"A", "B"}
  Keys = {"name", "note"}
  Values = {"alice", "hello"}
  Sources <- MCSources
  Records <- MCRecords
  KeyType <- MCKeyType
  BadKeys = {}
  IDValues = {"alice"}
  NoValue = "novalue"
  Blocks <- MCBlocks
  Genesis = "g"
  Prev <- MCPrev
  BlockTrust <- MCTrust
  BadBlocks = {"x4"}
  Hardened <- MCHardened
  Txs <- MCTxs
  vtx <- MCvtx
  vin <- MCvin
  Coinbases <- MCCoinbases
  infosOf <- MCinfosOnFork
  NoBlock = "none"
  Absent = "absent"
  Unspent = "unspent"
  SignedCheckpoints = {}
  LargeTxs = {}
  NonStandardTxs = {"n1"}
  nMaxOrphans = 2
  MaxRestarts = 0
  MaxKeyChanges = 0
SPECIFICATION Spec
INVARIANT MostTrusted
CHECK_DEADLOCK FALSE
