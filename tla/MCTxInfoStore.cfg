CONSTANTS
  A = A
  B = B
  name = name
  note = note
  alice = alice
  bob = bob
  ugly = ugly
  s1 = s1
  s2 = s2
  NoValue = NoValue
  Addresses <- MCAddresses
  Keys <- MCKeys
  Values <- MCValues
  Sources <- MCSources
  Records <- MCRecords
  KeyType <- MCKeyType
  BadKeys = {}
  IDValues <- MCIDValues
  MaxRowid = 3
SPECIFICATION Spec
INVARIANTS
  TypeOK
  LatestIsNewest
  KeyRules
  UndoInvertsProcess
PROPERTY ImplementsHistory
