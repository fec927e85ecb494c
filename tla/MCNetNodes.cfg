CONSTANTS
  Conns = {c1, c2}
  NoConn = none
  Addrs = {a1}
  Openers = {o1, o2}
  UsesGrant = {o1, o2}
  nMaxOutbound = 2
  nMaxInbound = 1
SYMMETRY Symmetric
SPECIFICATION Spec
INVARIANTS
  NoUseAfterDelete
  RefsCovered
  GrantsBounded
CHECK_DEADLOCK FALSE
