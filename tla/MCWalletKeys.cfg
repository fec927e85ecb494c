CONSTANTS
    h1 = h1
    h2 = h2
    Holder = {h1, h2}
    nTargetSize = 2
    MaxKeys = 7
SYMMETRY Symmetric
SPECIFICATION Spec
INVARIANTS HandedOutOnce KeysNotLost PlainGone
