\* An executor that polls only woken futures, with two futures.
CONSTANTS
    m1 = m1
    m2 = m2
    m3 = m3
    WaitId = WaitId
    Empty = Empty
    Futures <- MCFuturesPair
    SpuriousPolls = FALSE
    MaxSpurious = 1

SPECIFICATION Spec
SYMMETRY FuturePairSymmetry
CHECK_DEADLOCK FALSE

INVARIANT LockOrder
