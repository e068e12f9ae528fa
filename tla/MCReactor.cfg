CONSTANTS
    m1 = m1
    m2 = m2
    m3 = m3
    WaitId = WaitId
    Empty = Empty
    Futures <- MCFutures
    SpuriousPolls = FALSE
    MaxSpurious = 1

SPECIFICATION Spec
SYMMETRY FutureSymmetry
\* Once every future has completed, the background thread blocks in
\* next_message for good: the program may legitimately stop there.
CHECK_DEADLOCK FALSE

INVARIANT AnswerRouting
