\* Faults on: failing connects and io errors, with a program that follows
\* the protocol.  Four requests reach the wrap of a 2-bit id counter.
CONSTANTS
    SocketIdBits = 2
    MaxEvents = 4
    MaxLen = 2
    ClientChecked = TRUE
    ConnectMayFail = TRUE
    IoErrors = TRUE

SPECIFICATION FairSpec
\* The kernel stops after a panic, and the program may stop sending.
CHECK_DEADLOCK FALSE

INVARIANT AnswerOnce
INVARIANT WriteComplete
PROPERTY OpenAnswered
