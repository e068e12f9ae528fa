CONSTANTS
    SocketIdBits = 3
    MaxEvents = 3
    MaxLen = 2
    ClientChecked = TRUE
    ConnectMayFail = FALSE
    IoErrors = FALSE

SPECIFICATION FairSpec
\* The program may stop sending requests, and the kernel stops after a panic.
CHECK_DEADLOCK FALSE

PROPERTY ReadAnswered
