\* A 3-bit id counter: three Opens cannot reach its wrap or its overflow.
CONSTANTS
    SocketIdBits = 3
    MaxEvents = 3
    MaxLen = 2
    ClientChecked = TRUE
    ConnectMayFail = TRUE
    IoErrors = FALSE

SPECIFICATION Spec
\* The program may stop sending requests, and the kernel stops after a panic.
CHECK_DEADLOCK FALSE

INVARIANT NoKernelPanic
