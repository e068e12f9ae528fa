CONSTANTS
    PageSize = 2
    MaxPages = 2
    UsizeBits = 3
    Modules <- MCModules
    HashLen = 2
    Radix = 3
    ByteBase = 4
    Registered <- MCRegistered

SPECIFICATION Spec

PROPERTY BadValueKeepsInvocation
