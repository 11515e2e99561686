SPECIFICATION Spec
CONSTANTS
    Radix = 2
    Digits = 2
    Copies = 2
    ReplyRoom = 1
    PipeRoom = 1
    Scripts <- MCScripts
    MaxOutput = 1
    MaxKeys = 1
    MaxSizes = 2
    ProviderNames = {"otp", "workos"}
    MaxProviders = 3
INVARIANTS
    TypeOK
    NothingLost
    BootSettles
PROPERTIES
    KeepsCallContract
    AnsweredWhileOpen
    LoaderEnds
    ProxyReturns
    SizeFollows
CHECK_DEADLOCK FALSE
