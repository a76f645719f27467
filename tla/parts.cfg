SPECIFICATION FairSpec
CONSTANTS
    Devices = {d1, d2}
    Magics = {1, 2}
    SendCount = 2
    EventLen = 2
    RecvPosts = TRUE
    SymBits = 3
    CodeBits = 12
    UintBits = 3
    Sizes = {3, 6}
    HeaderBits = 2
    Symbols <- SomeSymbols
    MaxSymbols = 4
    Tocs = {16}
    Lengths = {1, 1275}
    Received <- SomePackets
    Room = {1, 256}
    Paddings = {0, 1, 254}
    MaxFrames = 3
    FixedPoint = TRUE
    Rooms = {1, 7, 13, 24}
    MaxCount = 2
CHECK_DEADLOCK FALSE
INVARIANTS
    TypeOK NoMutualSenders SenderIsKnown OneAtATime
    RoundTrip RoomEnough FramesFound NoStaleState WholeCalls
PROPERTIES
    SendersFinish InPlace
