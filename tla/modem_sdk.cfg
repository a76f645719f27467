SPECIFICATION Spec
CONSTANTS
    QueueLen = 2
    Items <- OneItem
    Carrier = FALSE
    AnnounceEarly = FALSE
    Subscribed = {"modem", "app", "util"}
    MaxEnv = 3
CHECK_DEADLOCK FALSE
INVARIANT TypeOK
INVARIANT RegisteredIsConnected
INVARIANT ConnectedIsRegistered
PROPERTY ShutdownKeepsRadioOff
