SPECIFICATION Spec
CONSTANTS
    QueueLen = 2
    Items <- OneItem
    Carrier = TRUE
    AnnounceEarly = FALSE
    Subscribed = {"modem", "app", "util"}
    MaxEnv = 4
CHECK_DEADLOCK FALSE
INVARIANT RegisteredIsConnected
