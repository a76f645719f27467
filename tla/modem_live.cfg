SPECIFICATION FairSpec
CONSTANTS
    QueueLen = 3
    Items <- OneItem
    Carrier = FALSE
    AnnounceEarly = FALSE
    Subscribed = {"modem", "app", "util"}
    MaxEnv = 4
CHECK_DEADLOCK FALSE
PROPERTIES Quiesces ShutdownAcknowledged
