SPECIFICATION HandsetFairSpec
CONSTANTS
    QueueLen = 3
    AppLen = 1
    HeapLen = 4
    Items <- OneItem
    Carrier = FALSE
    AnnounceEarly = TRUE
    Subscribed = {"modem", "app", "radio"}
    MaxEnv = 2
    MaxForeign = 1
CHECK_DEADLOCK FALSE
INVARIANTS HandsetTypeOK OnlyBothAreFatal RegisteredIsConnected DisplayMovesOn
PROPERTIES ReportsDieOut
