CONSTANTS
    Feeds = {"binance", "okx", "deribit", "bybit", "former"}
    OpenTimeout = 2
    GapTimeout = 3
    Heartbeat = 4
    MinWait = 1
    ReconnectCap = 6
    Horizon = 8
SPECIFICATION Spec
INVARIANTS
    TypeOK
    SilentLinkDropped
    LatePingMeansTraffic
    AttemptsBackOff
