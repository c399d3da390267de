CONSTANTS
    c1 = c1
    c2 = c2
    NULL = NULL
    Clients = {c1}
    ByName = {c1}
    Packets <- SomePackets
    SendTicks = 1
    ReconnectTicks = 1
    KeepAliveTicks = 1
    QueueCap = 1
    MaxCalls = 3
SPECIFICATION FairSpec
INVARIANTS TypeOK SessionIsReal NoLostWakeup
PROPERTIES Reconnects Draining
CHECK_DEADLOCK FALSE
