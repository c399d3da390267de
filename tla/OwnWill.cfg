CONSTANTS
    c1 = c1
    c2 = c2
    c3 = c3
    id1 = id1
    NULL = NULL
    LOCAL_MQTT_CLIENT = LOCAL_MQTT_CLIENT
    dummy_clientcon = dummy_clientcon
    Empty = Empty
    t1 = t1
    t2 = t2
    f1 = f1
    f2 = f2
    data = data
    last = last
    Conn = {c1}
    ClientId = {}
    Topic = {t1}
    Filter = {f1}
    BadFilter = {}
    Match <- OneMatch
    Payload = {Empty, data, last}
    FilterList <- SingleFilters
    LocalFilters = {}
    Wills <- OneWill
    BadTopic = {}
    Publications <- SamePublication
    Pipelining = FALSE
    MaxSubs = 1
    MaxRetained = 0
    QueueCap = 1
    ConnectTicks = 0
    KeepAliveTicks = 0
    SendTicks = 1
SPECIFICATION Spec
PROPERTIES WillIsHarmless
