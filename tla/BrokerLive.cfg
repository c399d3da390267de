CONSTANTS
    c1 = c1
    c2 = c2
    c3 = c3
    id1 = id1
    NULL = NULL
    LOCAL_MQTT_CLIENT = LOCAL_MQTT_CLIENT
    dummy_clientcon = dummy_clientcon
    Empty = Empty
    t1 = t1
    t2 = t2
    f1 = f1
    f2 = f2
    data = data
    last = last
    Conn = {c1, c2}
    ClientId = {}
    Topic = {t1}
    Filter = {}
    BadFilter = {}
    Match = {}
    Payload = {Empty, data, last}
    FilterList = {}
    LocalFilters = {}
    Wills = {}
    BadTopic = {}
    Publications <- OnePublication
    Pipelining = FALSE
    MaxSubs = 0
    MaxRetained = 0
    QueueCap = 1
    ConnectTicks = 0
    KeepAliveTicks = 1
    SendTicks = 1
SPECIFICATION FairSpec
PROPERTIES SilentClientsLeave NoWedge
