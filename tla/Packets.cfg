CONSTANTS
    Base = 16
    BufSize = 24
    MaxIdLen = 3
    MaxId = 1
    Topics <- TopicSet
    Bodies <- BodySet
    Qualities = {0, 1}
    Infos <- InfoSet
    Packets <- PacketSet
    MaxPackets = 3
    Letters = {"a"}
    MaxFilter = 5
    MaxTopic = 4
    Message <- MessageSet
    QueueSize = 18
    MaxLen = 2
SPECIFICATION PartsSpec
INVARIANTS TypeOK ReadAsWritten HandledInOrder MatchesByLevels SlashesMerge
PROPERTIES PacketsAreHandled AsOutQueue
CHECK_DEADLOCK FALSE
