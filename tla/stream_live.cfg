SPECIFICATION FairSpec
CONSTANTS
    Workers = {w1}
    MaxAttempts = 1
    MaxWire = 2
    MaxDrops = 1
PROPERTIES
    StreamsEnd
    RoomFollows
CHECK_DEADLOCK FALSE
