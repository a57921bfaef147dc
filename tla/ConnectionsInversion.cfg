CONSTANTS
    c1 = c1
    c2 = c2
    c3 = c3
    c4 = c4
    politics = politics
    sport = sport
    id1 = id1
    id2 = id2
    None = None
    Conn <- ThreeConns
    Channel <- OneChannel
    SubId <- OneId
    MaxCalls = 3
SPECIFICATION FairSpec
CHECK_DEADLOCK FALSE
PROPERTIES NewClientsHandled
