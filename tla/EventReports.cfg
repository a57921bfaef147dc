CONSTANTS
    c1 = c1
    c2 = c2
    None = None
    Client <- TwoClients
    UserOf <- Users
    Channel <- Channels
    Date <- Times3
    File <- Files
    MaxFiles <- TwoAndOne
SPECIFICATION Spec
CHECK_DEADLOCK FALSE
INVARIANTS ComesBack   InOrderOfTime
