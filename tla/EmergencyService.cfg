CONSTANTS
    c1 = c1
    c2 = c2
    alice = alice
    bob = bob
    police = police
    None = None
    Client <- TwoClients
    User <- TwoUsers
    Channel <- OneChannel
    Uses <- Roles
    Knows <- Names
    MaxCommands <- Commands
    FileSize = {3}
    Mortal <- OnlyFirst
SPECIFICATION Spec
CHECK_DEADLOCK FALSE
INVARIANTS TypeOK  LoginTruth  NobodyCutOff SilentAfterReceipt   LoginHangsIfMissed
