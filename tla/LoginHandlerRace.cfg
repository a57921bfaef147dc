CONSTANTS
    c1 = c1
    c2 = c2
    alice = alice
    bob = bob
    p1 = p1
    p2 = p2
    None = None
    Conn <- TwoConns
    User <- TwoUsers
    Password <- TwoPasswords
    MaxCalls = 2
SYMMETRY Symmetry
SPECIFICATION Spec
CHECK_DEADLOCK FALSE
INVARIANTS OneSession
