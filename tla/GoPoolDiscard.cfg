CONSTANTS
    g1 = g1
    g2 = g2
    g3 = g3
    c1 = c1
    c2 = c2
    c3 = c3
    Callers <- TwoCallers
    Opener = Opener
    Cleaner = Cleaner
    Quitter = Quitter
    Conns <- TwoConns
    NoConn = NoConn
    Closed = Closed
    MaxOpens = {}
    Lifetimes = {}
    ServersValid = TRUE
    DiscardErrors = TRUE
SPECIFICATION FairSpec
CHECK_DEADLOCK FALSE
PROPERTIES
    WaiterAnswered
