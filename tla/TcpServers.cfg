CONSTANTS
    Clients = {c1, c2}
    Dummy = Dummy
    Threads = 2
SPECIFICATION ServersSpec
INVARIANT ServiceLifetime
PROPERTIES RequestsAnswered ServersStop
CHECK_DEADLOCK FALSE
