CONSTANTS
    Clients = {c1}
    Dummy = Dummy
    Threads = 1
SPECIFICATION ServersSpec
INVARIANT DummyErrorsIgnored
CHECK_DEADLOCK FALSE
