CONSTANTS
    Ids = {1, 2}
    MaxLive = 2
    OffApi = "OFF"
    Interfaces <- TwoInterfaces
    Bvi = "bvi1000"
    NewIndex = 3
SPECIFICATION VppSpec
INVARIANT StoreMatchesClient
INVARIANT DumpComplete
INVARIANT TunnelConfigured
PROPERTY ShutdownCompletes
