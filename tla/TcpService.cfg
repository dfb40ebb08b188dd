SPECIFICATION FairSpec
CONSTANTS
    svc = svc
    web = web
    ip1 = ip1
    ip2 = ip2
    ip3 = ip3
    ip4 = ip4
    None = None
    Names = {svc}
    PortNames = {web}
    IPs = {ip1, ip2, ip3, ip4}
    Ports <- MCPorts
    Services <- MCServices
    Endpoints <- UpToFourBackends
    service <- MCService
    portName = web
    Loops = {"cluster"}
    Clients = {"c1", "c2"}
    DialAttempts = 4
    World = {"stop"}
INVARIANTS
    RefusedOnlyIfAllDown
PROPERTIES
    ClientsAnswered
    ConnectionsEnd
    StoppedLoopsEnd
CHECK_DEADLOCK FALSE
