SPECIFICATION Spec
CONSTANTS
    svc = svc
    web = web
    ip1 = ip1
    ip2 = ip2
    ip3 = ip3
    ip4 = ip4
    None = None
    Names = {svc}
    PortNames = {web}
    IPs = {ip1}
    Ports <- MCPorts
    Services <- MCServices
    Endpoints <- NoneOrOne
    service <- MCService
    portName = web
    Loops = {"cluster", "node"}
    Clients = {"c1", "c2"}
    DialAttempts = 2
    World = {"stop", "churn", "accept", "timeout", "fds"}
INVARIANTS
    TypeOK
    NoAbandonedClient
    BothSocketsClosed
PROPERTIES
    StopLeavesConnections
CHECK_DEADLOCK FALSE
