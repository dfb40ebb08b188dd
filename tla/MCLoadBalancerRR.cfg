SPECIFICATION Spec
CONSTANTS
    svc = svc
    web = web
    dns = dns
    ip1 = ip1
    ip2 = ip2
    ip3 = ip3
    None = None
    Names = {svc}
    PortNames = {web, dns}
    IPs = {ip1, ip2, ip3}
    Ports <- MCPorts
    Services <- MCServices
    Endpoints <- MCEndpoints
INVARIANTS
    TypeOK
    IndexInRange
    NoDuplicates
PROPERTY
    FairRounds
