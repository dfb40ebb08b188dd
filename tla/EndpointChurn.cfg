SPECIFICATION Spec
CONSTANTS
    a = a
    b = b
    web = web
    dns = dns
    ca = ca
    cb = cb
    x = x
    ip1 = ip1
    ip2 = ip2
    None = None
    allAvailableInterfaces = allAvailableInterfaces
    Names = {a}
    PortNames = {web, dns}
    IPs = {ip1, ip2}
    ListenIPs = {ca, x}
    Keys = {"k1", "k2"}
    Ports <- MCPorts
    Services <- TwoPortsOrHeadless
    Endpoints <- IPv4Endpoints
    Generations <- MCGenerations
    World = {"unordered", "datagram", "restart"}
INVARIANTS
    BalancerMatchesCache
    NoStaleEndpoints
PROPERTIES
    UpdateKeepsEndpoints
