SPECIFICATION Spec
CONSTANTS
    a = a
    b = b
    web = web
    dns = dns
    ca = ca
    cb = cb
    x = x
    ip1 = ip1
    ip2 = ip2
    None = None
    allAvailableInterfaces = allAvailableInterfaces
    Names = {a}
    PortNames = {web, dns}
    IPs = {ip1, ip2}
    ListenIPs = {ca, cb, x}
    Keys = {"k1"}
    Ports <- MCPorts
    Services <- TwoPorts
    Endpoints <- OneEndpoint
    Generations <- MCGenerations
    World = {}
INVARIANTS
    AddressesPresent
