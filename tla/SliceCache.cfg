SPECIFICATION Spec
CONSTANTS
    svc = svc
    other = other
    s1 = s1
    s2 = s2
    web = web
    dns = dns
    ip1 = ip1
    ip2 = ip2
    v6 = v6
    None = None
    Services = {svc, other}
    SliceNames = {s1, s2}
    PortNames = {web, dns}
    Ports = {80, 81}
    Addresses = {ip1, ip2, v6}
    IPv6Addresses = {v6}
    Slices <- MCSlices
    hostname = "here"
    ipFamily = "IPv4"
INVARIANTS
    TypeOK
    CacheFollowsApi
    ReportedMatchesApi
PROPERTIES
    PreviousWasReported
