SPECIFICATION Spec
CONSTANTS
    a = a
    b = b
    va = va
    ip1 = ip1
    ip2 = ip2
    over = over
    l2 = l2
    None = None
    Own = Own
    World = {"create"}
    ServicePortNames = {a, b}
    IPs = {ip1}
    Names = {a}
    Networks = {over}
    Overlay = {over}
    RemoteIds <- MCRemoteIds
    LocalIds <- MCLocalIds
    PolicyIds <- MCPolicyIds
    BaseInfos <- MCBaseInfos
    Endpoints <- MCEndpoints
    CniEndpoints <- MCCniEndpoints
    Services = {}
    MaxUndeleted = 1
    MaxRefCount = 2
INVARIANTS
    TypeOK
    RefCountsCover
    EndpointsInUse
    PoliciesMatch
    NoLeftoverPolicies
PROPERTIES
    LocalUntouched
