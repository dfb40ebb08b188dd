SPECIFICATION Spec
CONSTANTS
    a = a
    b = b
    va = va
    ip1 = ip1
    ip2 = ip2
    over = over
    l2 = l2
    None = None
    Own = Own
    World = {"create", "list", "get"}
    ServicePortNames = {a}
    IPs = {ip1, ip2}
    Names = {a}
    Networks = {over, l2}
    Overlay = {over}
    RemoteIds <- TwoAddressesRemoteIds
    LocalIds = {}
    PolicyIds <- NodePortPolicyIds
    BaseInfos <- NodePortBaseInfos
    Endpoints <- TwoEndpoints
    CniEndpoints = {}
    Services <- MCServices
    MaxUndeleted = 0
    MaxRefCount = 2
INVARIANTS
    RefCountsCover
    EndpointsInUse
    PoliciesMatch
    NoLeftoverPolicies
