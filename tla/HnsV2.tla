-------------------------------- MODULE HnsV2 --------------------------------
(***************************************************************************)
(* The HostNetworkService on the V2 API of the Windows Host Network        *)
(* Service (pkg/proxy/winkernel/hnsV2.go).  HNS keeps the variables; the   *)
(* operators are the adapter's methods, None is a returned error.          *)
(* MAC and provider addresses, source VIPs and the flags of a load         *)
(* balancer are copied and never compared, and left out.                   *)
(***************************************************************************)
EXTENDS FiniteSets

CONSTANTS EndpointIds, PolicyIds, None

VARIABLES network,       \* the HNS network of the configured name, or None
          hnsEndpoints,  \* id -> [ips, remote, network], or None
          policies       \* load balancers: id -> [frontend, endpoints], or None; the
                         \* endpoints are [ip, hnsID]

endpointsInfo(id, ip, isLocal) == [hnsID |-> id, ip |-> ip, isLocal |-> isLocal]

getNetworkByName == network

getEndpointByID(id) ==
    IF id = None \/ hnsEndpoints[id] = None THEN None
    ELSE endpointsInfo(id, hnsEndpoints[id].ips[1], ~hnsEndpoints[id].remote)

\* The first two IP configurations are compared.
HasAddress(endpoint, ip) == \E i \in DOMAIN endpoint.ips \cap {1, 2} : endpoint.ips[i] = ip

\* The endpoints the search may stop at: HNS lists them in any order.
getEndpointByIpAddress(ip) ==
    { endpointsInfo(id, ip, ~hnsEndpoints[id].remote) :
        id \in {i \in EndpointIds : /\ hnsEndpoints[i] # None
                                    /\ HasAddress(hnsEndpoints[i], ip)
                                    /\ hnsEndpoints[i].network = network} }

\* HNS gives the endpoint the new id, or None: it refuses, or there is no
\* network, and an error is returned.
createEndpoint(ep, id) ==
    \/ id = None /\ UNCHANGED hnsEndpoints
    \/ /\ id # None
       /\ network # None
       /\ hnsEndpoints[id] = None
       /\ hnsEndpoints' = [hnsEndpoints EXCEPT ![id] =
             [ips |-> <<ep.ip>>, remote |-> ~ep.isLocal, network |-> network]]

\* What createEndpoint returns, read from the created endpoint's flags.
CreatedEndpoint(ep, id) == endpointsInfo(id, ep.ip, ep.isLocal)

deleteEndpoint(id) ==
    /\ getEndpointByID(id) # None
    /\ hnsEndpoints' = [hnsEndpoints EXCEPT ![id] = None]

\* "Validate if input meets any of the policy lists": the frontend is
\* compared (protocol, ports, ILB, VIP), of the endpoints only their number.
ExistingLoadBalancers(endpoints, frontend) ==
    { id \in PolicyIds : /\ policies[id] # None
                         /\ policies[id].frontend = frontend
                         /\ Cardinality(policies[id].endpoints) = Cardinality(endpoints) }

\* The load balancer found, the one HNS creates under a new id, or None: HNS
\* does not list, an endpoint cannot be found, or HNS refuses to create, and
\* an error is returned.
getLoadBalancer(endpoints, frontend, id) ==
    \/ id = None /\ UNCHANGED policies
    \/ /\ id \in ExistingLoadBalancers(endpoints, frontend)
       /\ UNCHANGED policies
    \/ /\ id # None
       /\ ExistingLoadBalancers(endpoints, frontend) = {}
       /\ \A e \in endpoints : getEndpointByID(e.hnsID) # None
       /\ policies[id] = None
       /\ policies' = [policies EXCEPT ![id] = [frontend |-> frontend, endpoints |-> endpoints]]

\* deleteLoadBalancer, of several: an unknown id is ignored.
deleteLoadBalancers(ids) ==
    policies' = [id \in PolicyIds |-> IF id \in ids THEN None ELSE policies[id]]
=============================================================================
