--------------------------- MODULE LoadBalancerRR ---------------------------
(***************************************************************************)
(* The round-robin load balancer of the userspace proxy                    *)
(* (pkg/proxy/userspace/roundrobin.go).  Every operation runs under        *)
(* lb.lock, so every operation is one step.                                *)
(*                                                                         *)
(* The callers are the sink goroutine (NewService, DeleteService and the   *)
(* OnEndpoints... callbacks) and the proxy loops (NextEndpoint).  Session  *)
(* affinity is left out: nothing in the code ever fills an affinityMap.    *)
(***************************************************************************)
EXTENDS Integers, Sequences, Functions

CONSTANTS Names,      \* namespaced service names
          PortNames,  \* names of service ports
          Ports,      \* port numbers
          IPs,        \* IPv4 addresses of endpoints
          Services,   \* service objects the API may send
          Endpoints,  \* endpoint objects, each the list of its IPv4 addresses
          None        \* "no such key in the map"

ServicePortNames == Names \X PortNames

\* What net.JoinHostPort(ip, port) tells apart.
Addresses == IPs \X Ports

(***************************************************************************)
(* A service object names its ports; port names are unique in a service.   *)
(* The addresses of one endpoint object are pairwise different (the API's  *)
(* IPSet is a set).                                                        *)
(***************************************************************************)
ASSUME ServiceAssumption ==
    \A s \in Services :
        /\ s.name \in Names
        /\ DOMAIN s.ports \subseteq PortNames
        /\ \A p \in DOMAIN s.ports : s.ports[p].port \in Ports

ASSUME EndpointAssumption ==
    \A e \in Endpoints : e \in Seq(IPs) /\ IsInjective(e)

ASSUME NoneAssumption ==
    /\ None \notin [endpoints : Seq(Addresses), index : Nat]
    /\ \A A \in SUBSET Addresses : A # None

VARIABLES services,  \* lb.services: ServicePortName -> balancerState or None
          reply      \* the last answer of NextEndpoint, observed by a proxy loop

vars == <<services, reply>>

ErrMissingServiceEntry == "missing service entry"
ErrMissingEndpoints == "missing endpoints"

BalancerState == [endpoints : Seq(Addresses), index : Nat]

EmptyState == [endpoints |-> <<>>, index |-> 0]

-----------------------------------------------------------------------------
\* Every port of the service paired with every IPv4 of the endpoint; no key
\* at all when the endpoint has no IPv4 address.
buildPortsToEndpointsMap(endpoint, service) ==
    [p \in IF endpoint = <<>> THEN {} ELSE DOMAIN service.ports |->
        [i \in 1..Len(endpoint) |-> <<endpoint[i], service.ports[p].port>>]]

\* utilrand.Perm(n)
Perm(n) == Bijection(1..n, 1..n)

\* Mistake: drawing positions with replacement instead of permuting them.
ShuffleWithReplacement(s, perm) == [i \in 1..Len(s) |-> s[perm[1]]]

ShuffleStrings(s, perm) == [i \in 1..Len(s) |-> s[perm[i]]]

\* Two slices that sort to the same slice.
slicesEquiv(lhs, rhs) ==
    /\ Len(lhs) = Len(rhs)
    /\ \E perm \in Perm(Len(rhs)) : lhs = ShuffleStrings(rhs, perm)

\* The entry newServiceInternal leaves for a key that had `state`.
newServiceInternal(state) == IF state = None THEN EmptyState ELSE state

\* "If the service is still around, reset but don't delete."
resetService(state) == IF state = None THEN None ELSE EmptyState

\* newServiceInternal, then both fields of the entry are assigned: the new
\* addresses in a random order, and the round-robin index is reset.
SetEndpoints(newEndpoints, perm) ==
    [endpoints |-> ShuffleStrings(newEndpoints, perm), index |-> 0]

\* Mistakes: counting down without a wrap; forgetting the modulus; stepping
\* over an address.
NextIndexBackwards(state) == state.index - 1
NextIndexUnwrapped(state) == state.index + 1
NextIndexSkipping(state) == (state.index + 2) % Len(state.endpoints)

NextIndex(state) == (state.index + 1) % Len(state.endpoints)

\* The key of port p of the service, when `portsToEndpoints` has that port.
Keyed(svcPort, service, portsToEndpoints) ==
    /\ svcPort[1] = service.name
    /\ svcPort[2] \in DOMAIN portsToEndpoints

-----------------------------------------------------------------------------
Init ==
    /\ services = [sp \in ServicePortNames |-> None]
    /\ reply = None

NewService(svcPort) ==
    /\ services' = [services EXCEPT ![svcPort] = newServiceInternal(@)]
    /\ reply' = reply

DeleteService(svcPort) ==
    /\ services' = [services EXCEPT ![svcPort] = None]
    /\ reply' = reply

\* Each port is shuffled on its own: perms[p] is the order drawn for port p.
OnEndpointsAdd(endpoint, service) ==
    LET portsToEndpoints == buildPortsToEndpointsMap(endpoint, service)
    IN  /\ \E perms \in [DOMAIN portsToEndpoints -> Perm(Len(endpoint))] :
             services' = [sp \in ServicePortNames |->
                IF /\ Keyed(sp, service, portsToEndpoints)
                   /\ services[sp] = None \/ Len(portsToEndpoints[sp[2]]) > 0
                THEN SetEndpoints(portsToEndpoints[sp[2]], perms[sp[2]])
                ELSE services[sp]]
        /\ reply' = reply

\* A port whose addresses did not change keeps its order and its index.
OnEndpointsUpdate(oldEndpoints, endpoints, service) ==
    LET portsToEndpoints == buildPortsToEndpointsMap(endpoints, service)
        oldPortsToEndpoints == buildPortsToEndpointsMap(oldEndpoints, service)
    IN  /\ \E perms \in [DOMAIN portsToEndpoints -> Perm(Len(endpoints))] :
             services' = [sp \in ServicePortNames |->
                IF Keyed(sp, service, portsToEndpoints)
                THEN IF \/ services[sp] = None
                        \/ ~slicesEquiv(services[sp].endpoints, portsToEndpoints[sp[2]])
                     THEN SetEndpoints(portsToEndpoints[sp[2]], perms[sp[2]])
                     ELSE services[sp]
                ELSE IF Keyed(sp, service, oldPortsToEndpoints)
                     THEN resetService(services[sp])
                     ELSE services[sp]]
        /\ reply' = reply

OnEndpointsDelete(endpoint, service) ==
    LET portsToEndpoints == buildPortsToEndpointsMap(endpoint, service)
    IN  /\ services' = [sp \in ServicePortNames |->
              IF Keyed(sp, service, portsToEndpoints)
              THEN resetService(services[sp]) ELSE services[sp]]
        /\ reply' = reply

\* The three outcomes of NextEndpoint.
MissingServiceEntry(svcPort) ==
    /\ services[svcPort] = None
    /\ reply' = [svcPort |-> svcPort, endpoint |-> None, err |-> ErrMissingServiceEntry]
    /\ UNCHANGED services

MissingEndpoints(svcPort) ==
    /\ services[svcPort] # None
    /\ Len(services[svcPort].endpoints) = 0
    /\ reply' = [svcPort |-> svcPort, endpoint |-> None, err |-> ErrMissingEndpoints]
    /\ UNCHANGED services

TakeNextEndpoint(svcPort) ==
    /\ services[svcPort] # None
    /\ Len(services[svcPort].endpoints) > 0
    /\ LET state == services[svcPort]
       IN  /\ reply' = [svcPort |-> svcPort,
                        endpoint |-> state.endpoints[state.index + 1], err |-> "nil"]
           /\ services' = [services EXCEPT ![svcPort] =
                [endpoints |-> state.endpoints,
                 index |-> NextIndex(state)]]

NextEndpoint(svcPort) ==
    \/ MissingServiceEntry(svcPort)
    \/ MissingEndpoints(svcPort)
    \/ TakeNextEndpoint(svcPort)

Next ==
    \/ \E sp \in ServicePortNames : NewService(sp) \/ DeleteService(sp) \/ NextEndpoint(sp)
    \/ \E s \in Services, e \in Endpoints : OnEndpointsAdd(e, s) \/ OnEndpointsDelete(e, s)
    \/ \E s \in Services, e, old \in Endpoints : OnEndpointsUpdate(old, e, s)

Spec == Init /\ [][Next]_vars

-----------------------------------------------------------------------------
Replies == [svcPort : ServicePortNames,
            endpoint : Addresses \cup {None},
            err : {"nil", ErrMissingServiceEntry, ErrMissingEndpoints}]

\* Type invariant of the balancer's state (balancerState, roundrobin.go:34).
TypeOK ==
    /\ services \in [ServicePortNames -> BalancerState \cup {None}]
    /\ reply \in Replies \cup {None}

\* state.endpoints[state.index] (roundrobin.go:251) is never out of range:
\* whenever a service port has endpoints its index points at one of them, in
\* every order of endpoint callbacks and NextEndpoint calls.
IndexInRange ==
    \A sp \in ServicePortNames :
        services[sp] # None /\ services[sp].endpoints # <<>>
            => services[sp].index < Len(services[sp].endpoints)

\* No address is listed twice, so no address is served twice in one round
\* (the lists built by buildPortsToEndpointsMap and ShuffleStrings).
NoDuplicates ==
    \A sp \in ServicePortNames :
        services[sp] # None => IsInjective(services[sp].endpoints)

-----------------------------------------------------------------------------
\* What the balancer promises, whatever order it keeps: see FairBalancer.
pool == [sp \in ServicePortNames |->
            IF services[sp] = None THEN None ELSE Range(services[sp].endpoints)]

remaining == [sp \in ServicePortNames |->
    IF services[sp] = None THEN {}
    ELSE {services[sp].endpoints[i] :
              i \in services[sp].index + 1 .. Len(services[sp].endpoints)}]

Fair == INSTANCE FairBalancer

\* Between two changes of its endpoints a service port answers in rounds: in
\* a round every address is returned exactly once, whatever loops interleave
\* their calls, and an error only when there is nothing to return.
FairRounds == Fair!Spec
=============================================================================
