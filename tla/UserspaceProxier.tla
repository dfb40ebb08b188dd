-------------------------- MODULE UserspaceProxier --------------------------
(***************************************************************************)
(* The control plane of the userspace proxy: the kpng sink                 *)
(* (pkg/proxy/userspace/sink.go), the Proxier it drives (proxier.go), the  *)
(* netsh calls (netsh.go) and, as an instance, the load balancer.          *)
(*                                                                         *)
(* One goroutine runs the sink's callbacks, one after another.  A callback *)
(* about a service talks to netsh and to the network stack portal by       *)
(* portal, so it is split at every portal; between two of its steps proxy  *)
(* loops end, sockets fail, and the agent may be killed and started again. *)
(***************************************************************************)
EXTENDS Integers, Sequences, Functions

CONSTANTS Names, PortNames, Ports, IPs, None,
          Services,    \* [name, clusterIPs, externalIPs, ports] objects
          Endpoints,   \* lists of IPv4 addresses
          Keys,        \* keys of the endpoint objects of one service
          ListenIPs,   \* addresses services listen on
          allAvailableInterfaces,
          Generations, \* 1..n: serviceInfo objects of one portal alive at a time
          World        \* what the environment may do to the agent

ASSUME WorldAssumption ==
    World \subseteq {"unordered", "netsh", "listen", "close", "read", "datagram", "restart"}

VARIABLES servicesEndpoints,  \* Backend.servicesEndpoints
          serviceMap,         \* Proxier.serviceMap: portal -> which of its infos
          infos,              \* the serviceInfo objects of each portal, each with
                              \* its socket and its loop
          services,           \* LoadBalancerRR.services
          addresses,          \* IPv4 addresses on the netsh interface
          callback,           \* the sink callback in progress, or None
          told,               \* endpoint objects the API has set and not deleted
          panicked            \* a goroutine panicked: the process is gone

vars == <<servicesEndpoints, serviceMap, infos, services, addresses, callback,
          told, panicked>>

LB == INSTANCE LoadBalancerRR WITH reply <- None

\* A portal is one address a service port listens on.
ServicePortPortalNames ==
    Names \X PortNames \X (ListenIPs \cup {allAvailableInterfaces})

Protocols == {"TCP", "UDP", "SCTP"}

Infos == [port : Int, protocol : Protocols,
          alive : BOOLEAN, open : BOOLEAN, loop : BOOLEAN]

Callbacks == [phase : {"merge", "unmerge"}, service : Services \cup {None},
              old : Services \cup {None}, ports : SUBSET PortNames, port : PortNames \cup {None},
              ips : SUBSET (ListenIPs \cup {allAvailableInterfaces}), waiting : ListenIPs \cup {None}]

\* What the API sends; a service without a cluster IP is Headless.
ASSUME ObjectAssumption ==
    /\ \A s \in Services :
          /\ s.name \in Names
          /\ DOMAIN s.ports \subseteq PortNames
          /\ \A p \in DOMAIN s.ports :
                /\ s.ports[p].port \in Ports
                /\ s.ports[p].nodePort \in Int
                /\ s.ports[p].protocol \in Protocols
          /\ s.clusterIPs # <<>> => s.clusterIPs[1] \in ListenIPs
          /\ s.externalIPs \subseteq ListenIPs
    /\ Endpoints \subseteq Seq(IPs)
    /\ Ports \subseteq Int
    /\ Generations \subseteq Nat
    /\ allAvailableInterfaces \notin ListenIPs

\* None is no object, no key and no record that it is compared with.
ASSUME NoneAssumption ==
    /\ None \notin Services /\ None \notin Endpoints
    /\ None \notin PortNames /\ None \notin ListenIPs /\ None \notin Generations
    /\ None \notin Infos /\ None \notin Callbacks
    /\ None \notin [service : Services, endpoint : Endpoints \cup {None}]
    /\ None \notin [endpoints : Seq(IPs \X Ports), index : Nat]

-----------------------------------------------------------------------------
\* Cluster IP and external IPs with the service's port, every interface with
\* its node port.  Defined for services that have a cluster IP (see Headless).
getListenIPPortMap(service, p) ==
    LET portal == {service.clusterIPs[1]} \cup service.externalIPs
        node == IF service.ports[p].nodePort = 0 THEN {} ELSE {allAvailableInterfaces}
    IN  [ip \in portal \cup node |->
            IF ip \in portal THEN service.ports[p].port ELSE service.ports[p].nodePort]

\* ClusterIPs.V4[0] of a service without a cluster IP panics.
Headless(service) == service.clusterIPs = <<>>

\* existingPortPortals, as mergeService returns it.
PortalsOf(service) ==
    UNION {{<<service.name, p, ip>> : ip \in DOMAIN getListenIPPortMap(service, p)} :
              p \in DOMAIN service.ports}

existingPortPortals ==
    IF callback.service = None THEN {} ELSE PortalsOf(callback.service)

sameConfig(info, listenPort) == info.port = listenPort

-----------------------------------------------------------------------------
(***************************************************************************)
(* The callback in progress.  `ports` are the service ports not finished   *)
(* yet, `port` the one being worked on and `ips` its addresses still to be *)
(* handled (Go iterates over a map: any order); `waiting` is the address   *)
(* netsh has accepted and does not show yet.                               *)
(***************************************************************************)
Callback(phase, service, old, ports) ==
    [phase |-> phase, service |-> service, old |-> old, ports |-> ports,
     port |-> None, ips |-> {}, waiting |-> None]

InPhase(phase) == ~panicked /\ callback # None /\ callback.phase = phase

\* The iteration has reached address ip of port p of the service.
Reaches(service, p, ip) ==
    /\ callback.waiting = None
    /\ ~Headless(service)
    /\ \/ /\ callback.port = None
          /\ p \in callback.ports
          /\ ip \in DOMAIN getListenIPPortMap(service, p)
       \/ /\ callback.port = p
          /\ ip \in callback.ips

\* What is left of the callback once address ip of port p is handled.
Handled(service, p, ip) ==
    [callback EXCEPT
        !.port = p,
        !.ips = (IF callback.port = None THEN DOMAIN getListenIPPortMap(service, p)
                                         ELSE callback.ips) \ {ip},
        !.waiting = None]

\* All addresses of port p are handled.
PortHandled(p) == callback.port = p /\ callback.ips = {} /\ callback.waiting = None

\* Mistake: never getting past a port.
NextPortAgain == [callback EXCEPT !.port = None]

NextPort == [callback EXCEPT !.ports = @ \ {callback.port}, !.port = None]

-----------------------------------------------------------------------------
\* The network stack: one open socket per address, port and protocol.
Bindable(ip, port, protocol) ==
    /\ protocol \in {"TCP", "UDP"}
    /\ \A portal \in ServicePortPortalNames, g \in Generations :
          LET info == infos[portal][g]
          IN  info # None /\ info.open /\ portal[3] = ip
                => info.port # port \/ info.protocol # protocol

\* The place of a new serviceInfo of the portal.
Fresh(portal) == CHOOSE g \in Generations :
    infos[portal][g] = None /\ \A h \in Generations : h < g => infos[portal][h] # None

\* newProxySocket and the rest of addServicePortPortal: a socket, its
\* serviceInfo, the map entry and the loop's goroutine; or an error that
\* mergeService logs.  An entry of the map is overwritten, never closed.
Listen(portal, port, protocol) ==
    \/ /\ Bindable(portal[3], port, protocol)
       /\ \E g \in Generations : infos[portal][g] = None
       /\ infos' = [infos EXCEPT ![portal][Fresh(portal)] =
              [port |-> port, protocol |-> protocol,
               alive |-> TRUE, open |-> TRUE, loop |-> TRUE]]
       /\ serviceMap' = [serviceMap EXCEPT ![portal] = Fresh(portal)]
    \/ /\ "listen" \in World \/ ~Bindable(portal[3], port, protocol)
       /\ UNCHANGED <<infos, serviceMap>>

\* Mistakes: keeping the map entry; keeping the loop alive; not closing the
\* socket.
CloseKeepsEntry(portal) ==
    /\ infos' = [infos EXCEPT ![portal][serviceMap[portal]].open = FALSE]
    /\ UNCHANGED <<serviceMap, addresses>>

CloseKeepsLoop(portal) ==
    /\ serviceMap' = [serviceMap EXCEPT ![portal] = None]
    /\ addresses' = addresses \ {portal[3]}
    /\ UNCHANGED infos

CloseKeepsSocket(portal) ==
    /\ serviceMap' = [serviceMap EXCEPT ![portal] = None]
    /\ infos' = [infos EXCEPT ![portal][serviceMap[portal]].alive = FALSE]
    /\ addresses' = addresses \ {portal[3]}

\* closeServicePortPortal: stopProxy, then the address leaves the interface
\* unless closing the socket or netsh reported an error.
closeServicePortPortal(portal) ==
    /\ serviceMap' = [serviceMap EXCEPT ![portal] = None]
    /\ infos' = [infos EXCEPT ![portal][serviceMap[portal]] =
          IF @.loop THEN [@ EXCEPT !.alive = FALSE, !.open = FALSE] ELSE None]
    /\ \/ addresses' = addresses \ {portal[3]}
       \/ World \cap {"close", "netsh"} # {} /\ UNCHANGED addresses

-----------------------------------------------------------------------------
Init ==
    /\ servicesEndpoints = [n \in Names |-> None]
    /\ serviceMap = [portal \in ServicePortPortalNames |-> None]
    /\ infos = [portal \in ServicePortPortalNames |-> [g \in Generations |-> None]]
    /\ services = [sp \in Names \X PortNames |-> None]
    /\ addresses = {}
    /\ callback = None
    /\ told = [n \in Names |-> [k \in Keys |-> None]]
    /\ panicked = FALSE

Idle == callback = None /\ ~panicked

\* OnServiceUpdate when the service is cached, OnServiceAdd otherwise.
SetService(service) ==
    LET cached == servicesEndpoints[service.name]
    IN  /\ Idle
        /\ callback' = Callback("merge", service,
              IF cached = None THEN None ELSE cached.service, DOMAIN service.ports)
        /\ UNCHANGED <<servicesEndpoints, serviceMap, infos, services, addresses, told, panicked>>

\* kpng deletes the endpoints of a service before the service.
DeleteService(name) ==
    /\ Idle
    /\ servicesEndpoints[name] # None
    /\ "unordered" \in World \/ \A k \in Keys : told[name][k] = None
    /\ LET old == servicesEndpoints[name].service
       IN  callback' = Callback("unmerge", None, old, DOMAIN old.ports)
    /\ UNCHANGED <<servicesEndpoints, serviceMap, infos, services, addresses, told, panicked>>

-----------------------------------------------------------------------------
\* exists && sameConfig(info, listenPort)
UpToDate(portal, listenPort) ==
    /\ serviceMap[portal] # None
    /\ sameConfig(infos[portal][serviceMap[portal]], listenPort)

\* mergeService: "Nothing changed." for a portal that is already there.
MergeUnchanged(p, ip) ==
    /\ InPhase("merge")
    /\ Reaches(callback.service, p, ip)
    /\ UpToDate(<<callback.service.name, p, ip>>, getListenIPPortMap(callback.service, p)[ip])
    /\ callback' = Handled(callback.service, p, ip)
    /\ UNCHANGED <<servicesEndpoints, serviceMap, infos, services, addresses, told, panicked>>

\* mergeService: a new portal, or one that listens on another port.
NeedsPortal(p, ip) ==
    /\ InPhase("merge")
    /\ Reaches(callback.service, p, ip)
    /\ ~UpToDate(<<callback.service.name, p, ip>>, getListenIPPortMap(callback.service, p)[ip])

ListenFor(p, ip) ==
    Listen(<<callback.service.name, p, ip>>, getListenIPPortMap(callback.service, p)[ip],
           callback.service.ports[p].protocol)

\* The address needs no netsh call, or netsh already shows it.
MergePortal(p, ip) ==
    /\ NeedsPortal(p, ip)
    /\ ip \in addresses \cup {allAvailableInterfaces}
    /\ ListenFor(p, ip)
    /\ callback' = Handled(callback.service, p, ip)
    /\ UNCHANGED <<servicesEndpoints, services, addresses, told, panicked>>

\* Mistake: asking netsh for "all interfaces" as well.
AddAnyAddress(p, ip) ==
    /\ NeedsPortal(p, ip)
    /\ ip \notin addresses
    /\ callback' = [Handled(callback.service, p, ip) EXCEPT !.waiting = ip]
    /\ UNCHANGED <<servicesEndpoints, serviceMap, infos, services, addresses, told, panicked>>

\* EnsureIPAddress: netsh accepts the address and is polled until it shows it.
AddAddress(p, ip) ==
    /\ NeedsPortal(p, ip)
    /\ ip \notin addresses \cup {allAvailableInterfaces}
    /\ callback' = [Handled(callback.service, p, ip) EXCEPT !.waiting = ip]
    /\ UNCHANGED <<servicesEndpoints, serviceMap, infos, services, addresses, told, panicked>>

\* Mistake: listening although the address never showed up.
AddressNotAwaited ==
    /\ InPhase("merge")
    /\ callback.waiting # None
    /\ ListenFor(callback.port, callback.waiting)
    /\ callback' = [callback EXCEPT !.waiting = None]
    /\ UNCHANGED <<servicesEndpoints, services, addresses, told, panicked>>

AddressShown ==
    /\ InPhase("merge")
    /\ callback.waiting # None
    /\ addresses' = addresses \cup {callback.waiting}
    /\ ListenFor(callback.port, callback.waiting)
    /\ callback' = [callback EXCEPT !.waiting = None]
    /\ UNCHANGED <<servicesEndpoints, services, told, panicked>>

\* EnsureIPAddress: netsh exits with a status, which is not treated as an
\* error (the address may be on another interface), or cannot be run.
AddressRefused(p, ip) ==
    /\ "netsh" \in World
    /\ NeedsPortal(p, ip)
    /\ ip # allAvailableInterfaces
    /\ ListenFor(p, ip) \/ UNCHANGED <<infos, serviceMap>>
    /\ callback' = Handled(callback.service, p, ip)
    /\ UNCHANGED <<servicesEndpoints, services, addresses, told, panicked>>

\* loadBalancer.NewService, after the portals of the port.
MergeNewService(p) ==
    /\ InPhase("merge")
    /\ PortHandled(p)
    /\ LB!NewService(<<callback.service.name, p>>)
    /\ callback' = NextPort
    /\ UNCHANGED <<servicesEndpoints, serviceMap, infos, addresses, told, panicked>>

MergeHeadless ==
    /\ InPhase("merge")
    /\ Headless(callback.service)
    /\ callback.ports # {}
    /\ panicked' = TRUE
    /\ UNCHANGED <<servicesEndpoints, serviceMap, infos, services, addresses, callback, told>>

\* OnServiceUpdate goes on to unmerge what the old object had.
BeginUnmerge ==
    /\ InPhase("merge")
    /\ callback.ports = {}
    /\ callback.old # None
    /\ callback' = Callback("unmerge", callback.service, callback.old, DOMAIN callback.old.ports)
    /\ UNCHANGED <<servicesEndpoints, serviceMap, infos, services, addresses, told, panicked>>

-----------------------------------------------------------------------------
\* unmergeService: a portal of the new object stays, a missing one is logged.
UnmergeSkip(p, ip) ==
    /\ InPhase("unmerge")
    /\ Reaches(callback.old, p, ip)
    /\ LET portal == <<callback.old.name, p, ip>>
       IN  portal \in existingPortPortals \/ serviceMap[portal] = None
    /\ callback' = Handled(callback.old, p, ip)
    /\ UNCHANGED <<servicesEndpoints, serviceMap, infos, services, addresses, told, panicked>>

\* Mistakes: not closing a portal the new object lacks; closing every portal
\* of the old object.
UnmergeNoPortal(p, ip) ==
    /\ InPhase("unmerge")
    /\ Reaches(callback.old, p, ip)
    /\ callback' = Handled(callback.old, p, ip)
    /\ UNCHANGED <<servicesEndpoints, serviceMap, infos, services, addresses, told, panicked>>

UnmergeEveryPortal(p, ip) ==
    /\ InPhase("unmerge")
    /\ Reaches(callback.old, p, ip)
    /\ serviceMap[<<callback.old.name, p, ip>>] # None
    /\ closeServicePortPortal(<<callback.old.name, p, ip>>)
    /\ callback' = Handled(callback.old, p, ip)
    /\ UNCHANGED <<servicesEndpoints, services, told, panicked>>

UnmergePortal(p, ip) ==
    /\ InPhase("unmerge")
    /\ Reaches(callback.old, p, ip)
    /\ LET portal == <<callback.old.name, p, ip>>
       IN  /\ portal \notin existingPortPortals
           /\ serviceMap[portal] # None
           /\ closeServicePortPortal(portal)
    /\ callback' = Handled(callback.old, p, ip)
    /\ UNCHANGED <<servicesEndpoints, services, told, panicked>>

\* Mistakes: dropping the balancer entry of a port that stays; keeping it.
UnmergeEveryBalancer(p) ==
    /\ InPhase("unmerge")
    /\ PortHandled(p)
    /\ LB!DeleteService(<<callback.old.name, p>>)
    /\ callback' = NextPort
    /\ UNCHANGED <<servicesEndpoints, serviceMap, infos, addresses, told, panicked>>

UnmergeNoBalancer(p) ==
    /\ InPhase("unmerge")
    /\ PortHandled(p)
    /\ callback' = NextPort
    /\ UNCHANGED <<servicesEndpoints, serviceMap, infos, services, addresses, told, panicked>>

\* "Only delete load balancer if all listen ips per name/port show inactive."
UnmergeDeleteService(p) ==
    /\ InPhase("unmerge")
    /\ PortHandled(p)
    /\ IF p \in {portal[2] : portal \in existingPortPortals}
       THEN UNCHANGED services
       ELSE LB!DeleteService(<<callback.old.name, p>>)
    /\ callback' = NextPort
    /\ UNCHANGED <<servicesEndpoints, serviceMap, infos, addresses, told, panicked>>

\* Backend.AddService keeps the endpoint of a known service.
AddService(service) ==
    servicesEndpoints' = [servicesEndpoints EXCEPT ![service.name] =
        IF @ = None THEN [service |-> service, endpoint |-> None]
                    ELSE [service |-> service, endpoint |-> @.endpoint]]

\* The callback returns to the sink, which records the outcome.
Return ==
    /\ ~panicked
    /\ callback # None
    /\ callback.ports = {}
    /\ callback.phase = "unmerge" \/ callback.old = None
    /\ IF callback.service = None
       THEN servicesEndpoints' = [servicesEndpoints EXCEPT ![callback.old.name] = None]
       ELSE AddService(callback.service)
    /\ callback' = None
    /\ UNCHANGED <<serviceMap, infos, services, addresses, told, panicked>>

-----------------------------------------------------------------------------
\* Mistake: not remembering the endpoint.
SetEndpointUncached(name, key, endpoint) ==
    /\ Idle
    /\ servicesEndpoints[name] # None
    /\ told' = [told EXCEPT ![name][key] = endpoint]
    /\ LB!OnEndpointsAdd(endpoint, servicesEndpoints[name].service)
    /\ UNCHANGED <<servicesEndpoints, serviceMap, infos, addresses, callback, panicked>>

\* The API sets an endpoint object of a service it has announced.
SetEndpoint(name, key, endpoint) ==
    LET cached == servicesEndpoints[name]
    IN  /\ Idle
        /\ told' = [told EXCEPT ![name][key] = endpoint]
        /\ \/ /\ cached = None          \* cacheSvcEndpoint.Service of nil
              /\ "unordered" \in World
              /\ panicked' = TRUE
              /\ UNCHANGED <<services, servicesEndpoints>>
           \/ /\ cached # None
              /\ IF cached.endpoint = None
                 THEN LB!OnEndpointsAdd(endpoint, cached.service)
                 ELSE LB!OnEndpointsUpdate(cached.endpoint, endpoint, cached.service)
              /\ servicesEndpoints' = [servicesEndpoints EXCEPT ![name].endpoint =
                    IF @ = None THEN endpoint ELSE @]
              /\ UNCHANGED panicked
        /\ UNCHANGED <<serviceMap, infos, addresses, callback>>

\* Mistake: forgetting the call to the balancer.
DeleteEndpointIgnored(name, key) ==
    /\ Idle
    /\ told[name][key] # None
    /\ told' = [told EXCEPT ![name][key] = None]
    /\ UNCHANGED <<servicesEndpoints, serviceMap, infos, services, addresses, callback, panicked>>

DeleteEndpoint(name, key) ==
    LET cached == servicesEndpoints[name]
    IN  /\ Idle
        /\ told[name][key] # None
        /\ told' = [told EXCEPT ![name][key] = None]
        /\ \/ /\ cached = None
              /\ UNCHANGED <<services, panicked>>
           \/ /\ cached # None
              /\ cached.endpoint = None          \* endpoint.GetIPs().V4 of nil
              /\ panicked' = TRUE
              /\ UNCHANGED services
           \/ /\ cached # None
              /\ cached.endpoint # None
              /\ LB!OnEndpointsDelete(cached.endpoint, cached.service)
              /\ UNCHANGED panicked
        /\ UNCHANGED <<servicesEndpoints, serviceMap, infos, addresses, callback>>

-----------------------------------------------------------------------------
\* A loop whose socket was closed comes back from Accept or ReadFrom and
\* leaves ProxyLoop; nothing refers to its serviceInfo any more.
LoopExit(portal, g) ==
    /\ ~panicked
    /\ infos[portal][g] # None
    /\ ~infos[portal][g].alive /\ ~infos[portal][g].open
    /\ infos' = [infos EXCEPT ![portal][g] = None]
    /\ UNCHANGED <<servicesEndpoints, serviceMap, services, addresses, callback, told, panicked>>

UdpLooping(portal, g) ==
    /\ ~panicked
    /\ infos[portal][g] # None
    /\ infos[portal][g].protocol = "UDP" /\ infos[portal][g].loop /\ infos[portal][g].open

\* "ReadFrom failed, exiting ProxyLoop": the portal stays in the map.
UdpReadFails(portal, g) ==
    /\ "read" \in World
    /\ UdpLooping(portal, g)
    /\ infos' = [infos EXCEPT ![portal][g].loop = FALSE]
    /\ UNCHANGED <<servicesEndpoints, serviceMap, services, addresses, callback, told, panicked>>

\* activeClients is nil (proxier.go:360), so the first datagram panics.
UdpDatagram(portal, g) ==
    /\ "datagram" \in World
    /\ UdpLooping(portal, g)
    /\ panicked' = TRUE
    /\ UNCHANGED <<servicesEndpoints, serviceMap, infos, services, addresses, callback, told>>

\* The agent is killed and started again; only the interface remembers,
\* an address netsh had accepted included.
Restart ==
    /\ "restart" \in World
    /\ servicesEndpoints' = [n \in Names |-> None]
    /\ serviceMap' = [portal \in ServicePortPortalNames |-> None]
    /\ infos' = [portal \in ServicePortPortalNames |-> [g \in Generations |-> None]]
    /\ services' = [sp \in Names \X PortNames |-> None]
    /\ callback' = None
    /\ told' = [n \in Names |-> [k \in Keys |-> None]]
    /\ panicked' = FALSE
    /\ addresses' = addresses \cup
          IF callback = None THEN {} ELSE {callback.waiting} \ {None}

-----------------------------------------------------------------------------
PortalStep(p, ip) ==
    \/ MergeUnchanged(p, ip) \/ MergePortal(p, ip)
    \/ AddAddress(p, ip) \/ AddressRefused(p, ip)
    \/ UnmergeSkip(p, ip) \/ UnmergePortal(p, ip)

\* A step of the callback in progress.
SinkStep ==
    \/ \E p \in PortNames, ip \in ListenIPs \cup {allAvailableInterfaces} : PortalStep(p, ip)
    \/ \E p \in PortNames : MergeNewService(p) \/ UnmergeDeleteService(p)
    \/ MergeHeadless \/ BeginUnmerge \/ Return

ApiStep ==
    \/ \E service \in Services : SetService(service)
    \/ \E name \in Names : DeleteService(name)
    \/ \E name \in Names, key \in Keys : DeleteEndpoint(name, key)
    \/ \E name \in Names, key \in Keys, endpoint \in Endpoints : SetEndpoint(name, key, endpoint)

LoopStep ==
    \E portal \in ServicePortPortalNames, g \in Generations :
        LoopExit(portal, g) \/ UdpReadFails(portal, g) \/ UdpDatagram(portal, g)

Next == SinkStep \/ AddressShown \/ ApiStep \/ LoopStep \/ Restart

Spec == Init /\ [][Next]_vars

(***************************************************************************)
(* Fairness: the Go scheduler runs the sink goroutine and the loops, and   *)
(* Windows eventually lists an address it has accepted.                    *)
(***************************************************************************)
Fairness ==
    /\ WF_vars(SinkStep)
    /\ WF_vars(AddressShown)
    /\ \A portal \in ServicePortPortalNames, g \in Generations : WF_vars(LoopExit(portal, g))

FairSpec == Spec /\ Fairness

-----------------------------------------------------------------------------
\* Type invariant: the sink's cache, the Proxier's map and the serviceInfo
\* objects it points to.
TypeOK ==
    /\ servicesEndpoints \in
          [Names -> [service : Services, endpoint : Endpoints \cup {None}] \cup {None}]
    /\ serviceMap \in [ServicePortPortalNames -> Generations \cup {None}]
    /\ infos \in [ServicePortPortalNames -> [Generations -> Infos \cup {None}]]
    /\ LB!TypeOK
    /\ addresses \subseteq ListenIPs
    /\ callback # None =>
          /\ callback.phase \in {"merge", "unmerge"}
          /\ callback.service \in Services \cup {None}
          /\ callback.old \in Services \cup {None}
          /\ callback.ports \subseteq PortNames
    /\ told \in [Names -> [Keys -> Endpoints \cup {None}]]
    /\ panicked \in BOOLEAN

\* Between callbacks the Proxier listens only for portals of services the
\* API has announced: what a sequence of updates and deletes leaves behind
\* in serviceMap, whatever netsh and the network stack answered meanwhile
\* (mergeService and unmergeService, proxier.go:195-320).
OnlyAnnouncedPortals ==
    Idle => \A portal \in ServicePortPortalNames :
        serviceMap[portal] # None =>
            LET cached == servicesEndpoints[portal[1]]
            IN  cached # None /\ portal \in PortalsOf(cached.service)

\* Between callbacks the balancer has an entry for exactly the ports of the
\* announced services, although portals, balancer and cache are changed one
\* after another (proxier.go:260 and 316, sink.go:39-50).
BalancerMatchesCache ==
    Idle => \A name \in Names, p \in PortNames :
        services[<<name, p>>] # None <=>
            /\ servicesEndpoints[name] # None
            /\ p \in DOMAIN servicesEndpoints[name].service.ports

\* Every loop that has not been stopped belongs to a portal of serviceMap: a
\* listener is closed or replaced, never forgotten ("The service port was
\* closed or replaced.", utils.go:208).
NoForgottenListener ==
    \A portal \in ServicePortPortalNames, g \in Generations :
        infos[portal][g] # None /\ infos[portal][g].alive => serviceMap[portal] = g

\* A portal in serviceMap has an open socket and a loop that serves it.
PortalsAreServed ==
    \A portal \in ServicePortPortalNames :
        serviceMap[portal] # None =>
            LET info == infos[portal][serviceMap[portal]]
            IN  info # None /\ info.alive /\ info.open /\ info.loop

\* The balancer only hands out addresses of endpoints the API still has
\* ("Now remove all endpoints missing from the update.", roundrobin.go:145).
NoStaleEndpoints ==
    \A name \in Names, p \in PortNames :
        services[<<name, p>>] # None =>
            \A a \in Range(services[<<name, p>>].endpoints) :
                \E k \in Keys : told[name][k] # None /\ a[1] \in Range(told[name][k])

\* Every endpoint object of a service takes part in the balancing of its
\* ports ("portname -> all ip:ports for that portname", utils.go:318).
AllEndpointsServed ==
    Idle => \A name \in Names, p \in PortNames :
        services[<<name, p>>] # None =>
            \A k \in Keys : told[name][k] # None =>
                Range(told[name][k]) \subseteq
                    {a[1] : a \in Range(services[<<name, p>>].endpoints)}

\* The portal of address ip of port p is up as the service object asks.
Up(service, p, ip) ==
    LET portal == <<service.name, p, ip>>
    IN  /\ serviceMap[portal] # None
        /\ infos[portal][serviceMap[portal]].port = getListenIPPortMap(service, p)[ip]
        /\ infos[portal][serviceMap[portal]].protocol = service.ports[p].protocol

\* With a well-behaved Windows, a finished callback leaves every portal of
\* every announced service listening on its port with its protocol
\* ("Nothing changed.", proxier.go:222, skips only portals that are so).
Reconciled ==
    Idle => \A name \in Names :
        servicesEndpoints[name] # None =>
            LET service == servicesEndpoints[name].service
            IN  \A p \in DOMAIN service.ports :
                    \A ip \in DOMAIN getListenIPPortMap(service, p) : Up(service, p, ip)

\* A portal's address stays on the interface while the portal listens ("IP
\* Address needs to be added for netsh portproxy to redirect traffic",
\* netsh.go:44), whichever portals were opened and closed before.
AddressesPresent ==
    \A portal \in ServicePortPortalNames :
        serviceMap[portal] # None => portal[3] \in addresses \cup {allAvailableInterfaces}

\* No callback and no datagram brings the agent down.
NoPanic == ~panicked

\* An update of a service never closes or replaces the socket of a portal
\* that the new object still has, on the same port (UpToDate; a Headless
\* object has no portals to look up).
UpdateKeepsPortals ==
    [][callback # None /\ callback.service # None /\ callback' # None =>
        Headless(callback.service) \/
        \A p \in DOMAIN callback.service.ports :
            \A ip \in DOMAIN getListenIPPortMap(callback.service, p) :
                LET portal == <<callback.service.name, p, ip>>
                    g == serviceMap[portal]
                IN  UpToDate(portal, getListenIPPortMap(callback.service, p)[ip]) =>
                        serviceMap'[portal] = g /\ infos'[portal][g].open]_vars

\* An update of a service never takes the endpoints of a port that the new
\* object still has (the check on servicePortNameMap, proxier.go:316).
UpdateKeepsEndpoints ==
    [][callback # None /\ callback.service # None /\ callback' # None =>
        \A p \in DOMAIN callback.service.ports :
            LET sp == <<callback.service.name, p>>
            IN  services[sp] # None => services'[sp] = services[sp]]_vars

\* Every callback returns, so the next change of the API is handled.
CallbackReturns == callback # None ~> callback = None

\* Every stopped loop ends and gives its serviceInfo back.
StoppedLoopsEnd ==
    \A portal \in ServicePortPortalNames, g \in Generations :
        (infos[portal][g] # None /\ ~infos[portal][g].alive) ~> infos[portal][g] = None
=============================================================================
