--------------------------- MODULE UserspaceProofs ---------------------------
(***************************************************************************)
(* Proofs about UserspaceProxier for any services, portals and faults: the *)
(* Proxier's map, its serviceInfo objects and the interface's addresses.   *)
(***************************************************************************)
EXTENDS UserspaceProxier, SequenceTheorems, WellFoundedInduction, TLAPS

ListenAddresses == ListenIPs \cup {allAvailableInterfaces}

Listens(service, p) == DOMAIN getListenIPPortMap(service, p)

CacheEntries == [service : Services, endpoint : Endpoints \cup {None}]

CachedService(n) ==
    IF servicesEndpoints[n] = None THEN None ELSE servicesEndpoints[n].service

\* The service object the callback in progress walks through.
Walked == IF callback.phase = "merge" THEN callback.service ELSE callback.old

\* Address ip of port p of that object is still to be reached.
ToDo(p, ip) ==
    /\ p \in callback.ports
    /\ ip \in Listens(Walked, p)
    /\ callback.port = p => ip \in callback.ips

\* The cache, by the name of the service.
CacheOK ==
    /\ servicesEndpoints \in [Names -> CacheEntries \cup {None}]
    /\ \A n \in Names : servicesEndpoints[n] # None => servicesEndpoints[n].service.name = n

\* The callback in progress is about one service, and `old` is what the cache
\* has of it.
CallbackOK ==
    callback # None =>
    /\ callback \in Callbacks
    /\ Walked # None
    /\ callback.phase = "merge" => callback.old = CachedService(callback.service.name)
    /\ callback.phase = "unmerge" =>
          /\ callback.old = CachedService(callback.old.name)
          /\ callback.service # None => callback.service.name = callback.old.name
          /\ callback.waiting = None
    /\ callback.ports \subseteq DOMAIN Walked.ports
    /\ callback.port # None =>
          callback.port \in callback.ports /\ callback.ips \subseteq Listens(Walked, callback.port)
    /\ callback.waiting # None =>
          /\ callback.port # None
          /\ callback.waiting \in Listens(Walked, callback.port) \ callback.ips

\* A portal of the map is one of the cached object or of the one being merged;
\* while the old object is unmerged, one of the new object or still to be reached.
AnnouncedOK ==
    \A portal \in ServicePortPortalNames : serviceMap[portal] # None =>
        /\ \/ CachedService(portal[1]) # None /\ portal \in PortalsOf(CachedService(portal[1]))
           \/ callback # None /\ portal \in existingPortPortals
        /\ callback # None /\ callback.phase = "unmerge" /\ portal[1] = callback.old.name =>
              portal \in existingPortPortals \/ ToDo(portal[2], portal[3])

\* A service object asks for this listener.
Asked(service, portal, info) ==
    /\ service.name = portal[1]
    /\ portal[2] \in DOMAIN service.ports
    /\ portal[3] \in Listens(service, portal[2])
    /\ info.port = getListenIPPortMap(service, portal[2])[portal[3]]
    /\ info.protocol = service.ports[portal[2]].protocol

InfoOK(portal, info) ==
    \/ info = None
    \/ /\ info \in Infos
       /\ info.alive = info.open
       /\ "read" \notin World => info.loop
       /\ \E service \in Services : Asked(service, portal, info)

\* The map points to objects whose socket is open.
InfosOK ==
    /\ serviceMap \in [ServicePortPortalNames -> Generations \cup {None}]
    /\ infos = [portal \in ServicePortPortalNames |-> [g \in Generations |-> infos[portal][g]]]
    /\ \A portal \in ServicePortPortalNames, g \in Generations : InfoOK(portal, infos[portal][g])
    /\ \A portal \in ServicePortPortalNames : serviceMap[portal] # None =>
          /\ infos[portal][serviceMap[portal]] # None
          /\ infos[portal][serviceMap[portal]].alive

PortalAt(service, p, ip) == <<service.name, p, ip>>

\* The portal listens on the port the service asks for.
Current(service, p, ip) ==
    UpToDate(PortalAt(service, p, ip), getListenIPPortMap(service, p)[ip])

\* While netsh is polled the portal is not there yet, or on another port.
WaitingOK ==
    callback # None /\ callback.waiting # None =>
        ~Current(callback.service, callback.port, callback.waiting)

RestOK ==
    /\ addresses \subseteq ListenIPs
    /\ told \in [Names -> [Keys -> Endpoints \cup {None}]]
    /\ panicked \in BOOLEAN

\* A service without a cluster IP gets no further than its first port.
HeadlessOK ==
    /\ \A n \in Names :
          servicesEndpoints[n] # None /\ Headless(servicesEndpoints[n].service) =>
             DOMAIN servicesEndpoints[n].service.ports = {}
    /\ callback # None /\ callback.service # None /\ Headless(callback.service) =>
          IF callback.phase = "merge"
          THEN callback.port = None /\ callback.ports = DOMAIN callback.service.ports
          ELSE DOMAIN callback.service.ports = {}

IInv == CacheOK /\ CallbackOK /\ AnnouncedOK /\ InfosOK /\ WaitingOK /\ HeadlessOK /\ RestOK

-----------------------------------------------------------------------------
\* No port of a service ever changes its number or its protocol, on any of
\* its addresses.
FixedConfig ==
    \A s, t \in Services : s.name = t.name =>
        \A p \in DOMAIN s.ports \cap DOMAIN t.ports :
            /\ s.ports[p].protocol = t.ports[p].protocol
            /\ \A ip \in Listens(s, p) \cap Listens(t, p) :
                  getListenIPPortMap(s, p)[ip] = getListenIPPortMap(t, p)[ip]

\* No address but "all interfaces" is of two service ports.
OwnAddresses ==
    \A s, t \in Services : \A p \in DOMAIN s.ports, q \in DOMAIN t.ports :
        (Listens(s, p) \cap Listens(t, q)) \ {allAvailableInterfaces} # {} =>
            s.name = t.name /\ p = q

\* No two service ports listen on the same address, port and protocol, and
\* all are of a protocol there are sockets for.
OwnSockets ==
    /\ \A s, t \in Services : \A p \in DOMAIN s.ports, q \in DOMAIN t.ports :
          \A ip \in Listens(s, p) \cap Listens(t, q) :
             /\ getListenIPPortMap(s, p)[ip] = getListenIPPortMap(t, q)[ip]
             /\ s.ports[p].protocol = t.ports[q].protocol
             => s.name = t.name /\ p = q
    /\ \A s \in Services : \A p \in DOMAIN s.ports : s.ports[p].protocol \in {"TCP", "UDP"}

\* Endpoints are announced after their service and withdrawn before it, and
\* services have a cluster IP.
Orderly ==
    /\ "unordered" \notin World /\ "datagram" \notin World
    /\ \A s \in Services : ~Headless(s)

\* An endpoint the API still has is known to the sink.
ToldOK ==
    /\ \A n \in Names, k \in Keys : told[n][k] # None =>
          servicesEndpoints[n] # None /\ servicesEndpoints[n].endpoint # None
    /\ callback # None /\ callback.service = None =>
          \A k \in Keys : told[callback.old.name][k] = None

\* What a callback has merged is up, and what is cached stays up while the
\* service itself is not worked on.
ReconciledOK ==
    /\ \A n \in Names : servicesEndpoints[n] # None =>
          \/ callback # None /\ Walked.name = n
          \/ \A p \in DOMAIN servicesEndpoints[n].service.ports :
                \A ip \in Listens(servicesEndpoints[n].service, p) :
                   Up(servicesEndpoints[n].service, p, ip)
    /\ \A s \in Services : callback # None /\ callback.service = s =>
          \A p \in DOMAIN s.ports : \A ip \in Listens(s, p) :
              \/ callback.phase = "merge" /\ ToDo(p, ip)
              \/ callback.waiting # None /\ callback.port = p /\ callback.waiting = ip
              \/ Up(s, p, ip)

-----------------------------------------------------------------------------
(***************************************************************************)
(* Portals.                                                                *)
(***************************************************************************)
LEMMA ListensTyped ==
    ASSUME NEW s \in Services, ~Headless(s), NEW p \in DOMAIN s.ports
    PROVE  /\ Listens(s, p) \subseteq ListenAddresses
           /\ \A ip \in Listens(s, p) : getListenIPPortMap(s, p)[ip] \in Int
<1>1. /\ s.clusterIPs[1] \in ListenIPs /\ s.externalIPs \subseteq ListenIPs
      /\ s.ports[p].port \in Int /\ s.ports[p].nodePort \in Int
  BY ObjectAssumption DEF Headless
<1> QED BY <1>1 DEF Listens, ListenAddresses, getListenIPPortMap

LEMMA ListensSome ==
    ASSUME NEW s, NEW p
    PROVE  Listens(s, p) # {}
<1>1. s.clusterIPs[1] \in Listens(s, p)
  BY DEF Listens, getListenIPPortMap
<1> QED BY <1>1

LEMMA PortalsOfIs ==
    ASSUME NEW s, NEW portal
    PROVE  portal \in PortalsOf(s) <=>
              \E p \in DOMAIN s.ports : \E ip \in Listens(s, p) : portal = <<s.name, p, ip>>
<1> QED BY DEF PortalsOf, Listens

LEMMA PortalsOfParts ==
    ASSUME NEW s, NEW portal \in ServicePortPortalNames
    PROVE  portal \in PortalsOf(s) <=>
              portal[1] = s.name /\ portal[2] \in DOMAIN s.ports /\ portal[3] \in Listens(s, portal[2])
<1>1. PICK n \in Names, p \in PortNames, ip \in ListenAddresses : portal = <<n, p, ip>>
  BY DEF ServicePortPortalNames, ListenAddresses
<1>2. portal \in PortalsOf(s) <=> n = s.name /\ p \in DOMAIN s.ports /\ ip \in Listens(s, p)
  <2>1. \A m, q, j : portal = <<m, q, j>> <=> m = n /\ q = p /\ j = ip
    BY <1>1
  <2> QED BY <2>1, PortalsOfIs
<1> QED BY <1>1, <1>2

LEMMA PortalTyped ==
    ASSUME NEW s \in Services, ~Headless(s), NEW p \in DOMAIN s.ports, NEW ip \in Listens(s, p)
    PROVE  /\ <<s.name, p, ip>> \in ServicePortPortalNames
           /\ <<s.name, p, ip>> \in PortalsOf(s)
<1>1. s.name \in Names /\ p \in PortNames /\ ip \in ListenAddresses
  BY ObjectAssumption, ListensTyped
<1> QED BY <1>1, PortalsOfIs DEF ServicePortPortalNames, ListenAddresses

-----------------------------------------------------------------------------
(***************************************************************************)
(* The callback in progress.                                               *)
(***************************************************************************)
CallbackOf(phase, service, old, ports, port, ips, waiting) ==
    [phase |-> phase, service |-> service, old |-> old, ports |-> ports, port |-> port,
     ips |-> ips, waiting |-> waiting]

\* What is left to do of the callback, the rest of it as it was.
Moves(ports, port, ips, waiting) ==
    /\ callback' \in Callbacks /\ callback' # None
    /\ callback'.phase = callback.phase
    /\ callback'.service = callback.service /\ callback'.old = callback.old
    /\ callback'.ports = ports /\ callback'.port = port
    /\ callback'.ips = ips /\ callback'.waiting = waiting

LEMMA CallbackFields ==
    ASSUME NEW c \in Callbacks
    PROVE  c = CallbackOf(c.phase, c.service, c.old, c.ports, c.port, c.ips, c.waiting)
<1> QED BY DEF Callbacks, CallbackOf

AtAddress(c, port, ips, waiting) ==
    [c EXCEPT !.port = port, !.ips = ips, !.waiting = waiting]

AtPorts(c, ports, port) == [c EXCEPT !.ports = ports, !.port = port]

LEMMA AtAddressIs ==
    ASSUME NEW c \in Callbacks, NEW p, NEW new, NEW w
    PROVE  AtAddress(c, p, new, w) = CallbackOf(c.phase, c.service, c.old, c.ports, p, new, w)
<1>0. PICK phase, service, old, ports, port, ips, waiting :
         /\ c = CallbackOf(phase, service, old, ports, port, ips, waiting)
         /\ phase = c.phase /\ service = c.service /\ old = c.old /\ ports = c.ports
         /\ port = c.port /\ ips = c.ips /\ waiting = c.waiting
  BY CallbackFields, Zenon
<1> DEFINE d == [c EXCEPT !.port = p]
           e == [d EXCEPT !.ips = new]
<1>1. AtAddress(c, p, new, w) = [e EXCEPT !.waiting = w]
  BY DEF AtAddress
<1>2. d = CallbackOf(phase, service, old, ports, p, ips, waiting)
  BY <1>0 DEF CallbackOf
<1> HIDE DEF d
<1>3. e = CallbackOf(phase, service, old, ports, p, new, waiting)
  BY <1>2 DEF CallbackOf
<1> HIDE DEF e
<1>4. [e EXCEPT !.waiting = w] = CallbackOf(phase, service, old, ports, p, new, w)
  BY <1>3 DEF CallbackOf
<1> QED BY <1>0, <1>1, <1>4

LEMMA AtPortsIs ==
    ASSUME NEW c \in Callbacks, NEW new, NEW p
    PROVE  AtPorts(c, new, p) = CallbackOf(c.phase, c.service, c.old, new, p, c.ips, c.waiting)
<1>0. PICK phase, service, old, ports, port, ips, waiting :
         /\ c = CallbackOf(phase, service, old, ports, port, ips, waiting)
         /\ phase = c.phase /\ service = c.service /\ old = c.old /\ ports = c.ports
         /\ port = c.port /\ ips = c.ips /\ waiting = c.waiting
  BY CallbackFields, Zenon
<1> DEFINE d == [c EXCEPT !.ports = new]
<1>1. AtPorts(c, new, p) = [d EXCEPT !.port = p]
  BY DEF AtPorts
<1>2. d = CallbackOf(phase, service, old, new, port, ips, waiting)
  BY <1>0 DEF CallbackOf
<1> HIDE DEF d
<1>3. [d EXCEPT !.port = p] = CallbackOf(phase, service, old, new, p, ips, waiting)
  BY <1>2 DEF CallbackOf
<1> QED BY <1>0, <1>1, <1>3

LEMMA WaitingIs ==
    ASSUME NEW c \in Callbacks, NEW w
    PROVE  [c EXCEPT !.waiting = w] =
              CallbackOf(c.phase, c.service, c.old, c.ports, c.port, c.ips, w)
<1>0. PICK phase, service, old, ports, port, ips, waiting :
         /\ c = CallbackOf(phase, service, old, ports, port, ips, waiting)
         /\ phase = c.phase /\ service = c.service /\ old = c.old /\ ports = c.ports
         /\ port = c.port /\ ips = c.ips /\ waiting = c.waiting
  BY CallbackFields, Zenon
<1>1. [c EXCEPT !.waiting = w] = CallbackOf(phase, service, old, ports, port, ips, w)
  BY <1>0 DEF CallbackOf
<1> QED BY <1>0, <1>1, Zenon

LEMMA CallbackTypes ==
    ASSUME NEW c \in Callbacks
    PROVE  /\ c.phase \in {"merge", "unmerge"}
           /\ c.service \in Services \cup {None} /\ c.old \in Services \cup {None}
           /\ c.ports \subseteq PortNames /\ c.port \in PortNames \cup {None}
           /\ c.ips \subseteq ListenAddresses /\ c.waiting \in ListenIPs \cup {None}
<1> QED BY DEF Callbacks, ListenAddresses

LEMMA MovesTo ==
    ASSUME callback \in Callbacks, NEW ports \in SUBSET PortNames,
           NEW port \in PortNames \cup {None}, NEW ips \in SUBSET ListenAddresses,
           NEW waiting \in ListenIPs \cup {None},
           callback' = CallbackOf(callback.phase, callback.service, callback.old, ports, port,
                                  ips, waiting)
    PROVE  Moves(ports, port, ips, waiting)
<1>1. /\ callback.phase \in {"merge", "unmerge"}
      /\ callback.service \in Services \cup {None} /\ callback.old \in Services \cup {None}
  BY CallbackTypes
<1>2. callback' \in Callbacks
  BY <1>1 DEF CallbackOf, Callbacks, ListenAddresses
<1>3. callback' # None
  BY <1>2, NoneAssumption
<1> QED BY <1>2, <1>3 DEF Moves, CallbackOf

\* The object a callback walks through is one of the API's.
LEMMA WalkedTyped ==
    ASSUME CallbackOK, callback # None
    PROVE  /\ callback \in Callbacks /\ Walked \in Services
           /\ callback.phase = "merge" => Walked = callback.service /\ callback.service \in Services
           /\ callback.phase = "unmerge" => Walked = callback.old /\ callback.old \in Services
           /\ callback.phase \in {"merge", "unmerge"}
<1>1. callback \in Callbacks /\ Walked # None
  BY DEF CallbackOK
<1>2. /\ callback.service \in Services \cup {None} /\ callback.old \in Services \cup {None}
      /\ callback.phase \in {"merge", "unmerge"}
  BY <1>1, CallbackTypes
<1> QED BY <1>1, <1>2 DEF Walked

\* Address ip of port p, once it is reached.
LEMMA ReachesIs ==
    ASSUME CallbackOK, callback # None, NEW p \in PortNames, NEW ip, Reaches(Walked, p, ip)
    PROVE  /\ ~Headless(Walked) /\ callback.waiting = None
           /\ p \in callback.ports /\ p \in DOMAIN Walked.ports /\ ip \in Listens(Walked, p)
           /\ <<Walked.name, p, ip>> \in ServicePortPortalNames
           /\ <<Walked.name, p, ip>> \in PortalsOf(Walked)
           /\ ToDo(p, ip)
<1>1. Walked \in Services
  BY WalkedTyped
<1>2. /\ ~Headless(Walked) /\ callback.waiting = None
      /\ p \in callback.ports /\ p \in DOMAIN Walked.ports /\ ip \in Listens(Walked, p)
      /\ ToDo(p, ip)
  BY NoneAssumption DEF Reaches, CallbackOK, ToDo, Listens
<1> QED BY <1>1, <1>2, PortalTyped

LEMMA HandledMoves ==
    ASSUME CallbackOK, callback # None, NEW p \in PortNames, NEW ip, Reaches(Walked, p, ip),
           NEW w \in ListenIPs \cup {None},
           \/ callback' = Handled(Walked, p, ip) /\ w = None
           \/ callback' = [Handled(Walked, p, ip) EXCEPT !.waiting = w]
    PROVE  Moves(callback.ports, p,
                 (IF callback.port = None THEN Listens(Walked, p) ELSE callback.ips) \ {ip}, w)
<1> DEFINE ips == (IF callback.port = None THEN Listens(Walked, p) ELSE callback.ips) \ {ip}
           h == CallbackOf(callback.phase, callback.service, callback.old, callback.ports, p,
                           ips, None)
<1>1. callback \in Callbacks /\ Walked \in Services
  BY WalkedTyped
<1>2. /\ callback.phase \in {"merge", "unmerge"}
      /\ callback.service \in Services \cup {None} /\ callback.old \in Services \cup {None}
      /\ callback.ports \in SUBSET PortNames /\ callback.ips \subseteq ListenAddresses
  BY <1>1, CallbackTypes
<1>3. ips \in SUBSET ListenAddresses
  <2>1. Listens(Walked, p) \subseteq ListenAddresses
    BY <1>1, ReachesIs, ListensTyped
  <2> QED BY <1>2, <2>1
<1>4. Handled(Walked, p, ip) = h
  <2>1. Handled(Walked, p, ip) = AtAddress(callback, p, ips, None)
    BY DEF Handled, Listens, AtAddress
  <2> HIDE DEF ips
  <2>2. AtAddress(callback, p, ips, None) =
           CallbackOf(callback.phase, callback.service, callback.old, callback.ports, p, ips, None)
    BY <1>1, AtAddressIs, Zenon
  <2> QED BY <2>1, <2>2
<1> HIDE DEF ips
<1>5. callback' = CallbackOf(callback.phase, callback.service, callback.old, callback.ports, p, ips, w)
  <2>1. [h EXCEPT !.waiting = w] =
           CallbackOf(callback.phase, callback.service, callback.old, callback.ports, p, ips, w)
    BY DEF CallbackOf
  <2> HIDE DEF h
  <2>2. CASE callback' = Handled(Walked, p, ip) /\ w = None
    BY <1>4, <2>2 DEF h
  <2>3. CASE callback' = [Handled(Walked, p, ip) EXCEPT !.waiting = w]
    BY <1>4, <2>1, <2>3, Zenon
  <2> QED BY <2>2, <2>3
<1>6. Moves(callback.ports, p, ips, w)
  BY <1>1, <1>2, <1>3, <1>5, MovesTo, Zenon
<1> QED BY <1>6 DEF ips

LEMMA NextPortMoves ==
    ASSUME CallbackOK, callback # None, callback' = NextPort
    PROVE  Moves(callback.ports \ {callback.port}, None, callback.ips, callback.waiting)
<1> DEFINE ports == callback.ports \ {callback.port}
<1>1. callback \in Callbacks
  BY WalkedTyped
<1>2. /\ ports \in SUBSET PortNames /\ callback.ips \in SUBSET ListenAddresses
      /\ callback.waiting \in ListenIPs \cup {None}
  BY <1>1, CallbackTypes
<1>3. callback' = AtPorts(callback, ports, None)
  BY DEF NextPort, AtPorts
<1> HIDE DEF ports
<1>4. callback' = CallbackOf(callback.phase, callback.service, callback.old, ports, None,
                             callback.ips, callback.waiting)
  BY <1>1, <1>3, AtPortsIs, Zenon
<1>5. Moves(ports, None, callback.ips, callback.waiting)
  BY <1>1, <1>2, <1>4, MovesTo, Zenon
<1> QED BY <1>5 DEF ports

LEMMA ShownMoves ==
    ASSUME CallbackOK, callback # None, callback' = [callback EXCEPT !.waiting = None]
    PROVE  Moves(callback.ports, callback.port, callback.ips, None)
<1>1. callback \in Callbacks
  BY WalkedTyped
<1>2. /\ callback.ports \in SUBSET PortNames /\ callback.port \in PortNames \cup {None}
      /\ callback.ips \in SUBSET ListenAddresses
  BY <1>1, CallbackTypes
<1>3. callback' = CallbackOf(callback.phase, callback.service, callback.old, callback.ports,
                             callback.port, callback.ips, None)
  BY <1>1, WaitingIs, Zenon
<1> QED BY <1>1, <1>2, <1>3, MovesTo, Zenon

-----------------------------------------------------------------------------
(***************************************************************************)
(* What a step does to the callback.                                       *)
(***************************************************************************)
\* The callback is about the same objects, in the same phase.
SameObjects ==
    /\ callback # None /\ callback' # None
    /\ callback'.phase = callback.phase
    /\ callback'.service = callback.service /\ callback'.old = callback.old
    /\ Walked' = Walked /\ existingPortPortals' = existingPortPortals

\* Address ip of port p has been reached; w is the address netsh was given.
Handles(p, ip, w) ==
    /\ SameObjects
    /\ ~Headless(Walked) /\ callback.waiting = None
    /\ p \in PortNames /\ p \in DOMAIN Walked.ports /\ ip \in Listens(Walked, p)
    /\ <<Walked.name, p, ip>> \in ServicePortPortalNames
    /\ <<Walked.name, p, ip>> \in PortalsOf(Walked)
    /\ callback'.ports = callback.ports /\ callback'.port = p /\ callback'.waiting = w
    /\ \A q, j : ToDo(q, j)' <=> ToDo(q, j) /\ ~(q = p /\ j = ip)

LEMMA MovesSame ==
    ASSUME callback # None, NEW ports, NEW port, NEW ips, NEW waiting,
           Moves(ports, port, ips, waiting)
    PROVE  SameObjects
<1> QED BY DEF Moves, SameObjects, Walked, existingPortPortals

LEMMA HandlesStep ==
    ASSUME CallbackOK, callback # None, NEW p \in PortNames, NEW ip, Reaches(Walked, p, ip),
           NEW w \in ListenIPs \cup {None},
           \/ callback' = Handled(Walked, p, ip) /\ w = None
           \/ callback' = [Handled(Walked, p, ip) EXCEPT !.waiting = w],
           w # None => w = ip /\ callback.phase = "merge",
           UNCHANGED servicesEndpoints
    PROVE  Handles(p, ip, w) /\ CallbackOK'
<1> DEFINE ips == (IF callback.port = None THEN Listens(Walked, p) ELSE callback.ips) \ {ip}
<1>1. /\ Walked \in Services /\ callback \in Callbacks
      /\ ~Headless(Walked) /\ callback.waiting = None
      /\ p \in callback.ports /\ p \in DOMAIN Walked.ports /\ ip \in Listens(Walked, p)
      /\ <<Walked.name, p, ip>> \in ServicePortPortalNames
      /\ <<Walked.name, p, ip>> \in PortalsOf(Walked)
      /\ ToDo(p, ip)
  BY WalkedTyped, ReachesIs
<1>2. Moves(callback.ports, p, ips, w)
  BY HandledMoves
<1>3. callback.port = None \/ callback.port = p
  BY DEF Reaches
<1>4. SameObjects
  BY <1>2, MovesSame
<1>5. /\ callback.ports \subseteq PortNames /\ callback.ports \subseteq DOMAIN Walked.ports
      /\ callback.port # None => callback.ips \subseteq Listens(Walked, callback.port)
  BY <1>1, CallbackTypes DEF CallbackOK
<1>6. \A q, j : ToDo(q, j)' <=> ToDo(q, j) /\ ~(q = p /\ j = ip)
  <2> SUFFICES ASSUME NEW q, NEW j
               PROVE  ToDo(q, j)' <=> ToDo(q, j) /\ ~(q = p /\ j = ip)
    OBVIOUS
  <2>1. ToDo(q, j)' <=> q \in callback.ports /\ j \in Listens(Walked, q) /\ (p = q => j \in ips)
    BY <1>2, <1>4 DEF ToDo, Moves, SameObjects, Listens, getListenIPPortMap
  <2>2. q \in callback.ports => q # None
    BY <1>5, NoneAssumption
  <2> QED BY <1>3, <2>1, <2>2 DEF ToDo
<1>7. CallbackOK'
  <2>1. /\ ips \subseteq Listens(Walked, p) /\ ip \notin ips
    BY <1>3, <1>5, NoneAssumption
  <2> HIDE DEF ips
  <2>3. /\ (callback.phase = "merge" => callback.old = CachedService(callback.service.name))'
        /\ (callback.phase = "unmerge" =>
             /\ callback.old = CachedService(callback.old.name)
             /\ callback.service # None => callback.service.name = callback.old.name)'
    BY <1>4 DEF SameObjects, CallbackOK, CachedService
  <2>4. callback'.phase = "unmerge" => callback'.waiting = None
    BY <1>2 DEF Moves
  <2>5. callback'.ports \subseteq DOMAIN Walked'.ports
    BY <1>2, <1>4, <1>5 DEF Moves, SameObjects
  <2>6. callback'.port # None =>
          callback'.port \in callback'.ports /\ callback'.ips \subseteq Listens(Walked', callback'.port)
    BY <1>1, <1>2, <1>4, <2>1 DEF Moves, SameObjects
  <2>7. callback'.waiting # None =>
          /\ callback'.port # None
          /\ callback'.waiting \in Listens(Walked', callback'.port) \ callback'.ips
    BY <1>1, <1>2, <1>4, <2>1, NoneAssumption DEF Moves, SameObjects
  <2>8. callback' \in Callbacks /\ Walked' # None
    BY <1>1, <1>2, <1>4, NoneAssumption DEF Moves, SameObjects
  <2> QED BY <2>3, <2>4, <2>5, <2>6, <2>7, <2>8 DEF CallbackOK
<1> QED BY <1>1, <1>2, <1>4, <1>6, <1>7 DEF Handles, Moves

\* What a step that leaves the cache alone must respect.
LEMMA CallbackKept ==
    ASSUME CallbackOK, SameObjects, UNCHANGED servicesEndpoints, callback' \in Callbacks,
           callback'.ports \subseteq callback.ports, callback'.waiting = None,
           callback'.port # None =>
              /\ callback'.port \in callback'.ports
              /\ callback'.ips \subseteq Listens(Walked, callback'.port)
    PROVE  CallbackOK'
<1>1. /\ (callback.phase = "merge" => callback.old = CachedService(callback.service.name))'
      /\ (callback.phase = "unmerge" =>
            /\ callback.old = CachedService(callback.old.name)
            /\ callback.service # None => callback.service.name = callback.old.name)'
  BY DEF SameObjects, CallbackOK, CachedService
<1>2. callback'.ports \subseteq DOMAIN Walked'.ports /\ Walked' # None
  BY DEF SameObjects, CallbackOK
<1> QED BY <1>1, <1>2 DEF CallbackOK, SameObjects

\* Port p is finished.
Finishes(p) ==
    /\ SameObjects
    /\ p \in callback.ports /\ callback.port = p
    /\ callback'.ports = callback.ports \ {p} /\ callback'.port = None
    /\ callback.waiting = None /\ callback'.waiting = None
    /\ \A q, j : ToDo(q, j)' <=> ToDo(q, j)

LEMMA FinishesStep ==
    ASSUME CallbackOK, callback # None, NEW p \in PortNames, PortHandled(p),
           callback' = NextPort, UNCHANGED servicesEndpoints
    PROVE  Finishes(p) /\ CallbackOK'
<1>1. /\ callback.port = p /\ callback.ips = {} /\ callback.waiting = None /\ p \in callback.ports
  BY NoneAssumption DEF PortHandled, CallbackOK
<1>2. Moves(callback.ports \ {p}, None, callback.ips, None)
  BY <1>1, NextPortMoves
<1>3. SameObjects
  BY <1>2, MovesSame
<1>4. \A q, j : ToDo(q, j)' <=> ToDo(q, j)
  <2> SUFFICES ASSUME NEW q, NEW j
               PROVE  ToDo(q, j)' <=> ToDo(q, j)
    OBVIOUS
  <2>1. callback.ports \subseteq PortNames
    BY WalkedTyped, CallbackTypes
  <2>2. ToDo(q, j)' <=> q \in callback.ports \ {p} /\ j \in Listens(Walked, q)
    BY <1>2, <1>3, <2>1, NoneAssumption DEF ToDo, Moves, SameObjects
  <2> QED BY <1>1, <2>2 DEF ToDo
<1>5. CallbackOK'
  BY <1>2, <1>3, CallbackKept DEF Moves
<1> QED BY <1>1, <1>2, <1>3, <1>4, <1>5 DEF Finishes, Moves

\* The address netsh was given is on the interface.
Shows ==
    /\ SameObjects
    /\ callback.phase = "merge" /\ callback.waiting \in ListenIPs
    /\ callback.port \in PortNames /\ callback.port \in DOMAIN Walked.ports
    /\ callback.waiting \in Listens(Walked, callback.port)
    /\ <<Walked.name, callback.port, callback.waiting>> \in PortalsOf(Walked)
    /\ <<Walked.name, callback.port, callback.waiting>> \in ServicePortPortalNames
    /\ callback'.waiting = None
    /\ callback'.port = callback.port /\ callback'.ports = callback.ports
    /\ \A q, j : ToDo(q, j)' <=> ToDo(q, j)

LEMMA ShowsStep ==
    ASSUME CallbackOK, HeadlessOK, callback # None, callback.phase = "merge",
           callback.waiting # None, callback' = [callback EXCEPT !.waiting = None],
           UNCHANGED servicesEndpoints
    PROVE  Shows /\ CallbackOK'
<1>1. Moves(callback.ports, callback.port, callback.ips, None)
  BY ShownMoves
<1>2. SameObjects
  BY <1>1, MovesSame
<1>3. /\ callback \in Callbacks /\ Walked \in Services
      /\ Walked = callback.service /\ callback.service \in Services
  BY WalkedTyped
<1>4. /\ callback.waiting \in ListenIPs /\ callback.port \in PortNames
      /\ callback.port \in DOMAIN Walked.ports
      /\ callback.port \in callback.ports
      /\ callback.waiting \in Listens(Walked, callback.port)
  BY <1>3, CallbackTypes DEF CallbackOK
<1>5. ~Headless(Walked)
  BY <1>3, <1>4, NoneAssumption DEF HeadlessOK
<1>6. \A q, j : ToDo(q, j)' <=> ToDo(q, j)
  BY <1>1, <1>2 DEF ToDo, Moves, SameObjects
<1>7. CallbackOK'
  BY <1>1, <1>2, CallbackKept DEF Moves, CallbackOK
<1>8. /\ <<Walked.name, callback.port, callback.waiting>> \in ServicePortPortalNames
      /\ <<Walked.name, callback.port, callback.waiting>> \in PortalsOf(Walked)
  BY <1>3, <1>4, <1>5, PortalTyped
<1> QED BY <1>1, <1>2, <1>4, <1>6, <1>7, <1>8 DEF Shows, Moves

LEMMA CallbackBegins ==
    ASSUME NEW phase \in {"merge", "unmerge"}, NEW service \in Services \cup {None},
           NEW old \in Services \cup {None}, NEW ports \in SUBSET PortNames,
           callback' = Callback(phase, service, old, ports)
    PROVE  /\ callback' \in Callbacks /\ callback' # None
           /\ callback'.phase = phase /\ callback'.service = service /\ callback'.old = old
           /\ callback'.ports = ports /\ callback'.port = None
           /\ callback'.ips = {} /\ callback'.waiting = None
<1>1. callback' \in Callbacks
  BY DEF Callback, Callbacks
<1>2. /\ callback'.phase = phase /\ callback'.service = service /\ callback'.old = old
      /\ callback'.ports = ports /\ callback'.port = None
      /\ callback'.ips = {} /\ callback'.waiting = None
  BY DEF Callback
<1>3. callback' # None
  BY <1>1, NoneAssumption
<1> QED BY <1>1, <1>2, <1>3

-----------------------------------------------------------------------------
(***************************************************************************)
(* What a step does to the map and to the serviceInfo objects.             *)
(***************************************************************************)
\* Object g of the portal becomes info, and the map's entry of it `entry`.
Changes(portal, g, info, entry) ==
    /\ infos' = [q \in ServicePortPortalNames |-> [h \in Generations |->
                   IF q = portal /\ h = g THEN info ELSE infos[q][h]]]
    /\ serviceMap' = [q \in ServicePortPortalNames |->
                        IF q = portal THEN entry ELSE serviceMap[q]]

LEMMA ChangesOK ==
    ASSUME InfosOK, NEW portal \in ServicePortPortalNames, NEW g \in Generations,
           NEW info, NEW entry \in Generations \cup {None},
           Changes(portal, g, info, entry), InfoOK(portal, info),
           entry # None =>
              \/ entry = g /\ info # None /\ info.alive
              \/ entry # g /\ entry = serviceMap[portal]
    PROVE  InfosOK'
<1>1. serviceMap' \in [ServicePortPortalNames -> Generations \cup {None}]
  BY DEF Changes, InfosOK
<1>2. \A q \in ServicePortPortalNames, h \in Generations :
         infos'[q][h] = IF q = portal /\ h = g THEN info ELSE infos[q][h]
  BY DEF Changes
<1>3. \A q \in ServicePortPortalNames : serviceMap'[q] = IF q = portal THEN entry ELSE serviceMap[q]
  BY DEF Changes
<1>4. infos' = [q \in ServicePortPortalNames |-> [h \in Generations |-> infos'[q][h]]]
  BY DEF Changes
<1>5. \A q \in ServicePortPortalNames, h \in Generations : InfoOK(q, infos'[q][h])
  BY <1>2 DEF InfosOK
<1>6. \A q \in ServicePortPortalNames : serviceMap'[q] # None =>
         /\ infos'[q][serviceMap'[q]] # None
         /\ infos'[q][serviceMap'[q]].alive
  <2> SUFFICES ASSUME NEW q \in ServicePortPortalNames, serviceMap'[q] # None
               PROVE  infos'[q][serviceMap'[q]] # None /\ infos'[q][serviceMap'[q]].alive
    OBVIOUS
  <2>1. serviceMap'[q] \in Generations
    BY <1>1
  <2>2. infos'[q][serviceMap'[q]] = IF q = portal /\ serviceMap'[q] = g THEN info
                                    ELSE infos[q][serviceMap'[q]]
    BY <1>2, <2>1
  <2>3. CASE q = portal
    BY <1>3, <2>2, <2>3 DEF InfosOK
  <2>4. CASE q # portal
    BY <1>3, <2>2, <2>4 DEF InfosOK
  <2> QED BY <2>3, <2>4
<1> QED BY <1>1, <1>4, <1>5, <1>6 DEF InfosOK, InfoOK, Asked

LEMMA InfosUnchanged ==
    ASSUME InfosOK, UNCHANGED <<infos, serviceMap>>
    PROVE  InfosOK'
<1>1. \A portal \in ServicePortPortalNames, g \in Generations : InfoOK(portal, infos'[portal][g])
  BY DEF InfosOK
<1>2. /\ serviceMap' \in [ServicePortPortalNames -> Generations \cup {None}]
      /\ infos' = [portal \in ServicePortPortalNames |-> [g \in Generations |-> infos'[portal][g]]]
      /\ \A portal \in ServicePortPortalNames : serviceMap'[portal] # None =>
            /\ infos'[portal][serviceMap'[portal]] # None
            /\ infos'[portal][serviceMap'[portal]].alive
  BY DEF InfosOK
<1> QED BY <1>1, <1>2 DEF InfosOK, InfoOK, Asked

\* The socket of a portal that did not listen on that port is opened, in a
\* serviceInfo of its own.
Opened(portal, port, protocol) ==
    /\ Bindable(portal[3], port, protocol)
    /\ \E g \in Generations :
          /\ infos[portal][g] = None
          /\ Changes(portal, g, [port |-> port, protocol |-> protocol,
                                 alive |-> TRUE, open |-> TRUE, loop |-> TRUE], g)

LEMMA FreshIs ==
    ASSUME NEW portal, \E g \in Generations : infos[portal][g] = None
    PROVE  Fresh(portal) \in Generations /\ infos[portal][Fresh(portal)] = None
<1> DEFINE free == {g \in Generations : infos[portal][g] = None}
<1>1. free \subseteq Nat /\ free # {}
  BY ObjectAssumption
<1>2. PICK g \in free : \A h \in free : ~(h < g)
  <2>1. \A x, y \in Nat : y < x => <<y, x>> \in OpToRel(<, Nat)
    BY DEF OpToRel
  <2>2. \E x \in free : \A y \in free : ~(<<y, x>> \in OpToRel(<, Nat))
    BY <1>1, NatLessThanWellFounded, WFMin
  <2> HIDE DEF free
  <2> QED BY <1>1, <2>1, <2>2
<1>3. g \in Generations /\ infos[portal][g] = None /\ \A h \in Generations : h < g => infos[portal][h] # None
  BY <1>2
<1> QED BY <1>3 DEF Fresh

LEMMA InfoUpdate ==
    ASSUME InfosOK, NEW portal \in ServicePortPortalNames, NEW g \in Generations, NEW new,
           NEW entry, infos' = [infos EXCEPT ![portal][g] = new],
           serviceMap' = [serviceMap EXCEPT ![portal] = entry]
    PROVE  Changes(portal, g, new, entry)
<1>1. /\ infos = [q \in ServicePortPortalNames |-> [h \in Generations |-> infos[q][h]]]
      /\ serviceMap \in [ServicePortPortalNames -> Generations \cup {None}]
  BY DEF InfosOK
<1>2. infos[portal] = [h \in Generations |-> infos[portal][h]]
  BY <1>1
<1>3. [infos[portal] EXCEPT ![g] = new] =
        [h \in Generations |-> IF h = g THEN new ELSE infos[portal][h]]
  BY <1>2
<1>4. infos' = [q \in ServicePortPortalNames |->
                  IF q = portal THEN [infos[portal] EXCEPT ![g] = new] ELSE infos[q]]
  BY <1>1
<1>5. \A q \in ServicePortPortalNames :
        (IF q = portal THEN [infos[portal] EXCEPT ![g] = new] ELSE infos[q]) =
        [h \in Generations |-> IF q = portal /\ h = g THEN new ELSE infos[q][h]]
  BY <1>1, <1>3
<1>6. serviceMap' = [q \in ServicePortPortalNames |-> IF q = portal THEN entry ELSE serviceMap[q]]
  BY <1>1
<1> QED BY <1>4, <1>5, <1>6 DEF Changes

LEMMA ListenIs ==
    ASSUME InfosOK, NEW portal \in ServicePortPortalNames, NEW port, NEW protocol,
           Listen(portal, port, protocol)
    PROVE  \/ Opened(portal, port, protocol)
           \/ /\ "listen" \in World \/ ~Bindable(portal[3], port, protocol)
              /\ UNCHANGED <<infos, serviceMap>>
<1> DEFINE new == [port |-> port, protocol |-> protocol, alive |-> TRUE, open |-> TRUE, loop |-> TRUE]
<1>1. CASE /\ Bindable(portal[3], port, protocol)
           /\ \E g \in Generations : infos[portal][g] = None
           /\ infos' = [infos EXCEPT ![portal][Fresh(portal)] = new]
           /\ serviceMap' = [serviceMap EXCEPT ![portal] = Fresh(portal)]
  <2>1. Fresh(portal) \in Generations /\ infos[portal][Fresh(portal)] = None
    BY <1>1, FreshIs
  <2> HIDE DEF new
  <2>2. Changes(portal, Fresh(portal), new, Fresh(portal))
    BY <1>1, <2>1, InfoUpdate
  <2> QED BY <1>1, <2>1, <2>2 DEF Opened, new
<1> QED BY <1>1 DEF Listen

LEMMA OpenedOK ==
    ASSUME InfosOK, NEW s \in Services, ~Headless(s), NEW p \in DOMAIN s.ports, NEW ip \in Listens(s, p),
           Opened(<<s.name, p, ip>>, getListenIPPortMap(s, p)[ip], s.ports[p].protocol)
    PROVE  InfosOK'
<1> DEFINE portal == <<s.name, p, ip>>
           new == [port |-> getListenIPPortMap(s, p)[ip], protocol |-> s.ports[p].protocol,
                   alive |-> TRUE, open |-> TRUE, loop |-> TRUE]
<1>1. portal \in ServicePortPortalNames
  BY PortalTyped
<1>2. new \in Infos
  BY ListensTyped, ObjectAssumption DEF Infos
<1>3. InfoOK(portal, new) /\ new # None
  BY <1>2, NoneAssumption DEF InfoOK, Asked
<1>4. PICK g \in Generations : Changes(portal, g, new, g)
  BY DEF Opened
<1>5. new.alive
  OBVIOUS
<1> HIDE DEF new, portal
<1> QED BY <1>1, <1>3, <1>4, <1>5, ChangesOK

\* A step of a serviceInfo that is still asked for as it was.
LEMMA InfoKept ==
    ASSUME NEW portal, NEW info, InfoOK(portal, info), info # None,
           NEW new \in Infos, new.port = info.port, new.protocol = info.protocol,
           new.alive = new.open, new.loop = info.loop \/ "read" \in World
    PROVE  InfoOK(portal, new) /\ new # None
<1> QED BY NoneAssumption DEF InfoOK, Asked

\* The portal leaves the map, and its socket is closed.
Closed(portal) ==
    /\ serviceMap[portal] \in Generations
    /\ \E new :
          /\ Changes(portal, serviceMap[portal], new, None)
          /\ new # None => ~new.alive /\ ~new.open
    /\ addresses' = addresses \ {portal[3]} \/ UNCHANGED addresses

LEMMA CloseIs ==
    ASSUME InfosOK, NEW portal \in ServicePortPortalNames, serviceMap[portal] # None,
           closeServicePortPortal(portal)
    PROVE  Closed(portal) /\ InfosOK'
<1> DEFINE g == serviceMap[portal]
           info == infos[portal][g]
           stopped == [info EXCEPT !.alive = FALSE, !.open = FALSE]
           new == IF info.loop THEN stopped ELSE None
<1>1. g \in Generations /\ info # None /\ InfoOK(portal, info)
  BY DEF InfosOK
<1>2. /\ stopped \in Infos /\ stopped.port = info.port /\ stopped.protocol = info.protocol
      /\ stopped.alive = FALSE /\ stopped.open = FALSE /\ stopped.loop = info.loop
  <2> HIDE DEF info
  <2> QED BY <1>1 DEF InfoOK, Infos
<1>3. Changes(portal, g, new, None)
  <2>1. infos' = [infos EXCEPT ![portal][g] = new] /\ serviceMap' = [serviceMap EXCEPT ![portal] = None]
    BY DEF closeServicePortPortal
  <2> HIDE DEF new, g
  <2> QED BY <1>1, <2>1, InfoUpdate
<1> HIDE DEF stopped, g, info
<1>4. InfoOK(portal, stopped)
  BY <1>1, <1>2, InfoKept
<1>5. InfoOK(portal, new)
  BY <1>4 DEF InfoOK
<1>6. new # None => ~new.alive /\ ~new.open
  BY <1>2
<1> HIDE DEF new
<1>7. InfosOK'
  BY <1>1, <1>3, <1>5, ChangesOK
<1>8. Closed(portal)
  BY <1>1, <1>3, <1>6 DEF Closed, closeServicePortPortal, g
<1> QED BY <1>7, <1>8

\* No step of a loop changes what the map points to.
MapKept ==
    /\ UNCHANGED serviceMap
    /\ \A portal \in ServicePortPortalNames : serviceMap[portal] # None =>
          LET info == infos[portal][serviceMap[portal]]
              new == infos'[portal][serviceMap[portal]]
          IN  /\ new.port = info.port /\ new.protocol = info.protocol
              /\ new.alive = info.alive /\ new.open = info.open

LEMMA LoopExitIs ==
    ASSUME InfosOK, NEW portal \in ServicePortPortalNames, NEW g \in Generations, LoopExit(portal, g)
    PROVE  /\ InfosOK' /\ MapKept
           /\ Changes(portal, g, None, serviceMap[portal])
<1>1. Changes(portal, g, None, serviceMap[portal])
  <2>1. serviceMap' = [serviceMap EXCEPT ![portal] = serviceMap[portal]]
    BY DEF LoopExit, InfosOK
  <2> QED BY <2>1, InfoUpdate DEF LoopExit
<1>2. serviceMap[portal] # None => serviceMap[portal] # g
  BY DEF LoopExit, InfosOK
<1>3. serviceMap[portal] \in Generations \cup {None} /\ InfoOK(portal, None)
  BY DEF InfosOK, InfoOK
<1>4. InfosOK'
  BY <1>1, <1>2, <1>3, ChangesOK
<1>5. \A q \in ServicePortPortalNames : serviceMap[q] # None =>
         infos'[q][serviceMap[q]] = infos[q][serviceMap[q]]
  BY <1>1, <1>2 DEF Changes, InfosOK
<1> QED BY <1>1, <1>4, <1>5 DEF MapKept, LoopExit

LEMMA ReadFailsIs ==
    ASSUME InfosOK, NEW portal \in ServicePortPortalNames, NEW g \in Generations,
           UdpReadFails(portal, g)
    PROVE  /\ InfosOK' /\ MapKept
           /\ \E new : /\ Changes(portal, g, new, serviceMap[portal])
                       /\ new # None /\ new.alive = infos[portal][g].alive
                       /\ infos[portal][g] # None
<1> DEFINE info == infos[portal][g]
           new == [info EXCEPT !.loop = FALSE]
<1>1. "read" \in World /\ info # None /\ InfoOK(portal, info)
  BY DEF UdpReadFails, UdpLooping, InfosOK
<1>2. Changes(portal, g, new, serviceMap[portal])
  <2>1. /\ infos' = [infos EXCEPT ![portal][g] = new]
        /\ serviceMap' = [serviceMap EXCEPT ![portal] = serviceMap[portal]]
    BY DEF UdpReadFails, InfosOK
  <2> HIDE DEF new
  <2> QED BY <2>1, InfoUpdate
<1>3. /\ new \in Infos /\ new.port = info.port /\ new.protocol = info.protocol
      /\ new.alive = info.alive /\ new.open = info.open
  <2> HIDE DEF info
  <2> QED BY <1>1 DEF InfoOK, Infos
<1>4. info.alive = info.open
  BY <1>1 DEF InfoOK
<1> HIDE DEF new, info
<1>5. InfoOK(portal, new) /\ new # None
  BY <1>1, <1>3, <1>4, InfoKept
<1>6. serviceMap[portal] \in Generations \cup {None}
  BY DEF InfosOK
<1>7. serviceMap[portal] = g => info.alive
  BY NoneAssumption DEF InfosOK, info
<1>8. InfosOK'
  BY <1>2, <1>3, <1>5, <1>6, <1>7, ChangesOK
<1>9. \A q \in ServicePortPortalNames : serviceMap[q] # None =>
         infos'[q][serviceMap[q]] = IF q = portal /\ serviceMap[q] = g THEN new
                                    ELSE infos[q][serviceMap[q]]
  BY <1>2 DEF Changes, InfosOK
<1>10. MapKept
  BY <1>3, <1>9 DEF MapKept, UdpReadFails, info
<1> QED BY <1>1, <1>2, <1>3, <1>5, <1>8, <1>10 DEF info

-----------------------------------------------------------------------------
(***************************************************************************)
(* The steps of a callback, by what they do.                               *)
(***************************************************************************)
\* The listener that the service asks for on address ip of port p.
Opens(service, p, ip) ==
    Opened(PortalAt(service, p, ip), getListenIPPortMap(service, p)[ip], service.ports[p].protocol)

Free(service, p, ip) ==
    Bindable(ip, getListenIPPortMap(service, p)[ip], service.ports[p].protocol)

\* mergeService at one address: nothing to do, a listener, an error, or a call
\* of netsh that is waited for.
Merges(p, ip, w) ==
    /\ Handles(p, ip, w)
    /\ callback.phase = "merge" /\ Walked = callback.service
    /\ UNCHANGED <<servicesEndpoints, services, addresses, told, panicked>>
    /\ \/ w = None /\ Current(Walked, p, ip) /\ UNCHANGED <<infos, serviceMap>>
       \/ /\ w = None /\ ~Current(Walked, p, ip)
          /\ "netsh" \in World \/ ip \in addresses \cup {allAvailableInterfaces}
          /\ Opens(Walked, p, ip)
       \/ /\ w = None /\ ~Current(Walked, p, ip)
          /\ World \cap {"netsh", "listen"} # {} \/ ~Free(Walked, p, ip)
          /\ UNCHANGED <<infos, serviceMap>>
       \/ /\ w = ip /\ w \in ListenIPs /\ ~Current(Walked, p, ip)
          /\ UNCHANGED <<infos, serviceMap>>

\* The rest of it once the address is there.
MergesShown ==
    /\ Shows /\ Walked = callback.service
    /\ UNCHANGED <<servicesEndpoints, services, told, panicked>>
    /\ addresses' = addresses \cup {callback.waiting}
    /\ ~Current(Walked, callback.port, callback.waiting)
    /\ \/ Opens(Walked, callback.port, callback.waiting)
       \/ /\ "listen" \in World \/ ~Free(Walked, callback.port, callback.waiting)
          /\ UNCHANGED <<infos, serviceMap>>

\* unmergeService at one address.
Unmerges(p, ip) ==
    /\ Handles(p, ip, None)
    /\ callback.phase = "unmerge" /\ Walked = callback.old
    /\ UNCHANGED <<servicesEndpoints, services, told, panicked>>
    /\ LET portal == PortalAt(Walked, p, ip)
       IN  \/ /\ portal \in existingPortPortals \/ serviceMap[portal] = None
              /\ UNCHANGED <<infos, serviceMap, addresses>>
           \/ portal \notin existingPortPortals /\ Closed(portal)

LEMMA MergesStep ==
    ASSUME IInv, NEW p \in PortNames, NEW ip \in ListenAddresses,
           \/ MergeUnchanged(p, ip) \/ MergePortal(p, ip)
           \/ AddAddress(p, ip) \/ AddressRefused(p, ip)
    PROVE  \E w \in ListenIPs \cup {None} : Merges(p, ip, w) /\ CallbackOK' /\ InfosOK'
<1>1. /\ InPhase("merge") /\ Reaches(callback.service, p, ip)
      /\ UNCHANGED <<servicesEndpoints, services, addresses, told, panicked>>
  BY DEF MergeUnchanged, MergePortal, AddAddress, AddressRefused, NeedsPortal
<1>2. CallbackOK /\ InfosOK /\ callback # None /\ callback.phase = "merge"
  BY <1>1 DEF IInv, InPhase
<1>3. Walked = callback.service /\ Walked \in Services /\ Reaches(Walked, p, ip)
  BY <1>1, <1>2, WalkedTyped
<1>4. /\ ~Headless(Walked) /\ p \in DOMAIN Walked.ports /\ ip \in Listens(Walked, p)
      /\ PortalAt(Walked, p, ip) \in ServicePortPortalNames
  BY <1>2, <1>3, ReachesIs DEF PortalAt
<1>5. PortalAt(Walked, p, ip)[3] = ip
  BY DEF PortalAt
<1>6. ASSUME ListenFor(p, ip)
      PROVE  \/ Opens(Walked, p, ip)
             \/ /\ "listen" \in World \/ ~Free(Walked, p, ip)
                /\ UNCHANGED <<infos, serviceMap>>
  <2>1. Listen(PortalAt(Walked, p, ip), getListenIPPortMap(Walked, p)[ip], Walked.ports[p].protocol)
    BY <1>3, <1>6 DEF ListenFor, PortalAt
  <2> QED BY <1>2, <1>4, <1>5, <2>1, ListenIs DEF Opens, Free
<1>7. UNCHANGED <<infos, serviceMap>> => InfosOK'
  BY <1>2, InfosUnchanged
<1>8. Opens(Walked, p, ip) => InfosOK'
  BY <1>2, <1>3, <1>4, OpenedOK DEF Opens, PortalAt
<1>9. Current(Walked, p, ip) <=>
        UpToDate(<<callback.service.name, p, ip>>, getListenIPPortMap(callback.service, p)[ip])
  BY <1>3 DEF Current, PortalAt
<1>10. CASE AddAddress(p, ip)
  <2>1. ip \in ListenIPs /\ ip # None
    BY <1>10, NoneAssumption DEF AddAddress, ListenAddresses
  <2>2. callback' = [Handled(Walked, p, ip) EXCEPT !.waiting = ip]
    BY <1>3, <1>10 DEF AddAddress
  <2>3. Handles(p, ip, ip) /\ CallbackOK'
    BY <1>1, <1>2, <1>3, <2>1, <2>2, HandlesStep
  <2>4. ~Current(Walked, p, ip) /\ UNCHANGED <<infos, serviceMap>>
    BY <1>9, <1>10 DEF AddAddress, NeedsPortal
  <2>5. Merges(p, ip, ip)
    BY <1>1, <1>2, <1>3, <2>1, <2>3, <2>4 DEF Merges
  <2> QED BY <1>7, <2>1, <2>3, <2>4, <2>5
<1>11. CASE MergeUnchanged(p, ip) \/ MergePortal(p, ip) \/ AddressRefused(p, ip)
  <2>1. callback' = Handled(Walked, p, ip)
    BY <1>3, <1>11 DEF MergeUnchanged, MergePortal, AddressRefused
  <2>2. Handles(p, ip, None) /\ CallbackOK'
    BY <1>1, <1>2, <1>3, <2>1, HandlesStep
  <2>3. CASE MergeUnchanged(p, ip)
    <3>1. Current(Walked, p, ip) /\ UNCHANGED <<infos, serviceMap>>
      BY <1>9, <2>3 DEF MergeUnchanged
    <3>2. Merges(p, ip, None)
      BY <1>1, <1>2, <1>3, <2>2, <3>1 DEF Merges
    <3> QED BY <1>7, <2>2, <3>1, <3>2
  <2>4. CASE MergePortal(p, ip)
    <3>1. ~Current(Walked, p, ip) /\ ListenFor(p, ip) /\ ip \in addresses \cup {allAvailableInterfaces}
      BY <1>9, <2>4 DEF MergePortal, NeedsPortal
    <3>2. Merges(p, ip, None)
      BY <1>1, <1>2, <1>3, <1>6, <2>2, <3>1 DEF Merges
    <3> QED BY <1>6, <1>7, <1>8, <2>2, <3>1, <3>2
  <2>5. CASE AddressRefused(p, ip)
    <3>1. /\ ~Current(Walked, p, ip) /\ "netsh" \in World
          /\ ListenFor(p, ip) \/ UNCHANGED <<infos, serviceMap>>
      BY <1>9, <2>5 DEF AddressRefused, NeedsPortal
    <3>2. Merges(p, ip, None)
      BY <1>1, <1>2, <1>3, <1>6, <2>2, <3>1 DEF Merges
    <3> QED BY <1>6, <1>7, <1>8, <2>2, <3>1, <3>2
  <2> QED BY <1>11, <2>3, <2>4, <2>5
<1> QED BY <1>10, <1>11

LEMMA MergesShownStep ==
    ASSUME IInv, AddressShown
    PROVE  MergesShown /\ CallbackOK' /\ InfosOK'
<1> DEFINE p == callback.port
           ip == callback.waiting
<1>1. /\ CallbackOK /\ InfosOK /\ HeadlessOK /\ WaitingOK
      /\ callback # None /\ callback.phase = "merge" /\ ip # None
      /\ callback' = [callback EXCEPT !.waiting = None]
      /\ addresses' = addresses \cup {ip} /\ ListenFor(p, ip)
      /\ UNCHANGED <<servicesEndpoints, services, told, panicked>>
  BY DEF IInv, AddressShown, InPhase
<1>2. Walked = callback.service /\ Walked \in Services
  BY <1>1, WalkedTyped
<1>3. Shows /\ CallbackOK'
  BY <1>1, ShowsStep
<1> HIDE DEF p, ip
<1>4. /\ p \in DOMAIN Walked.ports /\ ip \in Listens(Walked, p)
      /\ PortalAt(Walked, p, ip) \in ServicePortPortalNames
  BY <1>3 DEF Shows, PortalAt, p, ip
<1>5. PortalAt(Walked, p, ip)[3] = ip
  BY DEF PortalAt
<1>6. \/ Opens(Walked, p, ip)
      \/ /\ "listen" \in World \/ ~Free(Walked, p, ip)
         /\ UNCHANGED <<infos, serviceMap>>
  <2>1. Listen(PortalAt(Walked, p, ip), getListenIPPortMap(Walked, p)[ip], Walked.ports[p].protocol)
    BY <1>1, <1>2 DEF ListenFor, PortalAt
  <2> QED BY <1>1, <1>4, <1>5, <2>1, ListenIs DEF Opens, Free
<1>7. ~Current(Walked, p, ip)
  BY <1>1, <1>2 DEF WaitingOK, Current, PortalAt, p, ip
<1>8. ~Headless(Walked)
  BY <1>1, <1>2, <1>3, NoneAssumption DEF HeadlessOK, Shows
<1>9. InfosOK'
  BY <1>1, <1>2, <1>4, <1>6, <1>8, InfosUnchanged, OpenedOK DEF Opens, PortalAt
<1> QED BY <1>1, <1>2, <1>3, <1>6, <1>7, <1>9 DEF MergesShown, p, ip

LEMMA UnmergesStep ==
    ASSUME IInv, NEW p \in PortNames, NEW ip \in ListenAddresses,
           UnmergeSkip(p, ip) \/ UnmergePortal(p, ip)
    PROVE  Unmerges(p, ip) /\ CallbackOK' /\ InfosOK'
<1>1. /\ InPhase("unmerge") /\ Reaches(callback.old, p, ip)
      /\ callback' = Handled(callback.old, p, ip)
      /\ UNCHANGED <<servicesEndpoints, services, told, panicked>>
  BY DEF UnmergeSkip, UnmergePortal
<1>2. CallbackOK /\ InfosOK /\ callback # None /\ callback.phase = "unmerge"
  BY <1>1 DEF IInv, InPhase
<1>3. Walked = callback.old /\ Walked \in Services /\ Reaches(Walked, p, ip)
  BY <1>1, <1>2, WalkedTyped
<1>4. Handles(p, ip, None) /\ CallbackOK'
  BY <1>1, <1>2, <1>3, HandlesStep
<1> DEFINE portal == PortalAt(Walked, p, ip)
<1>5. portal \in ServicePortPortalNames
  BY <1>4 DEF Handles, PortalAt
<1>6. portal = <<callback.old.name, p, ip>>
  BY <1>3 DEF PortalAt
<1> HIDE DEF portal
<1>7. CASE UnmergeSkip(p, ip)
  <2>1. /\ portal \in existingPortPortals \/ serviceMap[portal] = None
        /\ UNCHANGED <<infos, serviceMap, addresses>>
    BY <1>6, <1>7 DEF UnmergeSkip
  <2> QED BY <1>1, <1>2, <1>3, <1>4, <2>1, InfosUnchanged DEF Unmerges, portal
<1>8. CASE UnmergePortal(p, ip)
  <2>1. /\ portal \notin existingPortPortals /\ serviceMap[portal] # None
        /\ closeServicePortPortal(portal)
    BY <1>6, <1>8 DEF UnmergePortal
  <2>2. Closed(portal) /\ InfosOK'
    BY <1>2, <1>5, <2>1, CloseIs
  <2> QED BY <1>1, <1>2, <1>3, <1>4, <2>1, <2>2 DEF Unmerges, portal
<1> QED BY <1>7, <1>8

-----------------------------------------------------------------------------
(***************************************************************************)
(* Every step keeps the invariant.                                         *)
(***************************************************************************)
LEMMA AnnouncedKept ==
    ASSUME AnnouncedOK, SameObjects, UNCHANGED servicesEndpoints,
           \A portal \in ServicePortPortalNames : serviceMap'[portal] # None =>
              serviceMap[portal] # None \/ portal \in existingPortPortals,
           callback.phase = "unmerge" =>
              \A portal \in ServicePortPortalNames :
                 serviceMap'[portal] # None /\ portal[1] = callback.old.name /\ ToDo(portal[2], portal[3]) =>
                    portal \in existingPortPortals \/ ToDo(portal[2], portal[3])'
    PROVE  AnnouncedOK'
<1>1. \A n : CachedService(n)' = CachedService(n)
  BY DEF CachedService
<1> SUFFICES ASSUME NEW portal \in ServicePortPortalNames, serviceMap'[portal] # None
             PROVE  /\ \/ CachedService(portal[1])' # None /\ portal \in PortalsOf(CachedService(portal[1])')
                       \/ callback' # None /\ portal \in existingPortPortals'
                    /\ callback' # None /\ callback'.phase = "unmerge" /\ portal[1] = callback'.old.name =>
                          portal \in existingPortPortals' \/ ToDo(portal[2], portal[3])'
  BY DEF AnnouncedOK, PortalsOf
<1>2. /\ callback' # None /\ existingPortPortals' = existingPortPortals
      /\ callback'.phase = callback.phase /\ callback'.old = callback.old /\ callback # None
  BY DEF SameObjects
<1>3. CASE serviceMap[portal] # None
  <2>1. /\ \/ CachedService(portal[1]) # None /\ portal \in PortalsOf(CachedService(portal[1]))
           \/ portal \in existingPortPortals
        /\ callback.phase = "unmerge" /\ portal[1] = callback.old.name =>
              portal \in existingPortPortals \/ ToDo(portal[2], portal[3])
    BY <1>2, <1>3 DEF AnnouncedOK
  <2>2. callback.phase = "unmerge" /\ portal[1] = callback.old.name =>
           portal \in existingPortPortals \/ ToDo(portal[2], portal[3])'
    BY <2>1
  <2> QED BY <1>1, <1>2, <2>1, <2>2
<1>4. CASE portal \in existingPortPortals
  BY <1>2, <1>4
<1> QED BY <1>3, <1>4

LEMMA HeadlessKept ==
    ASSUME HeadlessOK, SameObjects, UNCHANGED servicesEndpoints,
           callback.phase = "merge" => ~Headless(callback.service)
    PROVE  HeadlessOK'
<1> QED BY DEF HeadlessOK, SameObjects, Headless

\* The map after a listener was opened.
LEMMA OpensMap ==
    ASSUME NEW s, NEW p, NEW ip, Opens(s, p, ip)
    PROVE  \A q \in ServicePortPortalNames : q # PortalAt(s, p, ip) =>
              /\ serviceMap'[q] = serviceMap[q]
              /\ \A h \in Generations : infos'[q][h] = infos[q][h]
<1> QED BY DEF Opens, Opened, Changes

LEMMA MergesInv ==
    ASSUME IInv, NEW p, NEW ip, NEW w \in ListenIPs \cup {None}, Merges(p, ip, w), CallbackOK', InfosOK'
    PROVE  IInv'
<1>1. Handles(p, ip, w) /\ SameObjects /\ callback.phase = "merge" /\ callback # None
  BY DEF Merges, Handles, SameObjects
<1>2. Walked = callback.service /\ callback.service \in Services /\ callback.service # None
  BY <1>1, WalkedTyped, NoneAssumption DEF IInv
<1>3. UNCHANGED <<servicesEndpoints, addresses, told, panicked>>
  BY DEF Merges
<1>4. PortalAt(Walked, p, ip) \in existingPortPortals
  BY <1>1, <1>2 DEF Handles, existingPortPortals, PortalAt
<1>5. AnnouncedOK'
  <2>1. \A portal \in ServicePortPortalNames : serviceMap'[portal] # None =>
              serviceMap[portal] # None \/ portal \in existingPortPortals
    <3>1. CASE UNCHANGED serviceMap
      BY <3>1
    <3>2. CASE Opens(Walked, p, ip)
      BY <1>4, <3>2, OpensMap
    <3> QED BY <3>1, <3>2 DEF Merges
  <2> QED BY <1>1, <1>3, <2>1, AnnouncedKept DEF IInv
<1>6. HeadlessOK'
  BY <1>1, <1>2, <1>3, HeadlessKept DEF IInv, Handles
<1>7. WaitingOK'
  <2>1. callback'.service = callback.service /\ callback'.port = p /\ callback'.waiting = w
    BY <1>1 DEF Handles, SameObjects
  <2>2. w # None => w = ip /\ ~Current(callback.service, p, ip) /\ UNCHANGED <<infos, serviceMap>>
    BY <1>2 DEF Merges
  <2> QED BY <2>1, <2>2 DEF WaitingOK, Current, UpToDate, sameConfig, PortalAt
<1>8. RestOK'
  BY <1>3 DEF IInv, RestOK
<1>9. CacheOK'
  BY <1>3 DEF IInv, CacheOK
<1> QED BY <1>5, <1>6, <1>7, <1>8, <1>9 DEF IInv

LEMMA MergesShownInv ==
    ASSUME IInv, MergesShown, CallbackOK', InfosOK'
    PROVE  IInv'
<1> DEFINE p == callback.port
           ip == callback.waiting
<1>1. Shows /\ SameObjects /\ callback.phase = "merge" /\ callback # None
  BY DEF MergesShown, Shows, SameObjects
<1>2. Walked = callback.service /\ callback.service \in Services /\ callback.service # None
  BY <1>1, WalkedTyped, NoneAssumption DEF IInv
<1>3. UNCHANGED <<servicesEndpoints, told, panicked>> /\ addresses' = addresses \cup {ip}
  BY DEF MergesShown
<1>4. PortalAt(Walked, p, ip) \in existingPortPortals
  BY <1>1, <1>2 DEF Shows, existingPortPortals, PortalAt
<1>5. AnnouncedOK'
  <2>1. \A portal \in ServicePortPortalNames : serviceMap'[portal] # None =>
              serviceMap[portal] # None \/ portal \in existingPortPortals
    <3>1. CASE UNCHANGED serviceMap
      BY <3>1
    <3>2. CASE Opens(Walked, p, ip)
      BY <1>4, <3>2, OpensMap
    <3> QED BY <3>1, <3>2 DEF MergesShown
  <2> QED BY <1>1, <1>3, <2>1, AnnouncedKept DEF IInv
<1>6. HeadlessOK'
  <2>1. ~Headless(callback.service)
    BY <1>1, <1>2, NoneAssumption DEF IInv, HeadlessOK, Shows
  <2> QED BY <1>1, <1>3, <2>1, HeadlessKept DEF IInv
<1>7. WaitingOK'
  BY <1>1 DEF WaitingOK, Shows
<1>8. RestOK'
  BY <1>1, <1>3 DEF IInv, RestOK, Shows
<1>9. CacheOK'
  BY <1>3 DEF IInv, CacheOK
<1> QED BY <1>5, <1>6, <1>7, <1>8, <1>9 DEF IInv

\* The map after a portal was closed.
LEMMA ClosedMap ==
    ASSUME NEW portal \in ServicePortPortalNames, Closed(portal)
    PROVE  /\ serviceMap'[portal] = None
           /\ \A q \in ServicePortPortalNames : q # portal =>
                 /\ serviceMap'[q] = serviceMap[q]
                 /\ \A h \in Generations : infos'[q][h] = infos[q][h]
<1> QED BY DEF Closed, Changes

LEMMA UnmergesInv ==
    ASSUME IInv, NEW p, NEW ip, Unmerges(p, ip), CallbackOK', InfosOK'
    PROVE  IInv'
<1> DEFINE portal == PortalAt(Walked, p, ip)
<1>1. /\ Handles(p, ip, None) /\ SameObjects /\ callback.phase = "unmerge" /\ callback # None
      /\ Walked = callback.old /\ portal \in ServicePortPortalNames
      /\ UNCHANGED <<servicesEndpoints, told, panicked>>
  BY DEF Unmerges, Handles, SameObjects, PortalAt
<1>2. \/ /\ portal \in existingPortPortals \/ serviceMap[portal] = None
         /\ UNCHANGED <<infos, serviceMap, addresses>>
      \/ portal \notin existingPortPortals /\ Closed(portal)
  BY DEF Unmerges
<1>3. /\ \A q \in ServicePortPortalNames : serviceMap'[q] # None => serviceMap'[q] = serviceMap[q]
      /\ portal \in existingPortPortals \/ serviceMap'[portal] = None
  <2> HIDE DEF portal
  <2> QED BY <1>1, <1>2, ClosedMap
<1>4. AnnouncedOK'
  <2>1. ASSUME NEW q \in ServicePortPortalNames, serviceMap'[q] # None,
               q[1] = callback.old.name, ToDo(q[2], q[3])
        PROVE  q \in existingPortPortals \/ ToDo(q[2], q[3])'
    <3>1. CASE q[2] = p /\ q[3] = ip
      <4>1. q = <<q[1], q[2], q[3]>>
        BY DEF ServicePortPortalNames
      <4>2. q = portal
        BY <1>1, <2>1, <3>1, <4>1 DEF PortalAt
      <4> QED BY <1>3, <2>1, <4>2
    <3>2. CASE ~(q[2] = p /\ q[3] = ip)
      BY <1>1, <2>1, <3>2 DEF Handles
    <3> QED BY <3>1, <3>2
  <2>2. \A q \in ServicePortPortalNames : serviceMap'[q] # None => serviceMap[q] # None
    BY <1>3
  <2> QED BY <1>1, <2>1, <2>2, AnnouncedKept DEF IInv
<1>5. HeadlessOK'
  BY <1>1, HeadlessKept DEF IInv
<1>6. WaitingOK'
  BY <1>1 DEF WaitingOK, Handles
<1>7. RestOK'
  BY <1>1, <1>2 DEF IInv, RestOK, Closed
<1>8. CacheOK'
  BY <1>1 DEF IInv, CacheOK
<1> QED BY <1>4, <1>5, <1>6, <1>7, <1>8 DEF IInv

\* The last step of a port: only the balancer changes.
LEMMA FinishesInv ==
    ASSUME IInv, NEW p \in PortNames, MergeNewService(p) \/ UnmergeDeleteService(p)
    PROVE  /\ Finishes(p) /\ IInv'
           /\ UNCHANGED <<servicesEndpoints, serviceMap, infos, addresses, told, panicked>>
<1>1. /\ callback # None /\ PortHandled(p) /\ callback' = NextPort
      /\ UNCHANGED <<servicesEndpoints, serviceMap, infos, addresses, told, panicked>>
  BY DEF MergeNewService, UnmergeDeleteService, InPhase
<1>2. Finishes(p) /\ CallbackOK'
  BY <1>1, FinishesStep DEF IInv
<1>3. SameObjects /\ callback.port = p /\ callback'.waiting = None
      /\ \A q, j : ToDo(q, j)' <=> ToDo(q, j)
  BY <1>2 DEF Finishes
<1>4. AnnouncedOK'
  BY <1>1, <1>3, AnnouncedKept DEF IInv
<1>5. HeadlessOK'
  <2>1. callback.phase = "merge" => callback.service # None
    BY <1>1, WalkedTyped, NoneAssumption DEF IInv
  <2>2. callback.phase = "merge" => ~Headless(callback.service)
    BY <1>1, <1>3, <2>1, NoneAssumption DEF IInv, HeadlessOK
  <2> QED BY <1>1, <1>3, <2>2, HeadlessKept DEF IInv
<1>6. WaitingOK'
  BY <1>3 DEF WaitingOK
<1>7. RestOK' /\ CacheOK'
  BY <1>1 DEF IInv, RestOK, CacheOK
<1>8. InfosOK'
  BY <1>1, InfosUnchanged DEF IInv
<1> QED BY <1>1, <1>2, <1>4, <1>5, <1>6, <1>7, <1>8 DEF IInv

\* Steps that leave the callback, and what the map points to, alone.
LEMMA LoopInv ==
    ASSUME IInv, InfosOK', MapKept, RestOK', UNCHANGED <<servicesEndpoints, callback>>
    PROVE  IInv'
<1>1. /\ CacheOK' /\ CallbackOK' /\ HeadlessOK'
  BY DEF IInv, CacheOK, CallbackOK, HeadlessOK, CachedService, Walked
<1>2. AnnouncedOK'
  BY DEF IInv, AnnouncedOK, MapKept, CachedService, existingPortPortals, ToDo, Walked
<1>3. WaitingOK'
  <2> SUFFICES ASSUME callback # None, callback.waiting # None
               PROVE  ~Current(callback.service, callback.port, callback.waiting)'
    BY DEF WaitingOK
  <2> DEFINE portal == PortalAt(callback.service, callback.port, callback.waiting)
  <2>1. portal \in ServicePortPortalNames
    <3>1. /\ callback.phase = "merge" /\ Walked = callback.service /\ Walked \in Services
          /\ callback \in Callbacks /\ callback.service # None
      BY WalkedTyped, NoneAssumption DEF IInv, CallbackOK
    <3>2. /\ callback.port \in DOMAIN Walked.ports /\ callback.port \in PortNames
          /\ callback.waiting \in Listens(Walked, callback.port)
      BY <3>1, CallbackTypes DEF IInv, CallbackOK
    <3>3. ~Headless(Walked)
      BY <3>1, <3>2, NoneAssumption DEF IInv, HeadlessOK
    <3> QED BY <3>1, <3>2, <3>3, PortalTyped DEF PortalAt
  <2>2. ~Current(callback.service, callback.port, callback.waiting)
    BY DEF IInv, WaitingOK
  <2>3. /\ portal' = portal
        /\ getListenIPPortMap(callback.service, callback.port)' = getListenIPPortMap(callback.service, callback.port)
    BY DEF PortalAt, getListenIPPortMap
  <2> HIDE DEF portal
  <2>4. UpToDate(portal, getListenIPPortMap(callback.service, callback.port)[callback.waiting])' <=>
        UpToDate(portal, getListenIPPortMap(callback.service, callback.port)[callback.waiting])
    BY <2>1, <2>3 DEF UpToDate, sameConfig, MapKept
  <2> QED BY <2>2, <2>4 DEF Current, portal
<1> QED BY <1>1, <1>2, <1>3 DEF IInv

-----------------------------------------------------------------------------
LEMMA CachedTyped ==
    ASSUME CacheOK, NEW n \in Names, servicesEndpoints[n] # None
    PROVE  /\ servicesEndpoints[n] \in CacheEntries
           /\ servicesEndpoints[n].service \in Services
           /\ servicesEndpoints[n].service.name = n
           /\ servicesEndpoints[n].endpoint \in Endpoints \cup {None}
           /\ CachedService(n) = servicesEndpoints[n].service /\ CachedService(n) # None
<1>1. servicesEndpoints[n] \in CacheEntries /\ servicesEndpoints[n].service.name = n
  BY DEF CacheOK
<1>2. servicesEndpoints[n].service \in Services /\ servicesEndpoints[n].endpoint \in Endpoints \cup {None}
  BY <1>1 DEF CacheEntries
<1> QED BY <1>1, <1>2, NoneAssumption DEF CachedService

LEMMA CachedNone ==
    ASSUME CacheOK, NEW n \in Names
    PROVE  CachedService(n) = None <=> servicesEndpoints[n] = None
<1> QED BY CachedTyped DEF CachedService

\* A callback begins: all of its object is still to be walked through.
LEMMA BeginsAll ==
    ASSUME callback' # None, callback'.port = None, Walked' \in Services,
           callback'.ports = DOMAIN Walked'.ports,
           NEW portal \in ServicePortPortalNames, portal \in PortalsOf(Walked')
    PROVE  ToDo(portal[2], portal[3])'
<1>1. portal[2] \in DOMAIN Walked'.ports /\ portal[3] \in Listens(Walked', portal[2])
  <2> DEFINE s == Walked'
  <2>1. portal \in PortalsOf(s)
    OBVIOUS
  <2> HIDE DEF s
  <2>2. portal[2] \in DOMAIN s.ports /\ portal[3] \in Listens(s, portal[2])
    BY <2>1, PortalsOfParts
  <2> QED BY <2>2 DEF s
<1>2. portal[2] \in PortNames
  BY DEF ServicePortPortalNames
<1> QED BY <1>1, <1>2, NoneAssumption DEF ToDo

LEMMA SetServiceInv ==
    ASSUME IInv, NEW s \in Services, SetService(s)
    PROVE  /\ IInv' /\ callback = None /\ callback' # None
           /\ callback'.phase = "merge" /\ callback'.service = s
           /\ callback'.ports = DOMAIN s.ports /\ callback'.port = None /\ callback'.waiting = None
           /\ callback'.old = CachedService(s.name)
           /\ UNCHANGED <<servicesEndpoints, serviceMap, infos, addresses, told, panicked>>
<1>1. /\ s.name \in Names /\ DOMAIN s.ports \in SUBSET PortNames /\ s # None
  BY ObjectAssumption, NoneAssumption
<1>2. /\ callback = None
      /\ callback' = Callback("merge", s, CachedService(s.name), DOMAIN s.ports)
      /\ UNCHANGED <<servicesEndpoints, serviceMap, infos, addresses, told, panicked>>
  BY DEF SetService, Idle, CachedService
<1>3. CachedService(s.name) \in Services \cup {None}
  BY <1>1, CachedTyped DEF IInv, CachedService
<1>4. /\ callback' \in Callbacks /\ callback' # None
      /\ callback'.phase = "merge" /\ callback'.service = s
      /\ callback'.old = CachedService(s.name)
      /\ callback'.ports = DOMAIN s.ports /\ callback'.port = None
      /\ callback'.ips = {} /\ callback'.waiting = None
  BY <1>1, <1>2, <1>3, CallbackBegins
<1>5. Walked' = s /\ (\A n : CachedService(n)' = CachedService(n))
  BY <1>2, <1>4 DEF Walked, CachedService
<1>6. CallbackOK'
  BY <1>1, <1>4, <1>5 DEF CallbackOK
<1>7. AnnouncedOK'
  BY <1>2, <1>4, <1>5 DEF IInv, AnnouncedOK
<1>8. HeadlessOK'
  BY <1>2, <1>4 DEF IInv, HeadlessOK
<1>9. WaitingOK'
  BY <1>4 DEF WaitingOK
<1>10. RestOK' /\ CacheOK' /\ InfosOK'
  BY <1>2, InfosUnchanged DEF IInv, RestOK, CacheOK
<1> QED BY <1>2, <1>4, <1>6, <1>7, <1>8, <1>9, <1>10 DEF IInv

LEMMA DeleteServiceInv ==
    ASSUME IInv, NEW n \in Names, DeleteService(n)
    PROVE  /\ IInv' /\ callback = None /\ callback' # None
           /\ callback'.phase = "unmerge" /\ callback'.service = None
           /\ callback'.old = CachedService(n) /\ callback'.old.name = n
           /\ callback'.ports = DOMAIN callback'.old.ports /\ callback'.port = None
           /\ "unordered" \in World \/ \A k \in Keys : told[n][k] = None
           /\ UNCHANGED <<servicesEndpoints, serviceMap, infos, addresses, told, panicked>>
<1> DEFINE old == servicesEndpoints[n].service
<1>1. /\ callback = None /\ servicesEndpoints[n] # None
      /\ "unordered" \in World \/ \A k \in Keys : told[n][k] = None
      /\ callback' = Callback("unmerge", None, old, DOMAIN old.ports)
      /\ UNCHANGED <<servicesEndpoints, serviceMap, infos, addresses, told, panicked>>
  BY DEF DeleteService, Idle
<1>2. old \in Services /\ old.name = n /\ CachedService(n) = old /\ old # None
  BY <1>1, CachedTyped, NoneAssumption DEF IInv
<1> HIDE DEF old
<1>3. DOMAIN old.ports \in SUBSET PortNames
  BY <1>2, ObjectAssumption
<1>4. /\ callback' \in Callbacks /\ callback' # None
      /\ callback'.phase = "unmerge" /\ callback'.service = None /\ callback'.old = old
      /\ callback'.ports = DOMAIN old.ports /\ callback'.port = None
      /\ callback'.ips = {} /\ callback'.waiting = None
  BY <1>1, <1>2, <1>3, CallbackBegins
<1>5. Walked' = old /\ (\A m : CachedService(m)' = CachedService(m))
  BY <1>1, <1>4 DEF Walked, CachedService
<1>6. CallbackOK'
  BY <1>2, <1>4, <1>5 DEF CallbackOK
<1>7. AnnouncedOK'
  <2> SUFFICES ASSUME NEW portal \in ServicePortPortalNames, serviceMap[portal] # None
               PROVE  /\ CachedService(portal[1]) # None /\ portal \in PortalsOf(CachedService(portal[1]))
                      /\ portal[1] = n => ToDo(portal[2], portal[3])'
    BY <1>1, <1>2, <1>4, <1>5 DEF AnnouncedOK
  <2>1. CachedService(portal[1]) # None /\ portal \in PortalsOf(CachedService(portal[1]))
    BY <1>1 DEF IInv, AnnouncedOK
  <2>2. portal[1] = n => portal \in PortalsOf(Walked')
    BY <1>2, <1>5, <2>1
  <2> QED BY <1>2, <1>4, <1>5, <2>1, <2>2, BeginsAll
<1>8. HeadlessOK'
  BY <1>1, <1>4 DEF IInv, HeadlessOK
<1>9. WaitingOK'
  BY <1>4 DEF WaitingOK
<1>10. RestOK' /\ CacheOK' /\ InfosOK'
  BY <1>1, InfosUnchanged DEF IInv, RestOK, CacheOK
<1> QED BY <1>1, <1>2, <1>4, <1>6, <1>7, <1>8, <1>9, <1>10 DEF IInv

LEMMA BeginUnmergeInv ==
    ASSUME IInv, BeginUnmerge
    PROVE  /\ IInv' /\ callback # None /\ callback' # None /\ callback.phase = "merge"
           /\ callback.ports = {} /\ callback.waiting = None
           /\ callback'.phase = "unmerge" /\ callback'.service = callback.service
           /\ callback'.service \in Services /\ callback'.service # None
           /\ callback'.old = callback.old /\ callback'.old.name = callback.service.name
           /\ callback'.old \in Services
           /\ callback'.ports = DOMAIN callback'.old.ports /\ callback'.port = None
           /\ callback'.waiting = None
           /\ UNCHANGED <<servicesEndpoints, serviceMap, infos, addresses, told, panicked>>
<1> DEFINE old == callback.old
           s == callback.service
<1>1. /\ callback # None /\ callback.phase = "merge" /\ callback.ports = {} /\ old # None
      /\ callback' = Callback("unmerge", s, old, DOMAIN old.ports)
      /\ UNCHANGED <<servicesEndpoints, serviceMap, infos, addresses, told, panicked>>
  BY DEF BeginUnmerge, InPhase
<1>2. /\ s \in Services /\ s # None /\ s.name \in Names /\ callback \in Callbacks
      /\ Walked = s
  BY <1>1, WalkedTyped, ObjectAssumption, NoneAssumption DEF IInv
<1>3. old = CachedService(s.name) /\ callback.waiting = None
  BY <1>1 DEF IInv, CallbackOK
<1>4. old \in Services /\ old.name = s.name
  BY <1>1, <1>2, <1>3, CachedTyped DEF IInv, CachedService
<1> HIDE DEF old, s
<1>5. DOMAIN old.ports \in SUBSET PortNames
  BY <1>4, ObjectAssumption
<1>6. /\ callback' \in Callbacks /\ callback' # None
      /\ callback'.phase = "unmerge" /\ callback'.service = s /\ callback'.old = old
      /\ callback'.ports = DOMAIN old.ports /\ callback'.port = None
      /\ callback'.ips = {} /\ callback'.waiting = None
  BY <1>1, <1>2, <1>4, <1>5, CallbackBegins
<1>7. Walked' = old /\ (\A m : CachedService(m)' = CachedService(m))
  BY <1>1, <1>6 DEF Walked, CachedService
<1>8. CallbackOK'
  BY <1>1, <1>3, <1>4, <1>6, <1>7 DEF CallbackOK
<1>9. existingPortPortals = PortalsOf(s) /\ existingPortPortals' = PortalsOf(s)
  BY <1>2, <1>6 DEF existingPortPortals, s
<1>10. AnnouncedOK'
  <2> SUFFICES ASSUME NEW portal \in ServicePortPortalNames, serviceMap[portal] # None
               PROVE  /\ \/ CachedService(portal[1]) # None /\ portal \in PortalsOf(CachedService(portal[1]))
                         \/ portal \in PortalsOf(s)
                      /\ portal[1] = old.name => portal \in PortalsOf(s) \/ ToDo(portal[2], portal[3])'
    BY <1>1, <1>6, <1>7, <1>9 DEF AnnouncedOK
  <2>1. \/ CachedService(portal[1]) # None /\ portal \in PortalsOf(CachedService(portal[1]))
        \/ portal \in PortalsOf(s)
    BY <1>9 DEF IInv, AnnouncedOK
  <2>2. CASE portal \in PortalsOf(s)
    BY <2>1, <2>2
  <2>3. CASE portal \notin PortalsOf(s)
    <3>1. portal[1] = old.name => portal \in PortalsOf(Walked')
      BY <1>3, <1>4, <1>7, <2>1, <2>3
    <3> QED BY <1>4, <1>6, <1>7, <2>1, <3>1, BeginsAll
  <2> QED BY <2>2, <2>3
<1>11. HeadlessOK'
  <2>1. Headless(s) => DOMAIN s.ports = {}
    BY <1>1, <1>2 DEF IInv, HeadlessOK, s
  <2> QED BY <1>1, <1>6, <2>1 DEF IInv, HeadlessOK
<1>12. WaitingOK'
  BY <1>6 DEF WaitingOK
<1>13. RestOK' /\ CacheOK' /\ InfosOK'
  BY <1>1, InfosUnchanged DEF IInv, RestOK, CacheOK
<1> QED BY <1>1, <1>2, <1>3, <1>4, <1>6, <1>8, <1>10, <1>11, <1>12, <1>13 DEF IInv, s, old

\* The entry of one name changes.
LEMMA CacheChange ==
    ASSUME CacheOK, NEW n \in Names, NEW new \in CacheEntries \cup {None},
           new # None => new.service.name = n,
           servicesEndpoints' = [servicesEndpoints EXCEPT ![n] = new]
    PROVE  /\ CacheOK'
           /\ servicesEndpoints'[n] = new
           /\ \A m \in Names \ {n} : servicesEndpoints'[m] = servicesEndpoints[m]
<1> QED BY DEF CacheOK

LEMMA EntryTyped ==
    ASSUME NEW service \in Services, NEW endpoint \in Endpoints \cup {None}
    PROVE  LET e == [service |-> service, endpoint |-> endpoint]
           IN  e \in CacheEntries /\ e # None /\ e.service = service /\ e.endpoint = endpoint
<1> DEFINE e == [service |-> service, endpoint |-> endpoint]
<1>1. e \in CacheEntries
  BY DEF CacheEntries
<1>2. e # None
  <2> HIDE DEF e
  <2> QED BY <1>1, NoneAssumption DEF CacheEntries
<1> QED BY <1>1, <1>2

\* What the sink records when a callback returns.
Returned(n, new) ==
    /\ callback # None /\ callback.ports = {} /\ callback.waiting = None /\ callback.port = None
    /\ callback.phase = "unmerge" \/ callback.old = None
    /\ callback' = None
    /\ n \in Names /\ n = Walked.name
    /\ servicesEndpoints'[n] = new
    /\ \A m \in Names \ {n} : servicesEndpoints'[m] = servicesEndpoints[m]
    /\ callback.service = None => new = None /\ n = callback.old.name
    /\ callback.service # None =>
          /\ callback.service \in Services /\ n = callback.service.name
          /\ new # None /\ new.service = callback.service
          /\ servicesEndpoints[n] # None => new.endpoint = servicesEndpoints[n].endpoint
          /\ servicesEndpoints[n] = None => new.endpoint = None
    /\ UNCHANGED <<serviceMap, infos, services, addresses, told, panicked>>

LEMMA ReturnIs ==
    ASSUME IInv, Return
    PROVE  CacheOK' /\ \E n, new : Returned(n, new)
<1>1. /\ callback # None /\ callback.ports = {} /\ callback' = None
      /\ callback.phase = "unmerge" \/ callback.old = None
      /\ UNCHANGED <<serviceMap, infos, services, addresses, told, panicked>>
  BY DEF Return
<1>2. /\ callback \in Callbacks /\ Walked \in Services /\ Walked.name \in Names
      /\ callback.phase = "merge" => Walked = callback.service /\ callback.service \in Services
      /\ callback.phase = "unmerge" => Walked = callback.old /\ callback.old \in Services
      /\ callback.phase \in {"merge", "unmerge"}
  BY <1>1, WalkedTyped, ObjectAssumption DEF IInv
<1>3. callback.waiting = None /\ callback.port = None
  BY <1>1 DEF IInv, CallbackOK
<1>4. CASE callback.service = None
  <2>1. callback.phase = "unmerge" /\ Walked = callback.old
    BY <1>2, <1>4, NoneAssumption
  <2>2. servicesEndpoints' = [servicesEndpoints EXCEPT ![Walked.name] = None]
    BY <1>4, <2>1 DEF Return
  <2>3. /\ CacheOK' /\ servicesEndpoints'[Walked.name] = None
        /\ \A m \in Names \ {Walked.name} : servicesEndpoints'[m] = servicesEndpoints[m]
    BY <1>2, <2>2, CacheChange DEF IInv
  <2>4. Returned(Walked.name, None)
    BY <1>1, <1>2, <1>3, <1>4, <2>1, <2>3 DEF Returned
  <2> QED BY <2>3, <2>4
<1>5. CASE callback.service # None
  <2> DEFINE s == callback.service
             n == s.name
             endpoint == IF servicesEndpoints[n] = None THEN None ELSE servicesEndpoints[n].endpoint
             new == [service |-> s, endpoint |-> endpoint]
  <2>1. s \in Services /\ n = Walked.name /\ n \in Names
    <3>1. s \in Services
      BY <1>2, <1>5, CallbackTypes
    <3>2. n = Walked.name
      BY <1>1, <1>2, <1>5 DEF IInv, CallbackOK
    <3> QED BY <1>2, <3>1, <3>2
  <2>2. endpoint \in Endpoints \cup {None}
    BY <2>1, CachedTyped DEF IInv
  <2>3. servicesEndpoints' = [servicesEndpoints EXCEPT ![n] = new]
    BY <1>5, <2>1 DEF Return, AddService
  <2> HIDE DEF s, endpoint
  <2>4. new \in CacheEntries /\ new # None /\ new.service = s /\ new.endpoint = endpoint
    BY <2>1, <2>2, EntryTyped
  <2> HIDE DEF new
  <2>5. /\ CacheOK' /\ servicesEndpoints'[n] = new
        /\ \A m \in Names \ {n} : servicesEndpoints'[m] = servicesEndpoints[m]
    BY <2>1, <2>3, <2>4, CacheChange DEF IInv
  <2>6. /\ servicesEndpoints[n] # None => new.endpoint = servicesEndpoints[n].endpoint
        /\ servicesEndpoints[n] = None => new.endpoint = None
    BY <2>4 DEF endpoint
  <2>7. Returned(n, new)
    BY <1>1, <1>2, <1>3, <1>5, <2>1, <2>4, <2>5, <2>6 DEF Returned, s
  <2> QED BY <2>5, <2>7
<1> QED BY <1>4, <1>5

LEMMA ReturnInv ==
    ASSUME IInv, CacheOK', NEW n, NEW new, Returned(n, new)
    PROVE  IInv'
<1>1. /\ callback # None /\ callback' = None /\ callback.ports = {}
      /\ n \in Names /\ n = Walked.name
      /\ UNCHANGED <<serviceMap, infos, addresses, told, panicked>>
  BY DEF Returned
<1>2. /\ callback.phase = "merge" => Walked = callback.service /\ callback.service # None
      /\ callback.phase = "unmerge" => Walked = callback.old
      /\ callback.phase \in {"merge", "unmerge"}
  BY <1>1, WalkedTyped, NoneAssumption DEF IInv
<1>3. CallbackOK' /\ WaitingOK' /\ RestOK' /\ InfosOK'
  BY <1>1, InfosUnchanged DEF IInv, CallbackOK, WaitingOK, RestOK
<1>4. HeadlessOK'
  <2>1. servicesEndpoints'[n] # None /\ Headless(servicesEndpoints'[n].service) =>
           DOMAIN servicesEndpoints'[n].service.ports = {}
    BY <1>1, <1>2 DEF IInv, HeadlessOK, Returned
  <2>2. \A m \in Names \ {n} : servicesEndpoints'[m] = servicesEndpoints[m]
    BY DEF Returned
  <2>3. \A m \in Names : servicesEndpoints'[m] # None /\ Headless(servicesEndpoints'[m].service) =>
           DOMAIN servicesEndpoints'[m].service.ports = {}
    BY <2>1, <2>2 DEF IInv, HeadlessOK
  <2> QED BY <1>1, <2>3 DEF HeadlessOK
<1>5. AnnouncedOK'
  <2> SUFFICES ASSUME NEW portal \in ServicePortPortalNames, serviceMap[portal] # None
               PROVE  /\ CachedService(portal[1])' # None
                      /\ portal \in PortalsOf(CachedService(portal[1])')
    BY <1>1 DEF AnnouncedOK
  <2>1. portal[1] \in Names
    BY DEF ServicePortPortalNames
  <2>2. \/ CachedService(portal[1]) # None /\ portal \in PortalsOf(CachedService(portal[1]))
        \/ portal \in existingPortPortals
    BY DEF IInv, AnnouncedOK
  <2>3. callback.phase = "unmerge" /\ portal[1] = callback.old.name => portal \in existingPortPortals
    BY <1>1 DEF IInv, AnnouncedOK, ToDo
  <2>4. CASE portal[1] = n
    <3>1. portal \in existingPortPortals
      <4>1. CASE callback.phase = "unmerge"
        BY <1>1, <1>2, <2>3, <2>4, <4>1
      <4>2. CASE callback.phase = "merge"
        <5>1. callback.service # None /\ portal[1] = callback.service.name
          BY <1>1, <1>2, <2>4, <4>2 DEF Returned
        <5>2. callback.old = CachedService(portal[1])
          BY <1>1, <4>2, <5>1 DEF IInv, CallbackOK
        <5> QED BY <1>1, <2>2, <4>2, <5>2 DEF Returned
      <4> QED BY <1>2, <4>1, <4>2
    <3>2. callback.service # None /\ portal \in PortalsOf(callback.service)
      BY <3>1 DEF existingPortPortals
    <3>3. CachedService(portal[1])' = callback.service
      BY <2>4, <3>2 DEF Returned, CachedService
    <3> QED BY <3>2, <3>3
  <2>5. CASE portal[1] # n
    <3>1. portal \notin existingPortPortals
      <4>1. CASE callback.service = None
        BY <4>1 DEF existingPortPortals
      <4>2. CASE callback.service # None
        BY <2>5, <4>2, PortalsOfParts DEF existingPortPortals, Returned
      <4> QED BY <4>1, <4>2
    <3>2. CachedService(portal[1])' = CachedService(portal[1])
      BY <2>1, <2>5 DEF Returned, CachedService
    <3> QED BY <2>2, <3>1, <3>2
  <2> QED BY <2>4, <2>5
<1> QED BY <1>3, <1>4, <1>5 DEF IInv

\* Steps between callbacks that leave the cached services as they are.
LEMMA EndpointInv ==
    ASSUME IInv, callback = None, UNCHANGED <<serviceMap, infos, addresses, callback>>,
           CacheOK', RestOK', \A n \in Names : CachedService(n)' = CachedService(n)
    PROVE  IInv'
<1>1. CallbackOK' /\ WaitingOK' /\ InfosOK'
  BY InfosUnchanged DEF IInv, CallbackOK, WaitingOK
<1>2. AnnouncedOK'
  <2>1. \A portal \in ServicePortPortalNames : portal[1] \in Names
    BY DEF ServicePortPortalNames
  <2> QED BY <2>1 DEF IInv, AnnouncedOK
<1>3. HeadlessOK'
  <2> SUFFICES ASSUME NEW n \in Names, servicesEndpoints'[n] # None,
                      Headless(servicesEndpoints'[n].service)
               PROVE  DOMAIN servicesEndpoints'[n].service.ports = {}
    BY DEF HeadlessOK
  <2>1. CachedService(n)' = servicesEndpoints'[n].service /\ CachedService(n)' # None
    <3>1. servicesEndpoints'[n] \in CacheEntries
      BY DEF CacheOK
    <3>2. servicesEndpoints'[n].service \in Services
      BY <3>1 DEF CacheEntries
    <3> QED BY <3>2, NoneAssumption DEF CachedService
  <2>2. servicesEndpoints[n] # None /\ CachedService(n) = servicesEndpoints[n].service
    BY <2>1 DEF CachedService
  <2> QED BY <2>1, <2>2 DEF IInv, HeadlessOK
<1> QED BY <1>1, <1>2, <1>3 DEF IInv

\* The endpoint of one name is remembered.
LEMMA SetEndpointIs ==
    ASSUME IInv, NEW n \in Names, NEW k \in Keys, NEW e \in Endpoints, SetEndpoint(n, k, e)
    PROVE  /\ IInv' /\ callback = None /\ callback' = None
           /\ UNCHANGED <<serviceMap, infos, addresses>>
           /\ told' = [told EXCEPT ![n][k] = e]
           /\ \A m \in Names : CachedService(m)' = CachedService(m)
           /\ \A m \in Names : servicesEndpoints'[m] = None <=> servicesEndpoints[m] = None
           /\ \A m \in Names : servicesEndpoints[m] # None => servicesEndpoints'[m].endpoint =
                 IF m = n /\ servicesEndpoints[m].endpoint = None THEN e ELSE servicesEndpoints[m].endpoint
           /\ \/ panicked' = panicked /\ servicesEndpoints[n] # None
              \/ panicked' = TRUE /\ "unordered" \in World
<1>1. /\ callback = None /\ callback' = None
      /\ told' = [told EXCEPT ![n][k] = e]
      /\ UNCHANGED <<serviceMap, infos, addresses, callback>>
  BY DEF SetEndpoint, Idle
<1>2. told' \in [Names -> [Keys -> Endpoints \cup {None}]]
  BY <1>1 DEF IInv, RestOK
<1>3. CASE servicesEndpoints[n] = None
  <2>1. UNCHANGED servicesEndpoints /\ panicked' = TRUE /\ "unordered" \in World
    BY <1>3 DEF SetEndpoint
  <2>2. CacheOK' /\ RestOK' /\ \A m \in Names : CachedService(m)' = CachedService(m)
    BY <1>1, <1>2, <2>1 DEF IInv, CacheOK, RestOK, CachedService
  <2>3. IInv'
    BY <1>1, <2>2, EndpointInv
  <2> QED BY <1>1, <1>3, <2>1, <2>2, <2>3
<1>4. CASE servicesEndpoints[n] # None
  <2> DEFINE c == servicesEndpoints[n]
             x == IF c.endpoint = None THEN e ELSE c.endpoint
             new == [service |-> c.service, endpoint |-> x]
  <2>1. servicesEndpoints' = [servicesEndpoints EXCEPT ![n].endpoint = IF @ = None THEN e ELSE @]
        /\ UNCHANGED panicked
    BY <1>4 DEF SetEndpoint
  <2>2. /\ c \in CacheEntries /\ c.service \in Services /\ c.service.name = n
        /\ c.endpoint \in Endpoints \cup {None}
    BY <1>4, CachedTyped DEF IInv
  <2>3. [c EXCEPT !.endpoint = x] = new
    BY <2>2 DEF CacheEntries
  <2>4. servicesEndpoints' = [servicesEndpoints EXCEPT ![n] = new]
    BY <2>1, <2>3
  <2>5. new \in CacheEntries /\ new # None /\ new.service = c.service /\ new.endpoint = x
    BY <2>2, EntryTyped
  <2> HIDE DEF new, x
  <2>6. /\ CacheOK' /\ servicesEndpoints'[n] = new
        /\ \A m \in Names \ {n} : servicesEndpoints'[m] = servicesEndpoints[m]
    BY <2>2, <2>4, <2>5, CacheChange DEF IInv
  <2>7. \A m \in Names : CachedService(m)' = CachedService(m)
    BY <1>4, <2>5, <2>6 DEF CachedService
  <2>8. RestOK'
    BY <1>1, <1>2, <2>1 DEF IInv, RestOK
  <2>9. IInv'
    BY <1>1, <2>6, <2>7, <2>8, EndpointInv
  <2>10. \A m \in Names : servicesEndpoints'[m] = None <=> servicesEndpoints[m] = None
    BY <1>4, <2>5, <2>6
  <2>11. \A m \in Names : servicesEndpoints[m] # None => servicesEndpoints'[m].endpoint =
            IF m = n /\ servicesEndpoints[m].endpoint = None THEN e ELSE servicesEndpoints[m].endpoint
    BY <2>5, <2>6 DEF x
  <2> QED BY <1>1, <1>4, <2>1, <2>7, <2>9, <2>10, <2>11
<1> QED BY <1>3, <1>4

LEMMA DeleteEndpointIs ==
    ASSUME IInv, NEW n \in Names, NEW k \in Keys, DeleteEndpoint(n, k)
    PROVE  /\ IInv' /\ callback = None /\ callback' = None
           /\ UNCHANGED <<servicesEndpoints, serviceMap, infos, addresses>>
           /\ told[n][k] # None /\ told' = [told EXCEPT ![n][k] = None]
           /\ \/ panicked' = panicked
              \/ panicked' = TRUE /\ servicesEndpoints[n] # None /\ servicesEndpoints[n].endpoint = None
<1>1. /\ callback = None /\ callback' = None
      /\ told[n][k] # None /\ told' = [told EXCEPT ![n][k] = None]
      /\ UNCHANGED <<servicesEndpoints, serviceMap, infos, addresses, callback>>
      /\ \/ panicked' = panicked
         \/ panicked' = TRUE /\ servicesEndpoints[n] # None /\ servicesEndpoints[n].endpoint = None
  BY DEF DeleteEndpoint, Idle
<1>2. told' \in [Names -> [Keys -> Endpoints \cup {None}]]
  BY <1>1 DEF IInv, RestOK
<1>3. CacheOK' /\ RestOK' /\ \A m \in Names : CachedService(m)' = CachedService(m)
  BY <1>1, <1>2 DEF IInv, CacheOK, RestOK, CachedService
<1>4. IInv'
  BY <1>1, <1>3, EndpointInv
<1> QED BY <1>1, <1>4

LEMMA PanicInv ==
    ASSUME IInv, panicked' \in BOOLEAN,
           UNCHANGED <<servicesEndpoints, serviceMap, infos, addresses, callback, told>>
    PROVE  IInv'
<1>1. RestOK' /\ InfosOK'
  BY InfosUnchanged DEF IInv, RestOK
<1>2. MapKept
  BY DEF MapKept
<1> QED BY <1>1, <1>2, LoopInv

LEMMA LoopStepInv ==
    ASSUME IInv, NEW portal \in ServicePortPortalNames, NEW g \in Generations,
           LoopExit(portal, g) \/ UdpReadFails(portal, g) \/ UdpDatagram(portal, g)
    PROVE  IInv' /\ MapKept
<1>1. CASE LoopExit(portal, g)
  BY <1>1, LoopExitIs, LoopInv DEF IInv, RestOK, LoopExit
<1>2. CASE UdpReadFails(portal, g)
  BY <1>2, ReadFailsIs, LoopInv DEF IInv, RestOK, UdpReadFails
<1>3. CASE UdpDatagram(portal, g)
  BY <1>3, PanicInv DEF UdpDatagram, MapKept
<1> QED BY <1>1, <1>2, <1>3

\* A started agent: no cache, no map, no callback.
LEMMA StartInv ==
    ASSUME servicesEndpoints' = [n \in Names |-> None],
           serviceMap' = [portal \in ServicePortPortalNames |-> None],
           infos' = [portal \in ServicePortPortalNames |-> [g \in Generations |-> None]],
           callback' = None, told' = [n \in Names |-> [k \in Keys |-> None]],
           panicked' = FALSE, addresses' \subseteq ListenIPs
    PROVE  IInv'
<1>1. CacheOK' /\ RestOK' /\ HeadlessOK'
  BY DEF CacheOK, RestOK, HeadlessOK
<1>2. CallbackOK' /\ WaitingOK' /\ AnnouncedOK'
  BY DEF CallbackOK, WaitingOK, AnnouncedOK
<1>3. InfosOK'
  BY DEF InfosOK, InfoOK
<1> QED BY <1>1, <1>2, <1>3 DEF IInv

LEMMA InitInv ==
    ASSUME Init
    PROVE  IInv
<1>1. CacheOK /\ RestOK /\ HeadlessOK
  BY DEF Init, CacheOK, RestOK, HeadlessOK
<1>2. CallbackOK /\ WaitingOK /\ AnnouncedOK
  BY DEF Init, CallbackOK, WaitingOK, AnnouncedOK
<1>3. InfosOK
  BY DEF Init, InfosOK, InfoOK
<1> QED BY <1>1, <1>2, <1>3 DEF IInv

LEMMA RestartInv ==
    ASSUME IInv, Restart
    PROVE  IInv'
<1>1. addresses' \subseteq ListenIPs
  <2>1. callback # None => callback.waiting \in ListenIPs \cup {None}
    BY WalkedTyped, CallbackTypes DEF IInv
  <2> QED BY <2>1 DEF IInv, RestOK, Restart
<1> QED BY <1>1, StartInv DEF Restart

\* What a step of the agent or of the API can be.
StepKinds ==
    \/ \E p \in PortNames, ip \in ListenAddresses, w \in ListenIPs \cup {None} : Merges(p, ip, w)
    \/ MergesShown
    \/ \E p \in PortNames, ip \in ListenAddresses : Unmerges(p, ip)
    \/ \E p \in PortNames : MergeNewService(p) \/ UnmergeDeleteService(p)
    \/ MergeHeadless
    \/ BeginUnmerge
    \/ \E n, new : Returned(n, new)
    \/ \E s \in Services : SetService(s)
    \/ \E n \in Names : DeleteService(n)
    \/ \E n \in Names, k \in Keys : DeleteEndpoint(n, k)
    \/ \E n \in Names, k \in Keys, e \in Endpoints : SetEndpoint(n, k, e)
    \/ \E portal \in ServicePortPortalNames, g \in Generations :
          LoopExit(portal, g) \/ UdpReadFails(portal, g) \/ UdpDatagram(portal, g)
    \/ Restart

LEMMA StepInv ==
    ASSUME IInv, Next
    PROVE  IInv' /\ StepKinds
<1>1. ASSUME NEW p \in PortNames, NEW ip \in ListenAddresses, PortalStep(p, ip)
      PROVE  IInv' /\ StepKinds
  <2>1. CASE MergeUnchanged(p, ip) \/ MergePortal(p, ip) \/ AddAddress(p, ip) \/ AddressRefused(p, ip)
    <3>1. PICK w \in ListenIPs \cup {None} : Merges(p, ip, w) /\ CallbackOK' /\ InfosOK'
      BY <2>1, MergesStep
    <3>2. IInv'
      BY <3>1, MergesInv
    <3> QED BY <3>1, <3>2 DEF StepKinds
  <2>2. CASE UnmergeSkip(p, ip) \/ UnmergePortal(p, ip)
    <3>1. Unmerges(p, ip) /\ CallbackOK' /\ InfosOK'
      BY <2>2, UnmergesStep
    <3>2. IInv'
      BY <3>1, UnmergesInv
    <3> QED BY <3>1, <3>2 DEF StepKinds
  <2> QED BY <1>1, <2>1, <2>2 DEF PortalStep
<1>2. ASSUME NEW p \in PortNames, MergeNewService(p) \/ UnmergeDeleteService(p)
      PROVE  IInv' /\ StepKinds
  BY <1>2, FinishesInv DEF StepKinds
<1>3. CASE MergeHeadless
  <2>1. IInv'
    BY <1>3, PanicInv DEF MergeHeadless
  <2> QED BY <1>3, <2>1 DEF StepKinds
<1>4. CASE BeginUnmerge
  BY <1>4, BeginUnmergeInv DEF StepKinds
<1>5. CASE Return
  <2>1. PICK n, new : Returned(n, new)
    BY <1>5, ReturnIs
  <2>2. IInv'
    BY <1>5, <2>1, ReturnIs, ReturnInv
  <2> QED BY <2>1, <2>2 DEF StepKinds
<1>6. CASE AddressShown
  <2>1. MergesShown /\ CallbackOK' /\ InfosOK'
    BY <1>6, MergesShownStep
  <2>2. IInv'
    BY <2>1, MergesShownInv
  <2> QED BY <2>1, <2>2 DEF StepKinds
<1>7. ASSUME NEW s \in Services, SetService(s)
      PROVE  IInv' /\ StepKinds
  BY <1>7, SetServiceInv DEF StepKinds
<1>8. ASSUME NEW n \in Names, DeleteService(n)
      PROVE  IInv' /\ StepKinds
  BY <1>8, DeleteServiceInv DEF StepKinds
<1>9. ASSUME NEW n \in Names, NEW k \in Keys, DeleteEndpoint(n, k)
      PROVE  IInv' /\ StepKinds
  BY <1>9, DeleteEndpointIs DEF StepKinds
<1>10. ASSUME NEW n \in Names, NEW k \in Keys, NEW e \in Endpoints, SetEndpoint(n, k, e)
       PROVE  IInv' /\ StepKinds
  BY <1>10, SetEndpointIs DEF StepKinds
<1>11. ASSUME NEW portal \in ServicePortPortalNames, NEW g \in Generations,
              LoopExit(portal, g) \/ UdpReadFails(portal, g) \/ UdpDatagram(portal, g)
       PROVE  IInv' /\ StepKinds
  BY <1>11, LoopStepInv DEF StepKinds
<1>12. CASE Restart
  BY <1>12, RestartInv DEF StepKinds
<1> HIDE DEF StepKinds
<1>13. CASE SinkStep
  BY <1>1, <1>2, <1>3, <1>4, <1>5, <1>13 DEF SinkStep, ListenAddresses
<1>14. CASE ApiStep
  BY <1>7, <1>8, <1>9, <1>10, <1>14 DEF ApiStep
<1>15. CASE LoopStep
  BY <1>11, <1>15 DEF LoopStep
<1> QED BY <1>6, <1>12, <1>13, <1>14, <1>15 DEF Next

LEMMA StutterInv ==
    ASSUME IInv, UNCHANGED vars
    PROVE  IInv'
<1> QED BY PanicInv DEF vars, IInv, RestOK

\* The map, the serviceInfo objects, the cache and the callback in progress
\* fit together after any sequence of the sink's callbacks, netsh and socket
\* errors, ending loops and restarts (sink.go, proxier.go:195-399).
THEOREM Invariance == Spec => []IInv
<1>1. Init => IInv
  BY InitInv
<1>2. IInv /\ [Next]_vars => IInv'
  BY StepInv, StutterInv
<1> QED BY <1>1, <1>2, PTL DEF Spec

\* Between callbacks the Proxier listens only for portals of announced
\* services, whatever netsh and the network stack answered (mergeService and
\* unmergeService, proxier.go:195-320).
THEOREM OnlyAnnounced == Spec => []OnlyAnnouncedPortals
<1>1. IInv => OnlyAnnouncedPortals
  <2> SUFFICES ASSUME IInv, callback = None, NEW portal \in ServicePortPortalNames,
                      serviceMap[portal] # None
               PROVE  /\ servicesEndpoints[portal[1]] # None
                      /\ portal \in PortalsOf(servicesEndpoints[portal[1]].service)
    BY DEF OnlyAnnouncedPortals, Idle
  <2>1. CachedService(portal[1]) # None /\ portal \in PortalsOf(CachedService(portal[1]))
    BY DEF IInv, AnnouncedOK
  <2> QED BY <2>1 DEF CachedService
<1> QED BY <1>1, Invariance, PTL

\* Unless a read of a socket fails, every portal of the map has an open socket
\* and a loop that serves it, at every step of every callback
\* (addServicePortPortal and closeServicePortPortal, proxier.go:322-399).
THEOREM PortalsServed == Spec => []("read" \notin World => PortalsAreServed)
<1>1. IInv => ("read" \notin World => PortalsAreServed)
  <2> SUFFICES ASSUME IInv, "read" \notin World, NEW portal \in ServicePortPortalNames,
                      serviceMap[portal] # None
               PROVE  LET info == infos[portal][serviceMap[portal]]
                      IN  info # None /\ info.alive /\ info.open /\ info.loop
    BY DEF PortalsAreServed
  <2>1. serviceMap[portal] \in Generations
    BY DEF IInv, InfosOK
  <2> QED BY <2>1 DEF IInv, InfosOK, InfoOK
<1> QED BY <1>1, Invariance, PTL

-----------------------------------------------------------------------------
(***************************************************************************)
(* Listeners.                                                              *)
(***************************************************************************)
LEMMA MappedIs ==
    ASSUME IInv, NEW portal \in ServicePortPortalNames, serviceMap[portal] # None
    PROVE  LET info == infos[portal][serviceMap[portal]]
           IN  /\ serviceMap[portal] \in Generations
               /\ info # None /\ info.alive /\ info.open
               /\ \E t \in Services : Asked(t, portal, info)
<1>1. serviceMap[portal] \in Generations
  BY DEF IInv, InfosOK
<1> QED BY <1>1 DEF IInv, InfosOK, InfoOK

\* With FixedConfig a portal of the map is always as the service asks.
LEMMA FixedCurrent ==
    ASSUME IInv, FixedConfig, NEW s \in Services, ~Headless(s), NEW p \in DOMAIN s.ports,
           NEW ip \in Listens(s, p), serviceMap[PortalAt(s, p, ip)] # None
    PROVE  Current(s, p, ip) /\ Up(s, p, ip)
<1> DEFINE portal == PortalAt(s, p, ip)
           info == infos[portal][serviceMap[portal]]
<1>1. /\ portal \in ServicePortPortalNames
      /\ portal[1] = s.name /\ portal[2] = p /\ portal[3] = ip /\ portal = <<s.name, p, ip>>
  BY PortalTyped DEF PortalAt
<1> HIDE DEF portal
<1>2. PICK t \in Services : Asked(t, portal, info)
  BY <1>1, MappedIs DEF portal
<1>3. info.port = getListenIPPortMap(s, p)[ip] /\ info.protocol = s.ports[p].protocol
  BY <1>1, <1>2 DEF Asked, FixedConfig
<1>4. serviceMap[portal] # None
  BY DEF portal
<1> QED BY <1>1, <1>3, <1>4 DEF Current, Up, UpToDate, sameConfig, portal

\* What a step can do to the map and to the serviceInfo objects.
MapKinds ==
    \/ UNCHANGED <<infos, serviceMap>>
    \/ /\ callback # None /\ callback.phase = "merge"
       /\ callback.service \in Services /\ ~Headless(callback.service)
       /\ \E p \in DOMAIN callback.service.ports : \E ip \in Listens(callback.service, p) :
             ~Current(callback.service, p, ip) /\ Opens(callback.service, p, ip)
    \/ /\ callback # None
       /\ \E portal \in ServicePortPortalNames : portal \notin existingPortPortals /\ Closed(portal)
    \/ \E portal \in ServicePortPortalNames, g \in Generations :
          LoopExit(portal, g) \/ UdpReadFails(portal, g)
    \/ Restart

LEMMA MapStep ==
    ASSUME IInv, StepKinds
    PROVE  MapKinds
<1>1. ASSUME NEW p \in PortNames, NEW ip \in ListenAddresses, NEW w \in ListenIPs \cup {None},
             Merges(p, ip, w)
      PROVE  MapKinds
  <2>1. /\ callback # None /\ callback.phase = "merge" /\ Walked = callback.service
        /\ ~Headless(Walked) /\ p \in DOMAIN Walked.ports /\ ip \in Listens(Walked, p)
    BY <1>1 DEF Merges, Handles, SameObjects
  <2>2. Walked \in Services
    BY <2>1, WalkedTyped DEF IInv
  <2>3. \/ UNCHANGED <<infos, serviceMap>>
        \/ ~Current(Walked, p, ip) /\ Opens(Walked, p, ip)
    BY <1>1 DEF Merges
  <2> QED BY <2>1, <2>2, <2>3 DEF MapKinds
<1>2. CASE MergesShown
  <2>1. /\ callback # None /\ callback.phase = "merge" /\ Walked = callback.service
        /\ callback.port \in DOMAIN Walked.ports
        /\ callback.waiting \in Listens(Walked, callback.port)
    BY <1>2 DEF MergesShown, Shows, SameObjects
  <2>2. Walked \in Services /\ Walked # None
    BY <2>1, WalkedTyped, NoneAssumption DEF IInv
  <2>3. ~Headless(Walked)
    BY <1>2, <2>1, <2>2, NoneAssumption DEF IInv, HeadlessOK, MergesShown, Shows
  <2>4. \/ UNCHANGED <<infos, serviceMap>>
        \/ ~Current(Walked, callback.port, callback.waiting) /\ Opens(Walked, callback.port, callback.waiting)
    BY <1>2 DEF MergesShown
  <2> QED BY <2>1, <2>2, <2>3, <2>4 DEF MapKinds
<1>3. ASSUME NEW p \in PortNames, NEW ip \in ListenAddresses, Unmerges(p, ip)
      PROVE  MapKinds
  <2>1. PortalAt(Walked, p, ip) \in ServicePortPortalNames /\ callback # None
    BY <1>3 DEF Unmerges, Handles, PortalAt, SameObjects
  <2>2. \/ UNCHANGED <<infos, serviceMap>>
        \/ PortalAt(Walked, p, ip) \notin existingPortPortals /\ Closed(PortalAt(Walked, p, ip))
    BY <1>3 DEF Unmerges
  <2> QED BY <2>1, <2>2 DEF MapKinds
<1>4. ASSUME NEW n, NEW new, Returned(n, new)
      PROVE  UNCHANGED <<infos, serviceMap>>
  BY <1>4 DEF Returned
<1>5. ASSUME \/ \E p \in PortNames : MergeNewService(p) \/ UnmergeDeleteService(p)
             \/ MergeHeadless \/ BeginUnmerge
             \/ \E s \in Services : SetService(s)
             \/ \E n \in Names : DeleteService(n)
             \/ \E n \in Names, k \in Keys : DeleteEndpoint(n, k)
             \/ \E n \in Names, k \in Keys, e \in Endpoints : SetEndpoint(n, k, e)
             \/ \E portal \in ServicePortPortalNames, g \in Generations : UdpDatagram(portal, g)
      PROVE  UNCHANGED <<infos, serviceMap>>
  BY <1>5 DEF MergeNewService, UnmergeDeleteService, MergeHeadless, BeginUnmerge, SetService,
     DeleteService, DeleteEndpoint, SetEndpoint, UdpDatagram
<1>6. CASE \E portal \in ServicePortPortalNames, g \in Generations :
              LoopExit(portal, g) \/ UdpReadFails(portal, g) \/ UdpDatagram(portal, g)
  BY <1>5, <1>6 DEF MapKinds
<1>7. UNCHANGED <<infos, serviceMap>> \/ Restart => MapKinds
  BY DEF MapKinds
<1> HIDE DEF MapKinds
<1> QED BY <1>1, <1>2, <1>3, <1>4, <1>5, <1>6, <1>7 DEF StepKinds

LEMMA ForgottenStep ==
    ASSUME IInv, FixedConfig, NoForgottenListener, MapKinds
    PROVE  NoForgottenListener'
<1>1. CASE UNCHANGED <<infos, serviceMap>>
  BY <1>1 DEF NoForgottenListener
<1>2. ASSUME NEW s \in Services, ~Headless(s), NEW p \in DOMAIN s.ports, NEW ip \in Listens(s, p),
             ~Current(s, p, ip), Opens(s, p, ip)
      PROVE  NoForgottenListener'
  <2> DEFINE portal == PortalAt(s, p, ip)
  <2>1. serviceMap[portal] = None /\ portal \in ServicePortPortalNames
    BY <1>2, FixedCurrent, PortalTyped DEF PortalAt
  <2>2. PICK g, new : g \in Generations /\ Changes(portal, g, new, g)
    BY <1>2 DEF Opens, Opened
  <2>3. \A h \in Generations : ~(infos[portal][h] # None /\ infos[portal][h].alive)
    BY <2>1, NoneAssumption DEF NoForgottenListener
  <2> HIDE DEF portal
  <2> QED BY <2>1, <2>2, <2>3 DEF NoForgottenListener, Changes
<1>3. ASSUME NEW portal \in ServicePortPortalNames, Closed(portal)
      PROVE  NoForgottenListener'
  <2>1. PICK new : /\ Changes(portal, serviceMap[portal], new, None)
                   /\ new # None => ~new.alive
    BY <1>3 DEF Closed
  <2>2. \A h \in Generations : infos[portal][h] # None /\ infos[portal][h].alive => h = serviceMap[portal]
    BY DEF NoForgottenListener
  <2> QED BY <2>1, <2>2 DEF NoForgottenListener, Changes
<1>4. ASSUME NEW portal \in ServicePortPortalNames, NEW g \in Generations, LoopExit(portal, g)
      PROVE  NoForgottenListener'
  <2>1. Changes(portal, g, None, serviceMap[portal])
    BY <1>4, LoopExitIs DEF IInv
  <2> QED BY <2>1 DEF NoForgottenListener, Changes
<1>5. ASSUME NEW portal \in ServicePortPortalNames, NEW g \in Generations, UdpReadFails(portal, g)
      PROVE  NoForgottenListener'
  <2>1. PICK new : /\ Changes(portal, g, new, serviceMap[portal])
                   /\ new # None /\ new.alive = infos[portal][g].alive /\ infos[portal][g] # None
    BY <1>5, ReadFailsIs DEF IInv
  <2> QED BY <2>1 DEF NoForgottenListener, Changes
<1>6. CASE Restart
  BY <1>6 DEF Restart, NoForgottenListener
<1> QED BY <1>1, <1>2, <1>3, <1>4, <1>5, <1>6 DEF MapKinds

\* As long as no update gives a port another number or protocol, no listener
\* is forgotten: the loops that run are those of the map ("The service port
\* was closed or replaced.", utils.go:208; addServicePortPortal overwrites an
\* entry without closing it, proxier.go:363).
THEOREM NoneForgotten == Spec => [](FixedConfig => NoForgottenListener)
<1>1. Init => (FixedConfig => NoForgottenListener)
  BY DEF Init, NoForgottenListener
<1>2. IInv /\ (FixedConfig => NoForgottenListener) /\ [Next]_vars =>
         (FixedConfig => NoForgottenListener)'
  <2>1. FixedConfig' <=> FixedConfig
    BY DEF FixedConfig, Listens, getListenIPPortMap
  <2>2. UNCHANGED vars => UNCHANGED <<infos, serviceMap>>
    BY DEF vars
  <2>3. UNCHANGED <<infos, serviceMap>> => MapKinds
    BY DEF MapKinds
  <2> QED BY <2>1, <2>2, <2>3, StepInv, MapStep, ForgottenStep
<1> QED BY <1>1, <1>2, Invariance, PTL DEF Spec

-----------------------------------------------------------------------------
(***************************************************************************)
(* The interface's addresses.                                              *)
(***************************************************************************)
LEMMA AddressesSame ==
    ASSUME AddressesPresent, addresses \subseteq addresses',
           \A portal \in ServicePortPortalNames :
              serviceMap'[portal] # None =>
                 serviceMap[portal] # None \/ portal[3] \in addresses' \cup {allAvailableInterfaces}
    PROVE  AddressesPresent'
<1> QED BY DEF AddressesPresent

\* With OwnAddresses the address of a closed portal is of no other portal.
LEMMA AddressesClosed ==
    ASSUME IInv, OwnAddresses, AddressesPresent, NEW portal \in ServicePortPortalNames, Closed(portal)
    PROVE  AddressesPresent'
<1> SUFFICES ASSUME NEW q \in ServicePortPortalNames, serviceMap'[q] # None
             PROVE  q[3] \in addresses' \cup {allAvailableInterfaces}
  BY DEF AddressesPresent
<1>1. q # portal /\ serviceMap[q] # None
  BY ClosedMap
<1>2. serviceMap[portal] # None
  BY NoneAssumption DEF Closed
<1>3. q[3] \in addresses \cup {allAvailableInterfaces}
  BY <1>1 DEF AddressesPresent
<1>4. CASE q[3] = portal[3] /\ q[3] # allAvailableInterfaces
  <2>1. PICK s \in Services : Asked(s, portal, infos[portal][serviceMap[portal]])
    BY <1>2, MappedIs
  <2>2. PICK t \in Services : Asked(t, q, infos[q][serviceMap[q]])
    BY <1>1, MappedIs
  <2>3. portal[1] = q[1] /\ portal[2] = q[2]
    BY <1>4, <2>1, <2>2 DEF Asked, OwnAddresses
  <2>4. portal = <<portal[1], portal[2], portal[3]>> /\ q = <<q[1], q[2], q[3]>>
    BY DEF ServicePortPortalNames
  <2> QED BY <1>1, <1>4, <2>3, <2>4
<1>5. CASE ~(q[3] = portal[3] /\ q[3] # allAvailableInterfaces)
  BY <1>3, <1>5 DEF Closed
<1> QED BY <1>4, <1>5

LEMMA AddressesStep ==
    ASSUME IInv, "netsh" \notin World, OwnAddresses, AddressesPresent, StepKinds
    PROVE  AddressesPresent'
<1>1. ASSUME NEW p \in PortNames, NEW ip \in ListenAddresses, NEW w \in ListenIPs \cup {None},
             Merges(p, ip, w)
      PROVE  AddressesPresent'
  <2>1. UNCHANGED addresses /\ PortalAt(Walked, p, ip)[3] = ip
    BY <1>1 DEF Merges, PortalAt
  <2>2. \/ UNCHANGED serviceMap
        \/ ip \in addresses \cup {allAvailableInterfaces} /\ Opens(Walked, p, ip)
    BY <1>1 DEF Merges
  <2> QED BY <2>1, <2>2, OpensMap, AddressesSame
<1>2. CASE MergesShown
  <2>1. /\ addresses' = addresses \cup {callback.waiting}
        /\ PortalAt(Walked, callback.port, callback.waiting)[3] = callback.waiting
    BY <1>2 DEF MergesShown, PortalAt
  <2>2. UNCHANGED serviceMap \/ Opens(Walked, callback.port, callback.waiting)
    BY <1>2 DEF MergesShown
  <2> QED BY <2>1, <2>2, OpensMap, AddressesSame
<1>3. ASSUME NEW p \in PortNames, NEW ip \in ListenAddresses, Unmerges(p, ip)
      PROVE  AddressesPresent'
  <2>1. PortalAt(Walked, p, ip) \in ServicePortPortalNames
    BY <1>3 DEF Unmerges, Handles, PortalAt
  <2>2. CASE UNCHANGED <<serviceMap, addresses>>
    BY <2>2, AddressesSame
  <2>3. CASE Closed(PortalAt(Walked, p, ip))
    BY <2>1, <2>3, AddressesClosed
  <2> QED BY <1>3, <2>2, <2>3 DEF Unmerges
<1>4. ASSUME NEW n, NEW new, Returned(n, new)
      PROVE  UNCHANGED <<serviceMap, addresses>>
  BY <1>4 DEF Returned
<1>5. ASSUME \/ \E p \in PortNames : MergeNewService(p) \/ UnmergeDeleteService(p)
             \/ MergeHeadless \/ BeginUnmerge
             \/ \E s \in Services : SetService(s)
             \/ \E n \in Names : DeleteService(n)
             \/ \E n \in Names, k \in Keys : DeleteEndpoint(n, k)
             \/ \E n \in Names, k \in Keys, e \in Endpoints : SetEndpoint(n, k, e)
             \/ \E portal \in ServicePortPortalNames, g \in Generations :
                   LoopExit(portal, g) \/ UdpReadFails(portal, g) \/ UdpDatagram(portal, g)
      PROVE  UNCHANGED <<serviceMap, addresses>>
  BY <1>5 DEF MergeNewService, UnmergeDeleteService, MergeHeadless, BeginUnmerge, SetService,
     DeleteService, DeleteEndpoint, SetEndpoint, LoopExit, UdpReadFails, UdpDatagram
<1>6. CASE Restart
  BY <1>6 DEF Restart, AddressesPresent
<1>7. UNCHANGED <<serviceMap, addresses>> => AddressesPresent'
  BY AddressesSame
<1> QED BY <1>1, <1>2, <1>3, <1>4, <1>5, <1>6, <1>7 DEF StepKinds

\* When netsh does not fail and no two service ports share an address, the
\* address of a portal stays on the interface while the portal listens,
\* whichever portals were opened and closed before ("IP Address needs to be
\* added for netsh portproxy to redirect traffic", netsh.go:44;
\* closeServicePortPortal removes the address, proxier.go:385).
THEOREM AddressesStay == Spec => [](("netsh" \notin World /\ OwnAddresses) => AddressesPresent)
<1> DEFINE Own == "netsh" \notin World /\ OwnAddresses
<1>1. Init => (Own => AddressesPresent)
  BY DEF Init, AddressesPresent
<1>2. IInv /\ (Own => AddressesPresent) /\ [Next]_vars => (Own => AddressesPresent)'
  <2>1. OwnAddresses' <=> OwnAddresses
    BY DEF OwnAddresses, Listens, getListenIPPortMap
  <2>2. AddressesPresent /\ UNCHANGED vars => AddressesPresent'
    BY AddressesSame DEF vars
  <2> QED BY <2>1, <2>2, StepInv, AddressesStep
<1> QED BY <1>1, <1>2, Invariance, PTL DEF Spec

-----------------------------------------------------------------------------
(***************************************************************************)
(* Panics.                                                                 *)
(***************************************************************************)
LEMMA ToldSame ==
    ASSUME ToldOK, UNCHANGED <<servicesEndpoints, told>>,
           \/ callback' = callback
           \/ callback' = None
           \/ callback'.service # None
           \/ callback # None /\ callback'.service = callback.service /\ callback'.old = callback.old
    PROVE  ToldOK'
<1> QED BY DEF ToldOK

LEMMA PanicStep ==
    ASSUME IInv, Orderly, ToldOK, NoPanic, StepKinds
    PROVE  ToldOK' /\ NoPanic'
<1>1. ASSUME \/ \E p \in PortNames, ip \in ListenAddresses, w \in ListenIPs \cup {None} : Merges(p, ip, w)
             \/ MergesShown
             \/ \E p \in PortNames, ip \in ListenAddresses : Unmerges(p, ip)
      PROVE  ToldOK' /\ NoPanic'
  <2>1. UNCHANGED <<servicesEndpoints, told, panicked>> /\ SameObjects
    BY <1>1 DEF Merges, MergesShown, Unmerges, Handles, Shows
  <2> QED BY <2>1, ToldSame DEF SameObjects, NoPanic
<1>2. ASSUME NEW p \in PortNames, MergeNewService(p) \/ UnmergeDeleteService(p)
      PROVE  ToldOK' /\ NoPanic'
  BY <1>2, FinishesInv, ToldSame DEF Finishes, SameObjects, NoPanic
<1>3. ~MergeHeadless
  <2> SUFFICES ASSUME MergeHeadless PROVE FALSE
    OBVIOUS
  <2>1. callback.service \in Services
    BY WalkedTyped DEF IInv, MergeHeadless, InPhase
  <2> QED BY <2>1 DEF Orderly, MergeHeadless
<1>4. CASE BeginUnmerge
  BY <1>4, BeginUnmergeInv, ToldSame DEF NoPanic
<1>5. ASSUME NEW n, NEW new, Returned(n, new)
      PROVE  ToldOK' /\ NoPanic'
  <2>1. /\ callback' = None /\ UNCHANGED <<told, panicked>>
        /\ servicesEndpoints'[n] = new
        /\ \A m \in Names \ {n} : servicesEndpoints'[m] = servicesEndpoints[m]
    BY <1>5 DEF Returned
  <2>2. CASE callback.service = None
    <3>1. \A k \in Keys : told[n][k] = None
      BY <1>5, <2>2 DEF Returned, ToldOK
    <3> QED BY <2>1, <3>1 DEF ToldOK, NoPanic
  <2>3. CASE callback.service # None
    <3>1. /\ servicesEndpoints'[n] # None
          /\ servicesEndpoints[n] # None => servicesEndpoints'[n].endpoint = servicesEndpoints[n].endpoint
      BY <1>5, <2>3 DEF Returned
    <3> QED BY <2>1, <3>1 DEF ToldOK, NoPanic
  <2> QED BY <2>2, <2>3
<1>6. ASSUME NEW s \in Services, SetService(s)
      PROVE  ToldOK' /\ NoPanic'
  BY <1>6, SetServiceInv, ToldSame, NoneAssumption DEF NoPanic
<1>7. ASSUME NEW n \in Names, DeleteService(n)
      PROVE  ToldOK' /\ NoPanic'
  BY <1>7, DeleteServiceInv DEF ToldOK, NoPanic, Orderly
<1>8. ASSUME NEW n \in Names, NEW k \in Keys, DeleteEndpoint(n, k)
      PROVE  ToldOK' /\ NoPanic'
  <2>1. /\ callback' = None /\ UNCHANGED servicesEndpoints
        /\ told[n][k] # None /\ told' = [told EXCEPT ![n][k] = None]
        /\ \/ panicked' = panicked
           \/ servicesEndpoints[n] # None /\ servicesEndpoints[n].endpoint = None
    BY <1>8, DeleteEndpointIs
  <2>2. \A m \in Names, j \in Keys : told'[m][j] # None => told[m][j] # None
    BY <2>1 DEF IInv, RestOK
  <2> QED BY <2>1, <2>2 DEF ToldOK, NoPanic
<1>9. ASSUME NEW n \in Names, NEW k \in Keys, NEW e \in Endpoints, SetEndpoint(n, k, e)
      PROVE  ToldOK' /\ NoPanic'
  <2>1. /\ callback' = None /\ told' = [told EXCEPT ![n][k] = e]
        /\ panicked' = panicked /\ servicesEndpoints[n] # None
        /\ \A m \in Names : servicesEndpoints'[m] = None <=> servicesEndpoints[m] = None
        /\ \A m \in Names : servicesEndpoints[m] # None => servicesEndpoints'[m].endpoint =
              IF m = n /\ servicesEndpoints[m].endpoint = None THEN e ELSE servicesEndpoints[m].endpoint
    <3>1. "unordered" \notin World
      BY DEF Orderly
    <3>2. /\ \A m \in Names : servicesEndpoints'[m] = None <=> servicesEndpoints[m] = None
          /\ \A m \in Names : servicesEndpoints[m] # None => servicesEndpoints'[m].endpoint =
                IF m = n /\ servicesEndpoints[m].endpoint = None THEN e ELSE servicesEndpoints[m].endpoint
      BY <1>9, SetEndpointIs, Zenon
    <3>3. /\ callback' = None /\ told' = [told EXCEPT ![n][k] = e]
          /\ panicked' = panicked /\ servicesEndpoints[n] # None
      BY <1>9, <3>1 DEF SetEndpoint, Idle
    <3> QED BY <3>1, <3>2, <3>3
  <2>2. \A m \in Names, j \in Keys : told'[m][j] # None => m = n \/ told[m][j] # None
    BY <2>1 DEF IInv, RestOK
  <2>3. \A m \in Names, j \in Keys : told'[m][j] # None =>
           servicesEndpoints'[m] # None /\ servicesEndpoints'[m].endpoint # None
    BY <2>1, <2>2, NoneAssumption DEF ToldOK
  <2> QED BY <2>1, <2>3 DEF ToldOK, NoPanic
<1>10. ASSUME NEW portal \in ServicePortPortalNames, NEW g \in Generations,
              LoopExit(portal, g) \/ UdpReadFails(portal, g) \/ UdpDatagram(portal, g)
       PROVE  ToldOK' /\ NoPanic'
  BY <1>10, ToldSame DEF Orderly, LoopExit, UdpReadFails, UdpDatagram, NoPanic
<1>11. CASE Restart
  BY <1>11 DEF Restart, ToldOK, NoPanic
<1> QED BY <1>1, <1>2, <1>3, <1>4, <1>5, <1>6, <1>7, <1>8, <1>9, <1>10, <1>11 DEF StepKinds

\* While services have a cluster IP, endpoints come after their service and go
\* before it, and no datagram arrives, no callback panics: OnEndpointsDelete
\* finds the endpoint it dereferences (sink.go:134-138, and ips.V4 of
\* endpoint.GetIPs(), utils.go:321).
THEOREM Panics == Spec => [](Orderly => NoPanic)
<1>1. Init => (Orderly => ToldOK /\ NoPanic)
  BY DEF Init, ToldOK, NoPanic
<1>2. IInv /\ (Orderly => ToldOK /\ NoPanic) /\ [Next]_vars => (Orderly => ToldOK /\ NoPanic)'
  <2>1. Orderly' <=> Orderly
    BY DEF Orderly, Headless
  <2>2. ToldOK /\ NoPanic /\ UNCHANGED vars => ToldOK' /\ NoPanic'
    BY ToldSame DEF vars, NoPanic
  <2> QED BY <2>1, <2>2, StepInv, PanicStep
<1>3. Spec => [](Orderly => ToldOK /\ NoPanic)
  BY <1>1, <1>2, Invariance, PTL DEF Spec
<1> QED BY <1>3, PTL

-----------------------------------------------------------------------------
(***************************************************************************)
(* Reconciliation.                                                         *)
(***************************************************************************)
\* Every address of the service listens as the service asks.
AllUp(service) ==
    \A p \in DOMAIN service.ports : \A ip \in Listens(service, p) : Up(service, p, ip)

\* The part of the service that the callback has merged is up.
MergedUp ==
    \A s \in Services : callback # None /\ callback.service = s =>
        \A p \in DOMAIN s.ports : \A ip \in Listens(s, p) :
            \/ callback.phase = "merge" /\ ToDo(p, ip)
            \/ callback.waiting # None /\ callback.port = p /\ callback.waiting = ip
            \/ Up(s, p, ip)

LEMMA ReconciledParts ==
    ReconciledOK <=>
       /\ \A n \in Names : servicesEndpoints[n] # None =>
             (callback # None /\ Walked.name = n) \/ AllUp(servicesEndpoints[n].service)
       /\ MergedUp
<1> QED BY DEF ReconciledOK, AllUp, MergedUp

LEMMA ReconciledPartsPrime ==
    ASSUME \A n \in Names : servicesEndpoints'[n] # None =>
              \/ callback' # None /\ Walked'.name = n
              \/ \E s : s = servicesEndpoints'[n].service /\ AllUp(s)',
           MergedUp'
    PROVE  ReconciledOK'
<1> QED BY DEF ReconciledOK, AllUp, MergedUp

\* The map entry of a portal, and the port and protocol of its object, stay.
Same(portal) ==
    /\ serviceMap'[portal] = serviceMap[portal]
    /\ serviceMap[portal] # None =>
          /\ infos'[portal][serviceMap[portal]].port = infos[portal][serviceMap[portal]].port
          /\ infos'[portal][serviceMap[portal]].protocol = infos[portal][serviceMap[portal]].protocol

LEMMA UpSame ==
    ASSUME NEW s, NEW p, NEW ip, Same(PortalAt(s, p, ip)), Up(s, p, ip)
    PROVE  Up(s, p, ip)'
<1> QED BY DEF Up, Same, PortalAt

LEMMA AllUpSame ==
    ASSUME NEW s \in Services, Headless(s) => DOMAIN s.ports = {}, AllUp(s),
           \A portal \in ServicePortPortalNames : portal[1] = s.name => Same(portal)
    PROVE  AllUp(s)'
<1> SUFFICES ASSUME NEW p \in DOMAIN s.ports, NEW ip \in Listens(s, p)
             PROVE  Up(s, p, ip)'
  BY DEF AllUp, Listens, getListenIPPortMap
<1>1. PortalAt(s, p, ip) \in ServicePortPortalNames /\ PortalAt(s, p, ip)[1] = s.name
  BY PortalTyped DEF PortalAt
<1>2. Up(s, p, ip)
  BY DEF AllUp
<1> QED BY <1>1, <1>2, UpSame

\* The cached services other than the one a callback works on.
LEMMA OthersUp ==
    ASSUME IInv, ReconciledOK, NEW n \in Names, servicesEndpoints[n] # None,
           callback # None => Walked.name # n,
           \A portal \in ServicePortPortalNames : portal[1] = n => Same(portal),
           NEW s, s = servicesEndpoints[n].service
    PROVE  AllUp(s)'
<1>1. s \in Services /\ s.name = n
  BY CachedTyped DEF IInv
<1>2. Headless(s) => DOMAIN s.ports = {}
  BY DEF IInv, HeadlessOK
<1>3. AllUp(s)
  BY ReconciledParts
<1> QED BY <1>1, <1>2, <1>3, AllUpSame

\* Steps that begin no callback and end none.
LEMMA CacheUp ==
    ASSUME IInv, ReconciledOK, MergedUp', UNCHANGED servicesEndpoints,
           callback # None => callback' # None /\ Walked'.name = Walked.name,
           \A portal \in ServicePortPortalNames :
              callback = None \/ portal[1] # Walked.name => Same(portal)
    PROVE  ReconciledOK'
<1> SUFFICES ASSUME NEW n \in Names, servicesEndpoints[n] # None, ~(callback' # None /\ Walked'.name = n)
             PROVE  \E s : s = servicesEndpoints[n].service /\ AllUp(s)'
  BY ReconciledPartsPrime
<1>1. callback # None => Walked.name # n
  OBVIOUS
<1>2. \A portal \in ServicePortPortalNames : portal[1] = n => Same(portal)
  BY <1>1
<1>3. \A s : s = servicesEndpoints[n].service => AllUp(s)'
  BY <1>1, <1>2, OthersUp
<1> QED BY <1>3

LEMMA MapKeptSame ==
    ASSUME MapKept
    PROVE  \A portal \in ServicePortPortalNames : Same(portal)
<1> QED BY DEF MapKept, Same

\* One address of the object being merged has been handled.
LEMMA MergedStep ==
    ASSUME IInv, MergedUp, SameObjects, callback.phase = "merge", Walked = callback.service,
           ~Headless(Walked), NEW p, NEW ip,
           \A q, j : ToDo(q, j) /\ ~(q = p /\ j = ip) => ToDo(q, j)',
           callback.waiting # None => callback.port = p /\ callback.waiting = ip,
           \A portal \in ServicePortPortalNames : portal # PortalAt(Walked, p, ip) => Same(portal),
           \/ callback'.waiting # None /\ callback'.port = p /\ callback'.waiting = ip
           \/ \E s : s = Walked /\ Up(s, p, ip)'
    PROVE  MergedUp'
<1>1. PICK s \in Services : s = callback.service /\ s = callback'.service /\ s = Walked /\ s # None
  BY WalkedTyped, NoneAssumption DEF SameObjects, IInv
<1> SUFFICES ASSUME NEW q \in DOMAIN s.ports, NEW j \in Listens(s, q)
             PROVE  \/ ToDo(q, j)'
                    \/ callback'.waiting # None /\ callback'.port = q /\ callback'.waiting = j
                    \/ Up(s, q, j)'
  BY <1>1 DEF MergedUp, SameObjects
<1>2. CASE q = p /\ j = ip
  BY <1>1, <1>2
<1>3. CASE ~(q = p /\ j = ip)
  <2>1. PortalAt(s, q, j) \in ServicePortPortalNames /\ PortalAt(s, q, j) # PortalAt(Walked, p, ip)
    BY <1>1, <1>3, PortalTyped DEF PortalAt
  <2>2. ToDo(q, j) \/ Up(s, q, j)
    BY <1>1, <1>3 DEF MergedUp, SameObjects
  <2> QED BY <1>3, <2>1, <2>2, UpSame
<1> QED BY <1>2, <1>3

\* No address of it has been, and its portals are left alone.
LEMMA MergedKept ==
    ASSUME IInv, MergedUp, SameObjects,
           callback.phase = "merge" => \A q, j : ToDo(q, j) => ToDo(q, j)',
           \/ callback.waiting = None
           \/ callback'.waiting = callback.waiting /\ callback'.port = callback.port,
           \A portal \in ServicePortPortalNames : portal \in existingPortPortals => Same(portal)
    PROVE  MergedUp'
<1> SUFFICES ASSUME callback.service # None
             PROVE  MergedUp'
  BY NoneAssumption DEF MergedUp, SameObjects
<1>1. PICK s \in Services : s = callback.service /\ s = callback'.service
  BY CallbackTypes DEF SameObjects, IInv, CallbackOK
<1> SUFFICES ASSUME NEW q \in DOMAIN s.ports, NEW j \in Listens(s, q)
             PROVE  \/ callback.phase = "merge" /\ ToDo(q, j)'
                    \/ callback'.waiting # None /\ callback'.port = q /\ callback'.waiting = j
                    \/ Up(s, q, j)'
  BY <1>1 DEF MergedUp, SameObjects
<1>2. CASE Headless(s)
  <2>1. callback.phase = "merge" /\ callback.port = None /\ callback.ports = DOMAIN s.ports
    BY <1>1, <1>2 DEF IInv, HeadlessOK, SameObjects
  <2>2. Walked = s /\ q # None
    BY <1>1, <2>1, ObjectAssumption, NoneAssumption DEF Walked
  <2>3. ToDo(q, j)
    BY <2>1, <2>2 DEF ToDo
  <2> QED BY <2>1, <2>3
<1>3. CASE ~Headless(s)
  <2>1. /\ PortalAt(s, q, j) \in ServicePortPortalNames
        /\ PortalAt(s, q, j) \in existingPortPortals
    BY <1>1, <1>3, PortalTyped DEF PortalAt, existingPortPortals
  <2>2. \/ callback.phase = "merge" /\ ToDo(q, j)
        \/ callback.waiting # None /\ callback.port = q /\ callback.waiting = j
        \/ Up(s, q, j)
    BY <1>1 DEF MergedUp, SameObjects
  <2> QED BY <2>1, <2>2, UpSame
<1> QED BY <1>2, <1>3

LEMMA OpensUp ==
    ASSUME NEW s, NEW p, NEW ip, PortalAt(s, p, ip) \in ServicePortPortalNames, Opens(s, p, ip)
    PROVE  Up(s, p, ip)'
<1> DEFINE portal == PortalAt(s, p, ip)
           new == [port |-> getListenIPPortMap(s, p)[ip], protocol |-> s.ports[p].protocol,
                   alive |-> TRUE, open |-> TRUE, loop |-> TRUE]
<1>1. PICK g \in Generations : Changes(portal, g, new, g)
  BY DEF Opens, Opened
<1>2. new.port = getListenIPPortMap(s, p)[ip] /\ new.protocol = s.ports[p].protocol
  OBVIOUS
<1> HIDE DEF new
<1>3. serviceMap'[portal] = g /\ infos'[portal][g] = new /\ g # None
  BY <1>1, NoneAssumption DEF Changes
<1> QED BY <1>2, <1>3 DEF Up, PortalAt

\* With OwnSockets, and no listener forgotten, the socket of a portal that
\* does not listen yet is free.
LEMMA SocketFree ==
    ASSUME IInv, OwnSockets, NoForgottenListener, NEW s \in Services, ~Headless(s),
           NEW p \in DOMAIN s.ports, NEW ip \in Listens(s, p), ~Current(s, p, ip)
    PROVE  Free(s, p, ip)
<1>1. s.ports[p].protocol \in {"TCP", "UDP"}
  BY DEF OwnSockets
<1>2. ASSUME NEW portal \in ServicePortPortalNames, NEW g \in Generations,
             infos[portal][g] # None, infos[portal][g].open, portal[3] = ip,
             infos[portal][g].port = getListenIPPortMap(s, p)[ip],
             infos[portal][g].protocol = s.ports[p].protocol
      PROVE  FALSE
  <2>1. serviceMap[portal] = g
    BY <1>2 DEF IInv, InfosOK, InfoOK, NoForgottenListener
  <2>2. PICK t \in Services : Asked(t, portal, infos[portal][g])
    BY <1>2 DEF IInv, InfosOK, InfoOK
  <2>3. portal[1] = s.name /\ portal[2] = p
    <3>1. /\ t.name = portal[1] /\ portal[2] \in DOMAIN t.ports /\ ip \in Listens(t, portal[2])
          /\ getListenIPPortMap(s, p)[ip] = getListenIPPortMap(t, portal[2])[ip]
          /\ s.ports[p].protocol = t.ports[portal[2]].protocol
      BY <1>2, <2>2 DEF Asked
    <3> QED BY <3>1 DEF OwnSockets
  <2>4. portal = PortalAt(s, p, ip)
    <3>1. portal = <<portal[1], portal[2], portal[3]>>
      BY DEF ServicePortPortalNames
    <3> QED BY <1>2, <2>3, <3>1 DEF PortalAt
  <2>5. Current(s, p, ip)
    BY <1>2, <2>1, <2>4, NoneAssumption DEF Current, UpToDate, sameConfig
  <2> QED BY <2>5
<1> QED BY <1>1, <1>2 DEF Free, Bindable

\* Windows does as it is asked, and no two objects of the API want different
\* things of one socket.
WellBehaved ==
    /\ "netsh" \notin World /\ "listen" \notin World
    /\ FixedConfig /\ OwnSockets

LEMMA ReconciledMerges ==
    ASSUME IInv, WellBehaved, NoForgottenListener, ReconciledOK, NEW p, NEW ip,
           NEW w \in ListenIPs \cup {None}, Merges(p, ip, w)
    PROVE  ReconciledOK'
<1>1. /\ Handles(p, ip, w) /\ SameObjects /\ callback # None /\ callback.phase = "merge"
      /\ Walked = callback.service /\ ~Headless(Walked) /\ callback.waiting = None
      /\ p \in DOMAIN Walked.ports /\ ip \in Listens(Walked, p)
      /\ PortalAt(Walked, p, ip) \in ServicePortPortalNames
      /\ UNCHANGED servicesEndpoints
  BY DEF Merges, Handles, SameObjects, PortalAt
<1>2. PICK s \in Services : s = Walked
  BY <1>1, WalkedTyped DEF IInv
<1>3. \/ Opens(s, p, ip) /\ w = None
      \/ UNCHANGED <<infos, serviceMap>> /\ Current(s, p, ip)
      \/ UNCHANGED <<infos, serviceMap>> /\ w = ip /\ w \in ListenIPs
  BY <1>1, <1>2, SocketFree DEF Merges, WellBehaved
<1>4. \A portal \in ServicePortPortalNames : portal # PortalAt(s, p, ip) => Same(portal)
  <2>1. CASE UNCHANGED <<infos, serviceMap>>
    BY <2>1 DEF Same
  <2>2. CASE Opens(s, p, ip)
    BY <2>2, OpensMap DEF Same, IInv, InfosOK
  <2> QED BY <1>3, <2>1, <2>2
<1>5. \/ callback'.waiting # None /\ callback'.port = p /\ callback'.waiting = ip
      \/ Up(s, p, ip)'
  <2>1. CASE Opens(s, p, ip)
    BY <1>1, <1>2, <2>1, OpensUp
  <2>2. CASE UNCHANGED <<infos, serviceMap>> /\ Current(s, p, ip)
    <3>1. serviceMap[PortalAt(s, p, ip)] # None
      BY <2>2 DEF Current, UpToDate
    <3>2. Up(s, p, ip)
      BY <1>1, <1>2, <3>1, FixedCurrent DEF WellBehaved
    <3> QED BY <2>2, <3>2, UpSame DEF Same
  <2>3. CASE w = ip /\ w \in ListenIPs
    BY <1>1, <2>3, NoneAssumption DEF Handles
  <2> QED BY <1>3, <2>1, <2>2, <2>3
<1>6. \A q, j : ToDo(q, j) /\ ~(q = p /\ j = ip) => ToDo(q, j)'
  BY <1>1 DEF Handles
<1>7. MergedUp
  BY ReconciledParts
<1>8. MergedUp'
  BY <1>1, <1>2, <1>4, <1>5, <1>6, <1>7, MergedStep
<1>9. \A portal \in ServicePortPortalNames : portal[1] # Walked.name => Same(portal)
  BY <1>2, <1>4 DEF PortalAt
<1> QED BY <1>1, <1>8, <1>9, CacheUp DEF SameObjects

LEMMA ReconciledShown ==
    ASSUME IInv, WellBehaved, NoForgottenListener, ReconciledOK, MergesShown
    PROVE  ReconciledOK'
<1>1. PICK p, ip : p = callback.port /\ ip = callback.waiting
  OBVIOUS
<1>2. /\ SameObjects /\ callback # None /\ callback.phase = "merge"
      /\ Walked = callback.service
      /\ p \in DOMAIN Walked.ports /\ ip \in Listens(Walked, p) /\ p \in PortNames
      /\ PortalAt(Walked, p, ip) \in ServicePortPortalNames
      /\ ~Current(Walked, p, ip)
      /\ UNCHANGED servicesEndpoints
      /\ \A q, j : ToDo(q, j)' <=> ToDo(q, j)
  BY <1>1 DEF MergesShown, Shows, SameObjects, PortalAt
<1>3. PICK s \in Services : s = Walked /\ s # None
  BY <1>2, WalkedTyped, NoneAssumption DEF IInv
<1>4. ~Headless(s)
  BY <1>1, <1>2, <1>3, NoneAssumption DEF IInv, HeadlessOK
<1>5. Opens(s, p, ip)
  BY <1>1, <1>2, <1>3, <1>4, SocketFree DEF MergesShown, WellBehaved
<1>6. \A portal \in ServicePortPortalNames : portal # PortalAt(s, p, ip) => Same(portal)
  BY <1>5, OpensMap DEF Same, IInv, InfosOK
<1>7. Up(s, p, ip)'
  BY <1>2, <1>3, <1>5, OpensUp
<1>8. MergedUp
  BY ReconciledParts
<1>9. MergedUp'
  BY <1>1, <1>2, <1>3, <1>4, <1>6, <1>7, <1>8, MergedStep
<1>10. \A portal \in ServicePortPortalNames : portal[1] # Walked.name => Same(portal)
  BY <1>3, <1>6 DEF PortalAt
<1> QED BY <1>2, <1>9, <1>10, CacheUp DEF SameObjects

LEMMA ReconciledUnmerges ==
    ASSUME IInv, ReconciledOK, NEW p, NEW ip, Unmerges(p, ip)
    PROVE  ReconciledOK'
<1>1. /\ SameObjects /\ callback # None /\ callback.phase = "unmerge" /\ callback.waiting = None
      /\ PortalAt(Walked, p, ip) \in ServicePortPortalNames
      /\ UNCHANGED servicesEndpoints
  BY DEF Unmerges, Handles, SameObjects, PortalAt
<1>2. \/ UNCHANGED <<infos, serviceMap>>
      \/ PortalAt(Walked, p, ip) \notin existingPortPortals /\ Closed(PortalAt(Walked, p, ip))
  BY DEF Unmerges
<1>3. \A portal \in ServicePortPortalNames :
         portal # PortalAt(Walked, p, ip) \/ portal \in existingPortPortals => Same(portal)
  <2>1. CASE UNCHANGED <<infos, serviceMap>>
    BY <2>1 DEF Same
  <2>2. CASE PortalAt(Walked, p, ip) \notin existingPortPortals /\ Closed(PortalAt(Walked, p, ip))
    BY <1>1, <2>2, ClosedMap DEF Same, IInv, InfosOK
  <2> QED BY <1>2, <2>1, <2>2
<1>4. MergedUp
  BY ReconciledParts
<1>5. MergedUp'
  BY <1>1, <1>3, <1>4, MergedKept
<1>6. \A portal \in ServicePortPortalNames : portal[1] # Walked.name => Same(portal)
  BY <1>3 DEF PortalAt
<1> QED BY <1>1, <1>5, <1>6, CacheUp DEF SameObjects

\* The sink's steps between two addresses, and the loops'.
LEMMA ReconciledKept ==
    ASSUME IInv, ReconciledOK, UNCHANGED servicesEndpoints, MapKept,
           \/ callback' = callback
           \/ \E p : Finishes(p)
    PROVE  ReconciledOK'
<1>1. \A portal \in ServicePortPortalNames : Same(portal)
  BY MapKeptSame
<1>2. MergedUp
  BY ReconciledParts
<1>3. CASE callback = None /\ callback' = callback
  <2>1. MergedUp'
    BY <1>3 DEF MergedUp
  <2> QED BY <1>1, <1>3, <2>1, CacheUp
<1>4. CASE callback # None
  <2>1. /\ SameObjects /\ \A q, j : ToDo(q, j)' <=> ToDo(q, j)
        /\ \/ callback.waiting = None
           \/ callback'.waiting = callback.waiting /\ callback'.port = callback.port
    BY <1>4 DEF SameObjects, Finishes, ToDo, Walked, existingPortPortals
  <2>2. MergedUp'
    BY <1>1, <1>2, <2>1, MergedKept
  <2> QED BY <1>1, <2>1, <2>2, CacheUp DEF SameObjects
<1> QED BY <1>3, <1>4 DEF Finishes, SameObjects

LEMMA MapUnchanged ==
    ASSUME UNCHANGED <<infos, serviceMap>>
    PROVE  /\ MapKept /\ \A portal : Same(portal)
<1> QED BY DEF MapKept, Same

LEMMA ReconciledBegins ==
    ASSUME IInv, ReconciledOK, NEW s \in Services, SetService(s)
    PROVE  ReconciledOK'
<1>1. /\ callback = None /\ callback' # None /\ callback'.phase = "merge" /\ callback'.service = s
      /\ callback'.ports = DOMAIN s.ports /\ callback'.port = None
      /\ UNCHANGED <<servicesEndpoints, serviceMap, infos>>
  BY SetServiceInv
<1>2. Walked' = s /\ DOMAIN s.ports \subseteq PortNames
  BY <1>1, ObjectAssumption DEF Walked
<1>3. \A p \in DOMAIN s.ports : \A ip \in Listens(s, p) : ToDo(p, ip)'
  BY <1>1, <1>2, NoneAssumption DEF ToDo
<1>4. MergedUp'
  BY <1>1, <1>3 DEF MergedUp
<1> QED BY <1>1, <1>4, CacheUp, MapUnchanged

LEMMA ReconciledDeletes ==
    ASSUME IInv, ReconciledOK, NEW n \in Names, DeleteService(n)
    PROVE  ReconciledOK'
<1>1. /\ callback = None /\ callback' # None /\ callback'.service = None
      /\ UNCHANGED <<servicesEndpoints, serviceMap, infos>>
  BY DeleteServiceInv
<1>2. MergedUp'
  BY <1>1, NoneAssumption DEF MergedUp
<1> QED BY <1>1, <1>2, CacheUp, MapUnchanged

LEMMA ReconciledUnmergeBegins ==
    ASSUME IInv, ReconciledOK, BeginUnmerge
    PROVE  ReconciledOK'
<1>1. /\ callback # None /\ callback' # None /\ callback.phase = "merge"
      /\ callback.ports = {} /\ callback.waiting = None
      /\ callback'.phase = "unmerge" /\ callback'.service = callback.service
      /\ callback'.service # None /\ callback.service \in Services
      /\ callback'.old.name = callback.service.name
      /\ UNCHANGED <<servicesEndpoints, serviceMap, infos>>
  BY BeginUnmergeInv
<1>2. Walked'.name = Walked.name
  BY <1>1 DEF Walked
<1>3. PICK s \in Services : s = callback.service
  BY <1>1
<1>4. \A p \in DOMAIN s.ports : \A ip \in Listens(s, p) : Up(s, p, ip)
  BY <1>1, <1>3, ReconciledParts DEF MergedUp, ToDo
<1>5. \A p \in DOMAIN s.ports : \A ip \in Listens(s, p) : Up(s, p, ip)'
  BY <1>1, <1>4, MapUnchanged, UpSame
<1>6. MergedUp'
  BY <1>1, <1>3, <1>5 DEF MergedUp
<1> QED BY <1>1, <1>2, <1>6, CacheUp, MapUnchanged

\* A callback that returns has brought everything up that it caches.
LEMMA ReconciledReturns ==
    ASSUME IInv, ReconciledOK, NEW n, NEW new, Returned(n, new)
    PROVE  ReconciledOK'
<1>1. /\ callback # None /\ callback.ports = {} /\ callback.waiting = None /\ callback' = None
      /\ n \in Names /\ n = Walked.name /\ servicesEndpoints'[n] = new
      /\ \A m \in Names \ {n} : servicesEndpoints'[m] = servicesEndpoints[m]
      /\ UNCHANGED <<serviceMap, infos>>
  BY DEF Returned
<1>2. MergedUp'
  BY <1>1 DEF MergedUp
<1>3. ASSUME NEW m \in Names, servicesEndpoints'[m] # None
      PROVE  \E s : s = servicesEndpoints'[m].service /\ AllUp(s)'
  <2>1. CASE m = n
    <3>1. callback.service # None /\ new.service = callback.service
      BY <1>1, <1>3, <2>1 DEF Returned
    <3>2. PICK s \in Services : s = callback.service
      BY <3>1 DEF Returned
    <3>3. \A p \in DOMAIN s.ports : \A ip \in Listens(s, p) : Up(s, p, ip)
      BY <1>1, <3>1, <3>2, ReconciledParts DEF MergedUp, ToDo
    <3>4. \A p \in DOMAIN s.ports : \A ip \in Listens(s, p) : Up(s, p, ip)'
      BY <1>1, <3>3, MapUnchanged, UpSame
    <3>5. AllUp(s)'
      BY <3>4 DEF AllUp, Listens, getListenIPPortMap
    <3> QED BY <1>1, <2>1, <3>1, <3>2, <3>5
  <2>2. CASE m # n
    <3>1. servicesEndpoints'[m] = servicesEndpoints[m]
      BY <1>1, <2>2
    <3>2. \A s : s = servicesEndpoints[m].service => AllUp(s)'
      BY <1>1, <1>3, <2>2, <3>1, MapUnchanged, OthersUp
    <3> QED BY <3>1, <3>2
  <2> QED BY <2>1, <2>2
<1> QED BY <1>2, <1>3, ReconciledPartsPrime

LEMMA ReconciledEndpoint ==
    ASSUME IInv, ReconciledOK, callback = None, callback' = None, CacheOK',
           UNCHANGED <<serviceMap, infos>>,
           \A m \in Names : CachedService(m)' = CachedService(m),
           \A m \in Names : servicesEndpoints'[m] = None <=> servicesEndpoints[m] = None
    PROVE  ReconciledOK'
<1>1. MergedUp'
  BY DEF MergedUp
<1>2. ASSUME NEW m \in Names, servicesEndpoints'[m] # None
      PROVE  \E s : s = servicesEndpoints'[m].service /\ AllUp(s)'
  <2>1. servicesEndpoints[m] # None /\ servicesEndpoints'[m].service = servicesEndpoints[m].service
    BY <1>2 DEF CachedService
  <2>2. \A s : s = servicesEndpoints[m].service => AllUp(s)'
    BY <2>1, MapUnchanged, OthersUp
  <2> QED BY <2>1, <2>2
<1> QED BY <1>1, <1>2, ReconciledPartsPrime

LEMMA ReconciledStep ==
    ASSUME IInv, WellBehaved, NoForgottenListener, ReconciledOK, StepKinds
    PROVE  ReconciledOK'
<1>1. ASSUME NEW p \in PortNames, MergeNewService(p) \/ UnmergeDeleteService(p)
      PROVE  ReconciledOK'
  BY <1>1, FinishesInv, ReconciledKept, MapUnchanged
<1>2. CASE MergeHeadless
  BY <1>2, ReconciledKept, MapUnchanged DEF MergeHeadless
<1>3. ASSUME NEW n \in Names, NEW k \in Keys, DeleteEndpoint(n, k)
      PROVE  ReconciledOK'
  BY <1>3, DeleteEndpointIs, ReconciledKept, MapUnchanged
<1>4. ASSUME NEW n \in Names, NEW k \in Keys, NEW e \in Endpoints, SetEndpoint(n, k, e)
      PROVE  ReconciledOK'
  <2>1. /\ callback = None /\ callback' = None /\ UNCHANGED <<serviceMap, infos>>
        /\ \A m \in Names : CachedService(m)' = CachedService(m)
        /\ \A m \in Names : servicesEndpoints'[m] = None <=> servicesEndpoints[m] = None
    BY <1>4, SetEndpointIs
  <2>2. CacheOK'
    BY <1>4, SetEndpointIs DEF IInv
  <2> QED BY <2>1, <2>2, ReconciledEndpoint
<1>5. ASSUME NEW portal \in ServicePortPortalNames, NEW g \in Generations,
             LoopExit(portal, g) \/ UdpReadFails(portal, g) \/ UdpDatagram(portal, g)
      PROVE  ReconciledOK'
  <2>1. MapKept /\ UNCHANGED <<servicesEndpoints, callback>>
    BY <1>5, LoopStepInv DEF LoopExit, UdpReadFails, UdpDatagram
  <2> QED BY <2>1, ReconciledKept
<1>6. CASE Restart
  BY <1>6 DEF Restart, ReconciledOK
<1> QED
  BY <1>1, <1>2, <1>3, <1>4, <1>5, <1>6, ReconciledMerges, ReconciledShown, ReconciledUnmerges,
     ReconciledBegins, ReconciledDeletes, ReconciledUnmergeBegins, ReconciledReturns DEF StepKinds

\* When Windows does as it is asked and no two objects want one socket in
\* different ways, every portal of every announced service listens on its port
\* with its protocol once the callback has returned, through any number of
\* updates, deletions and restarts (mergeService, proxier.go:195-262;
\* "Nothing changed.", proxier.go:222).
THEOREM Reconciliation == Spec => [](WellBehaved => Reconciled)
<1>1. Init => (WellBehaved => ReconciledOK)
  BY DEF Init, ReconciledOK
<1>2. /\ IInv /\ (FixedConfig => NoForgottenListener) /\ (WellBehaved => ReconciledOK)
      /\ [Next]_vars
      => (WellBehaved => ReconciledOK)'
  <2>1. WellBehaved' <=> WellBehaved
    BY DEF WellBehaved, FixedConfig, OwnSockets, Listens, getListenIPPortMap
  <2>2. IInv /\ ReconciledOK /\ UNCHANGED vars => ReconciledOK'
    BY ReconciledKept, MapUnchanged DEF vars
  <2>3. WellBehaved => FixedConfig
    BY DEF WellBehaved
  <2> QED BY <2>1, <2>2, <2>3, StepInv, ReconciledStep
<1>3. ReconciledOK => Reconciled
  BY DEF ReconciledOK, Reconciled, Idle, Listens
<1>4. Spec => [](WellBehaved => ReconciledOK)
  BY <1>1, <1>2, Invariance, NoneForgotten, PTL DEF Spec
<1>5. (WellBehaved => ReconciledOK) => (WellBehaved => Reconciled)
  BY <1>3
<1> QED BY <1>4, <1>5, PTL

-----------------------------------------------------------------------------
(***************************************************************************)
(* What an update leaves alone.                                            *)
(***************************************************************************)
LEMMA CurrentKept ==
    ASSUME IInv, MapKinds, callback # None, callback' # None,
           NEW s \in Services, s = callback.service, ~Headless(s),
           NEW p \in DOMAIN s.ports, NEW ip \in Listens(s, p), Current(s, p, ip),
           NEW portal, portal = PortalAt(s, p, ip)
    PROVE  /\ serviceMap'[portal] = serviceMap[portal]
           /\ infos'[portal][serviceMap[portal]].open
<1>1. /\ portal \in ServicePortPortalNames /\ portal \in existingPortPortals
      /\ serviceMap[portal] # None
  BY PortalTyped, NoneAssumption DEF PortalAt, existingPortPortals, Current, UpToDate
<1>2. serviceMap[portal] \in Generations /\ infos[portal][serviceMap[portal]].open
  BY <1>1, MappedIs
<1>3. CASE UNCHANGED <<infos, serviceMap>>
  BY <1>2, <1>3
<1>4. ASSUME NEW q \in DOMAIN s.ports, NEW j \in Listens(s, q), ~Current(s, q, j), Opens(s, q, j)
      PROVE  /\ serviceMap'[portal] = serviceMap[portal]
             /\ infos'[portal][serviceMap[portal]].open
  <2>1. ~(q = p /\ j = ip)
    BY <1>4
  <2>2. PortalAt(s, q, j) # portal
    BY <2>1 DEF PortalAt
  <2>3. PICK g, info : Changes(PortalAt(s, q, j), g, info, g)
    BY <1>4 DEF Opens, Opened
  <2> QED BY <1>1, <1>2, <2>2, <2>3 DEF Changes
<1>5. ASSUME NEW other \in ServicePortPortalNames, other \notin existingPortPortals, Closed(other)
      PROVE  /\ serviceMap'[portal] = serviceMap[portal]
             /\ infos'[portal][serviceMap[portal]].open
  <2>1. PICK info : Changes(other, serviceMap[other], info, None)
    BY <1>5 DEF Closed
  <2> QED BY <1>1, <1>2, <1>5, <2>1 DEF Changes
<1>6. ASSUME NEW other \in ServicePortPortalNames, NEW g \in Generations,
             LoopExit(other, g) \/ UdpReadFails(other, g)
      PROVE  /\ serviceMap'[portal] = serviceMap[portal]
             /\ infos'[portal][serviceMap[portal]].open
  <2>1. MapKept
    BY <1>6, LoopStepInv
  <2> QED BY <1>1, <1>2, <2>1 DEF MapKept
<1>7. ~Restart
  BY DEF Restart
<1> QED BY <1>3, <1>4, <1>5, <1>6, <1>7 DEF MapKinds

\* At no step of an update is the socket of a portal closed or replaced that
\* the new object still has on the same port, whatever netsh, the network
\* stack and the loops do meanwhile ("Nothing changed.", proxier.go:222, and
\* existingPortPortals in unmergeService, proxier.go:299).
THEOREM UpdatesKeepPortals == Spec => UpdateKeepsPortals
<1> DEFINE Kept ==
       callback # None /\ callback.service # None /\ callback' # None =>
           Headless(callback.service) \/
           \A p \in DOMAIN callback.service.ports :
               \A ip \in DOMAIN getListenIPPortMap(callback.service, p) :
                   LET portal == <<callback.service.name, p, ip>>
                       g == serviceMap[portal]
                   IN  UpToDate(portal, getListenIPPortMap(callback.service, p)[ip]) =>
                           serviceMap'[portal] = g /\ infos'[portal][g].open
<1>1. IInv /\ [Next]_vars => [Kept]_vars
  <2> SUFFICES ASSUME IInv, Next
               PROVE  Kept
    OBVIOUS
  <2>1. MapKinds
    BY StepInv, MapStep
  <2> SUFFICES ASSUME callback # None, callback.service # None, callback' # None,
                      ~Headless(callback.service)
               PROVE  \A p \in DOMAIN callback.service.ports :
                         \A ip \in Listens(callback.service, p) :
                            Current(callback.service, p, ip) =>
                               /\ serviceMap'[PortalAt(callback.service, p, ip)] =
                                     serviceMap[PortalAt(callback.service, p, ip)]
                               /\ infos'[PortalAt(callback.service, p, ip)]
                                        [serviceMap[PortalAt(callback.service, p, ip)]].open
    BY DEF Current, PortalAt, Listens
  <2>2. PICK s \in Services : s = callback.service
    BY CallbackTypes DEF IInv, CallbackOK
  <2>3. \A p \in DOMAIN s.ports : \A ip \in Listens(s, p) : Current(s, p, ip) =>
           /\ serviceMap'[PortalAt(s, p, ip)] = serviceMap[PortalAt(s, p, ip)]
           /\ infos'[PortalAt(s, p, ip)][serviceMap[PortalAt(s, p, ip)]].open
    BY <2>1, <2>2, CurrentKept
  <2> QED BY <2>2, <2>3
<1>2. Spec => [][Kept]_vars
  BY <1>1, Invariance, PTL DEF Spec
<1> QED BY <1>2, PTL DEF UpdateKeepsPortals
=============================================================================
