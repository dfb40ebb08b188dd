----------------------- MODULE UserspaceBalancerProofs -----------------------
(***************************************************************************)
(* Proofs about UserspaceProxier, continued: the load balancer's entries,  *)
(* which the sink's callbacks create, fill, reset and delete.              *)
(***************************************************************************)
EXTENDS UserspaceProofs

PortsOf(service) == IF service = None THEN {} ELSE DOMAIN service.ports

\* The callback in progress is about service n.
About(n) == callback # None /\ Walked.name = n

\* The ports of n that have an entry: between callbacks those of the cached
\* object.  A merge adds the new object's ports one by one, and an unmerge
\* takes those of the old object that the new one lacks.
Entries(n) ==
    IF ~About(n) THEN PortsOf(CachedService(n))
    ELSE IF callback.phase = "merge"
         THEN PortsOf(callback.old) \cup (PortsOf(callback.service) \ callback.ports)
         ELSE PortsOf(callback.service) \cup callback.ports

EntriesOK ==
    \A n \in Names, p \in PortNames : services[<<n, p>>] # None <=> p \in Entries(n)

EntryOK(state) == state \in LB!BalancerState \cup {None}

\* The balancer's state, entry by entry.
StatesOK ==
    /\ services = [sp \in LB!ServicePortNames |-> services[sp]]
    /\ \A sp \in LB!ServicePortNames : EntryOK(services[sp])

BInv == StatesOK /\ EntriesOK

\* Every endpoint object has an IPv4 address.
IPv4Only == \A e \in Endpoints : e # <<>>

\* The port's addresses are those of an endpoint object the API still has.
FreshOK(n, state) ==
    \A a \in Range(state.endpoints) :
        \E k \in Keys : told[n][k] # None /\ a[1] \in Range(told[n][k])

\* Addresses are listed only for services whose endpoint the sink remembers,
\* which it needs to take them back (DeleteEndpoint, sink.go:136).
EndpointsOK ==
    \A n \in Names, p \in PortNames : services[<<n, p>>] # None =>
        /\ FreshOK(n, services[<<n, p>>])
        /\ \/ services[<<n, p>>].endpoints = <<>>
           \/ servicesEndpoints[n] # None /\ servicesEndpoints[n].endpoint # None

-----------------------------------------------------------------------------
(***************************************************************************)
(* The balancer's operations, by what they do to an entry.                 *)
(***************************************************************************)
\* The state lists addresses of endpoint e only.
From(state, e) == \A a \in Range(state.endpoints) : a[1] \in Range(e)

\* sp is a port of the service.
PortOf(sp, service) == sp[1] = service.name /\ sp[2] \in DOMAIN service.ports

LEMMA StatesOKIs == LB!TypeOK <=> StatesOK
<1>1. LB!TypeOK => StatesOK
  BY DEF LB!TypeOK, StatesOK, EntryOK
<1>2. StatesOK => LB!TypeOK
  BY DEF LB!TypeOK, StatesOK, EntryOK
<1> QED BY <1>1, <1>2

LEMMA KeyTyped ==
    ASSUME NEW n \in Names, NEW p \in PortNames
    PROVE  <<n, p>> \in LB!ServicePortNames /\ <<n, p>>[1] = n /\ <<n, p>>[2] = p
<1> QED BY DEF LB!ServicePortNames

LEMMA EmptyStateIs ==
    /\ EntryOK(LB!EmptyState) /\ LB!EmptyState # None
    /\ LB!EmptyState.endpoints = <<>>
    /\ \A e : From(LB!EmptyState, e)
<1>1. LB!EmptyState \in LB!BalancerState
  BY EmptySeq DEF LB!EmptyState, LB!BalancerState
<1>2. LB!EmptyState # None
  BY <1>1, NoneAssumption DEF LB!BalancerState, LB!Addresses
<1>3. LB!EmptyState.endpoints = <<>>
  BY DEF LB!EmptyState
<1>4. Range(<<>>) = {}
  BY DEF Range
<1> QED BY <1>1, <1>2, <1>3, <1>4 DEF EntryOK, From

\* One entry is replaced.
LEMMA SetEntry ==
    ASSUME StatesOK, NEW sp \in LB!ServicePortNames, NEW new, EntryOK(new),
           services' = [services EXCEPT ![sp] = new]
    PROVE  /\ StatesOK'
           /\ \A q \in LB!ServicePortNames : services'[q] = IF q = sp THEN new ELSE services[q]
<1>1. \A q \in LB!ServicePortNames : services'[q] = IF q = sp THEN new ELSE services[q]
  BY DEF StatesOK
<1>2. services' = [q \in LB!ServicePortNames |-> services'[q]]
  BY DEF StatesOK
<1> QED BY <1>1, <1>2 DEF StatesOK

\* ShuffleStrings only moves the elements of a list.
LEMMA Shuffled ==
    ASSUME NEW T, NEW l \in Seq(T), NEW perm \in LB!Perm(Len(l))
    PROVE  /\ LB!ShuffleStrings(l, perm) \in Seq(T)
           /\ \A a \in Range(LB!ShuffleStrings(l, perm)) : a \in Range(l)
<1> DEFINE t == [i \in 1..Len(l) |-> l[perm[i]]]
<1>1. Len(l) \in Nat /\ DOMAIN l = 1..Len(l)
  BY LenProperties
<1>2. perm \in [1..Len(l) -> 1..Len(l)]
  BY DEF LB!Perm, LB!Bijection, LB!Injection
<1>3. \A i \in 1..Len(l) : t[i] \in T
  BY <1>2, ElementOfSeq
<1>4. t \in Seq(T)
  BY <1>1, <1>3, IsASeq
<1>5. \A a \in Range(t) : a \in Range(l)
  BY <1>1, <1>2 DEF Range
<1>6. LB!ShuffleStrings(l, perm) = t
  BY DEF LB!ShuffleStrings
<1> QED BY <1>4, <1>5, <1>6

\* The list built for a port of a service.
LEMMA Built ==
    ASSUME NEW e \in Endpoints, NEW s \in Services, NEW p \in DOMAIN LB!buildPortsToEndpointsMap(e, s)
    PROVE  LET l == LB!buildPortsToEndpointsMap(e, s)[p]
           IN  /\ l \in Seq(LB!Addresses) /\ Len(l) = Len(e)
               /\ e # <<>> /\ p \in DOMAIN s.ports
               /\ \A a \in Range(l) : a[1] \in Range(e)
<1> DEFINE l == [i \in 1..Len(e) |-> <<e[i], s.ports[p].port>>]
<1>1. /\ e \in Seq(IPs) /\ e # <<>> /\ p \in DOMAIN s.ports
      /\ LB!buildPortsToEndpointsMap(e, s)[p] = l
  BY ObjectAssumption DEF LB!buildPortsToEndpointsMap
<1>2. Len(e) \in Nat /\ DOMAIN e = 1..Len(e) /\ \A i \in 1..Len(e) : e[i] \in IPs
  BY <1>1, LenProperties, ElementOfSeq
<1>3. s.ports[p].port \in Ports
  BY <1>1, ObjectAssumption
<1>4. \A i \in 1..Len(e) : l[i] \in LB!Addresses
  BY <1>2, <1>3 DEF LB!Addresses
<1>5. l \in Seq(LB!Addresses) /\ Len(l) = Len(e)
  BY <1>2, <1>4, IsASeq
<1>6. \A a \in Range(l) : a[1] \in Range(e)
  BY <1>2 DEF Range
<1> QED BY <1>1, <1>5, <1>6

LEMMA BuiltEntry ==
    ASSUME NEW e \in Endpoints, NEW s \in Services,
           NEW p \in DOMAIN LB!buildPortsToEndpointsMap(e, s), NEW perm \in LB!Perm(Len(e)),
           NEW state, state = LB!SetEndpoints(LB!buildPortsToEndpointsMap(e, s)[p], perm)
    PROVE  EntryOK(state) /\ state # None /\ From(state, e)
<1> DEFINE l == LB!buildPortsToEndpointsMap(e, s)[p]
           t == LB!ShuffleStrings(l, perm)
<1>1. l \in Seq(LB!Addresses) /\ Len(l) = Len(e) /\ \A a \in Range(l) : a[1] \in Range(e)
  BY Built
<1> HIDE DEF l
<1>2. t \in Seq(LB!Addresses) /\ \A a \in Range(t) : a \in Range(l)
  BY <1>1, Shuffled
<1>3. state = [endpoints |-> t, index |-> 0]
  BY DEF LB!SetEndpoints, l
<1> HIDE DEF t
<1>4. state \in LB!BalancerState /\ state.endpoints = t
  BY <1>2, <1>3 DEF LB!BalancerState
<1>5. state # None
  BY <1>4, NoneAssumption DEF LB!BalancerState, LB!Addresses
<1> QED BY <1>1, <1>2, <1>4, <1>5 DEF EntryOK, From

\* slicesEquiv: an entry that is left as it is lists the same addresses.
LEMMA EquivEntry ==
    ASSUME NEW e \in Endpoints, NEW s \in Services,
           NEW p \in DOMAIN LB!buildPortsToEndpointsMap(e, s), NEW state,
           LB!slicesEquiv(state.endpoints, LB!buildPortsToEndpointsMap(e, s)[p])
    PROVE  From(state, e)
<1> DEFINE l == LB!buildPortsToEndpointsMap(e, s)[p]
<1>1. l \in Seq(LB!Addresses) /\ \A a \in Range(l) : a[1] \in Range(e)
  BY Built
<1>2. PICK perm \in LB!Perm(Len(l)) : state.endpoints = LB!ShuffleStrings(l, perm)
  BY DEF LB!slicesEquiv
<1> HIDE DEF l
<1>3. \A a \in Range(state.endpoints) : a \in Range(l)
  BY <1>1, <1>2, Shuffled
<1> QED BY <1>1, <1>3 DEF From

\* The keys an endpoint callback works on.
LEMMA KeyedIs ==
    ASSUME NEW e, NEW s, NEW sp
    PROVE  /\ LB!Keyed(sp, s, LB!buildPortsToEndpointsMap(e, s)) <=> e # <<>> /\ PortOf(sp, s)
           /\ LB!Keyed(sp, s, LB!buildPortsToEndpointsMap(e, s)) =>
                 sp[2] \in DOMAIN LB!buildPortsToEndpointsMap(e, s)
<1> QED BY DEF LB!Keyed, LB!buildPortsToEndpointsMap, PortOf

\* OnEndpointsAdd and OnEndpointsUpdate: the ports of the service list the
\* addresses of e, and no entry goes.
Fills(e, s) ==
    \A sp \in LB!ServicePortNames :
        /\ EntryOK(services'[sp])
        /\ ~PortOf(sp, s) => services'[sp] = services[sp]
        /\ services[sp] # None => services'[sp] # None
        /\ PortOf(sp, s) /\ e # <<>> => services'[sp] # None /\ From(services'[sp], e)

LEMMA AddFills ==
    ASSUME StatesOK, NEW e \in Endpoints, NEW s \in Services, LB!OnEndpointsAdd(e, s)
    PROVE  StatesOK' /\ Fills(e, s)
<1> DEFINE m == LB!buildPortsToEndpointsMap(e, s)
<1>1. PICK perms \in [DOMAIN m -> LB!Perm(Len(e))] :
         services' = [sp \in LB!ServicePortNames |->
            IF /\ LB!Keyed(sp, s, m)
               /\ services[sp] = None \/ Len(m[sp[2]]) > 0
            THEN LB!SetEndpoints(m[sp[2]], perms[sp[2]])
            ELSE services[sp]]
  BY DEF LB!OnEndpointsAdd
<1>2. \A p \in DOMAIN m : \A state : state = LB!SetEndpoints(m[p], perms[p]) =>
         EntryOK(state) /\ state # None /\ From(state, e)
  BY BuiltEntry
<1>3. \A p \in DOMAIN m : Len(m[p]) > 0
  <2> SUFFICES ASSUME NEW p \in DOMAIN m
               PROVE  Len(m[p]) > 0
    OBVIOUS
  <2>1. Len(m[p]) = Len(e) /\ e # <<>> /\ e \in Seq(IPs)
    BY Built, ObjectAssumption
  <2>2. Len(e) \in Nat /\ Len(e) # 0
    BY <2>1, LenProperties, EmptySeq
  <2> HIDE DEF m
  <2> QED BY <2>1, <2>2
<1>4. \A sp : /\ LB!Keyed(sp, s, m) <=> e # <<>> /\ PortOf(sp, s)
              /\ LB!Keyed(sp, s, m) => sp[2] \in DOMAIN m
  BY KeyedIs
<1> HIDE DEF m
<1>5. ASSUME NEW sp \in LB!ServicePortNames
      PROVE  /\ EntryOK(services'[sp])
             /\ ~PortOf(sp, s) => services'[sp] = services[sp]
             /\ services[sp] # None => services'[sp] # None
             /\ PortOf(sp, s) /\ e # <<>> => services'[sp] # None /\ From(services'[sp], e)
  <2>1. services'[sp] = IF LB!Keyed(sp, s, m) THEN LB!SetEndpoints(m[sp[2]], perms[sp[2]])
                        ELSE services[sp]
    BY <1>1, <1>3, <1>4
  <2>2. EntryOK(services[sp])
    BY DEF StatesOK
  <2> QED BY <1>2, <1>4, <2>1, <2>2
<1>6. services' = [sp \in LB!ServicePortNames |-> services'[sp]]
  BY <1>1
<1> QED BY <1>5, <1>6 DEF StatesOK, Fills

LEMMA UpdateFills ==
    ASSUME StatesOK, NEW old, NEW e \in Endpoints, NEW s \in Services,
           LB!OnEndpointsUpdate(old, e, s)
    PROVE  StatesOK' /\ Fills(e, s)
<1> DEFINE m == LB!buildPortsToEndpointsMap(e, s)
           oldm == LB!buildPortsToEndpointsMap(old, s)
<1>1. PICK perms \in [DOMAIN m -> LB!Perm(Len(e))] :
         services' = [sp \in LB!ServicePortNames |->
            IF LB!Keyed(sp, s, m)
            THEN IF \/ services[sp] = None
                    \/ ~LB!slicesEquiv(services[sp].endpoints, m[sp[2]])
                 THEN LB!SetEndpoints(m[sp[2]], perms[sp[2]])
                 ELSE services[sp]
            ELSE IF LB!Keyed(sp, s, oldm)
                 THEN LB!resetService(services[sp])
                 ELSE services[sp]]
  BY DEF LB!OnEndpointsUpdate
<1>2. \A p \in DOMAIN m : \A state : state = LB!SetEndpoints(m[p], perms[p]) =>
         EntryOK(state) /\ state # None /\ From(state, e)
  BY BuiltEntry
<1>3. \A p \in DOMAIN m : \A state : LB!slicesEquiv(state.endpoints, m[p]) => From(state, e)
  BY EquivEntry
<1>4. \A sp : /\ LB!Keyed(sp, s, m) <=> e # <<>> /\ PortOf(sp, s)
              /\ LB!Keyed(sp, s, m) => sp[2] \in DOMAIN m
              /\ LB!Keyed(sp, s, oldm) => PortOf(sp, s)
  BY KeyedIs
<1> HIDE DEF m, oldm
<1>5. ASSUME NEW sp \in LB!ServicePortNames
      PROVE  /\ EntryOK(services'[sp])
             /\ ~PortOf(sp, s) => services'[sp] = services[sp]
             /\ services[sp] # None => services'[sp] # None
             /\ PortOf(sp, s) /\ e # <<>> => services'[sp] # None /\ From(services'[sp], e)
  <2>1. EntryOK(services[sp])
    BY DEF StatesOK
  <2>2. CASE LB!Keyed(sp, s, m)
    <3>1. CASE services[sp] = None \/ ~LB!slicesEquiv(services[sp].endpoints, m[sp[2]])
      <4>1. services'[sp] = LB!SetEndpoints(m[sp[2]], perms[sp[2]])
        BY <1>1, <2>2, <3>1
      <4> QED BY <1>2, <1>4, <2>2, <4>1
    <3>2. CASE services[sp] # None /\ LB!slicesEquiv(services[sp].endpoints, m[sp[2]])
      <4>1. services'[sp] = services[sp]
        BY <1>1, <2>2, <3>2
      <4> QED BY <1>3, <1>4, <2>1, <2>2, <3>2, <4>1
    <3> QED BY <3>1, <3>2
  <2>3. CASE ~LB!Keyed(sp, s, m) /\ LB!Keyed(sp, s, oldm)
    <3>1. services'[sp] = LB!resetService(services[sp])
      BY <1>1, <2>3
    <3> QED BY <1>4, <2>1, <2>3, <3>1, EmptyStateIs DEF LB!resetService
  <2>4. CASE ~LB!Keyed(sp, s, m) /\ ~LB!Keyed(sp, s, oldm)
    <3>1. services'[sp] = services[sp]
      BY <1>1, <2>4
    <3> QED BY <1>4, <2>1, <2>4, <3>1
  <2> QED BY <2>2, <2>3, <2>4
<1>6. services' = [sp \in LB!ServicePortNames |-> services'[sp]]
  BY <1>1
<1> QED BY <1>5, <1>6 DEF StatesOK, Fills

\* OnEndpointsDelete: the ports of the service are reset and stay.
LEMMA DeleteEmpties ==
    ASSUME StatesOK, NEW e, NEW s \in Services, LB!OnEndpointsDelete(e, s)
    PROVE  /\ StatesOK'
           /\ \A sp \in LB!ServicePortNames :
                 /\ services'[sp] # None <=> services[sp] # None
                 /\ ~PortOf(sp, s) => services'[sp] = services[sp]
                 /\ PortOf(sp, s) /\ e # <<>> /\ services[sp] # None => services'[sp] = LB!EmptyState
<1> DEFINE m == LB!buildPortsToEndpointsMap(e, s)
<1>1. services' = [sp \in LB!ServicePortNames |->
         IF LB!Keyed(sp, s, m) THEN LB!resetService(services[sp]) ELSE services[sp]]
  BY DEF LB!OnEndpointsDelete
<1>2. \A sp : LB!Keyed(sp, s, m) <=> e # <<>> /\ PortOf(sp, s)
  BY KeyedIs
<1> HIDE DEF m
<1>3. ASSUME NEW sp \in LB!ServicePortNames
      PROVE  /\ services'[sp] # None <=> services[sp] # None
             /\ ~PortOf(sp, s) => services'[sp] = services[sp]
             /\ PortOf(sp, s) /\ e # <<>> /\ services[sp] # None => services'[sp] = LB!EmptyState
             /\ EntryOK(services'[sp])
  <2>1. services'[sp] = IF e # <<>> /\ PortOf(sp, s) THEN LB!resetService(services[sp])
                        ELSE services[sp]
    BY <1>1, <1>2
  <2>2. EntryOK(services[sp])
    BY DEF StatesOK
  <2> QED BY <2>1, <2>2, EmptyStateIs DEF LB!resetService
<1>4. services' = [sp \in LB!ServicePortNames |-> services'[sp]]
  BY <1>1
<1> QED BY <1>3, <1>4 DEF StatesOK

-----------------------------------------------------------------------------
(***************************************************************************)
(* Every step keeps the entries in line with the cache.                    *)
(***************************************************************************)
LEMMA EntriesKept ==
    ASSUME BInv, UNCHANGED services, \A n \in Names : Entries(n)' = Entries(n)
    PROVE  BInv'
<1>1. StatesOK'
  BY DEF BInv, StatesOK
<1>2. EntriesOK'
  BY DEF BInv, EntriesOK
<1> QED BY <1>1, <1>2 DEF BInv

\* One service's entries change, and those of the others stay.
LEMMA EntriesOf ==
    ASSUME EntriesOK, NEW n,
           \A m \in Names \ {n} : Entries(m)' = Entries(m),
           \A m \in Names \ {n}, p \in PortNames : services'[<<m, p>>] = services[<<m, p>>],
           n \in Names => \A p \in PortNames : services'[<<n, p>>] # None <=> p \in Entries(n)'
    PROVE  EntriesOK'
<1> SUFFICES ASSUME NEW m \in Names, NEW p \in PortNames
             PROVE  services'[<<m, p>>] # None <=> p \in Entries(m)'
  BY DEF EntriesOK
<1>1. CASE m = n
  BY <1>1
<1>2. CASE m # n
  BY <1>2 DEF EntriesOK
<1> QED BY <1>1, <1>2

\* The service a callback is about, and its entries.
LEMMA AboutIs ==
    ASSUME IInv, callback # None
    PROVE  /\ Walked \in Services /\ Walked.name \in Names /\ Walked # None
           /\ \A n : About(n) <=> n = Walked.name
           /\ callback.phase = "merge" =>
                 /\ Walked = callback.service
                 /\ Entries(Walked.name) = PortsOf(callback.old) \cup
                                           (PortsOf(callback.service) \ callback.ports)
           /\ callback.phase = "unmerge" =>
                 /\ Walked = callback.old
                 /\ Entries(Walked.name) = PortsOf(callback.service) \cup callback.ports
           /\ callback.phase \in {"merge", "unmerge"}
<1>1. /\ Walked \in Services
      /\ callback.phase = "merge" => Walked = callback.service
      /\ callback.phase = "unmerge" => Walked = callback.old
      /\ callback.phase \in {"merge", "unmerge"}
  BY WalkedTyped DEF IInv
<1>2. Walked.name \in Names /\ Walked # None
  BY <1>1, ObjectAssumption, NoneAssumption
<1> QED BY <1>1, <1>2 DEF About, Entries

\* A callback that goes on is about the same service.
LEMMA EntriesSame ==
    ASSUME SameObjects, UNCHANGED servicesEndpoints, NEW n,
           callback'.ports = callback.ports \/ ~About(n)
    PROVE  Entries(n)' = Entries(n)
<1>1. About(n)' <=> About(n)
  BY DEF SameObjects, About
<1>2. PortsOf(CachedService(n))' = PortsOf(CachedService(n))
  BY DEF PortsOf, CachedService
<1>3. PortsOf(callback.old)' = PortsOf(callback.old) /\ PortsOf(callback.service)' = PortsOf(callback.service)
  BY DEF SameObjects, PortsOf
<1> QED BY <1>1, <1>2, <1>3 DEF Entries, SameObjects

\* servicePortNameMap: the ports of existingPortPortals are those of the new
\* object, because every port listens somewhere.
LEMMA ExistingPorts ==
    {portal[2] : portal \in existingPortPortals} = PortsOf(callback.service)
<1>1. CASE callback.service = None
  BY <1>1 DEF existingPortPortals, PortsOf
<1>2. CASE callback.service # None
  <2> DEFINE s == callback.service
  <2>1. existingPortPortals = PortalsOf(s) /\ PortsOf(s) = DOMAIN s.ports
    BY <1>2 DEF existingPortPortals, PortsOf
  <2> HIDE DEF s
  <2>2. ASSUME NEW portal \in PortalsOf(s)
        PROVE  portal[2] \in DOMAIN s.ports
    BY PortalsOfIs
  <2>3. ASSUME NEW p \in DOMAIN s.ports
        PROVE  \E portal \in PortalsOf(s) : portal[2] = p
    <3>1. PICK ip : ip \in Listens(s, p)
      BY ListensSome
    <3>2. <<s.name, p, ip>> \in PortalsOf(s) /\ <<s.name, p, ip>>[2] = p
      BY <3>1, PortalsOfIs
    <3> QED BY <3>2
  <2> QED BY <2>1, <2>2, <2>3 DEF s
<1> QED BY <1>1, <1>2

\* What a step does to the balancer while a callback is in progress.
LEMMA NewServiceIs ==
    ASSUME IInv, BInv, NEW p \in PortNames, MergeNewService(p)
    PROVE  LET sp == <<Walked.name, p>>
           IN  /\ StatesOK' /\ callback # None /\ callback.phase = "merge"
               /\ sp \in LB!ServicePortNames
               /\ services'[sp] = IF services[sp] = None THEN LB!EmptyState ELSE services[sp]
               /\ \A q \in LB!ServicePortNames \ {sp} : services'[q] = services[q]
<1>1. callback # None /\ callback.phase = "merge"
  BY DEF MergeNewService, InPhase
<1>2. PICK sp \in LB!ServicePortNames : sp = <<Walked.name, p>> /\ Walked = callback.service
  BY <1>1, AboutIs, KeyTyped
<1>3. PICK new : new = LB!newServiceInternal(services[sp])
  OBVIOUS
<1>4. services' = [services EXCEPT ![sp] = new]
  BY <1>2, <1>3 DEF MergeNewService, LB!NewService
<1>5. new = IF services[sp] = None THEN LB!EmptyState ELSE services[sp]
  BY <1>3 DEF LB!newServiceInternal
<1>6. EntryOK(new)
  BY <1>5, EmptyStateIs DEF BInv, StatesOK
<1>7. StatesOK
  BY DEF BInv
<1>8. /\ StatesOK'
      /\ \A q \in LB!ServicePortNames : services'[q] = IF q = sp THEN new ELSE services[q]
  BY <1>4, <1>6, <1>7, SetEntry
<1> QED BY <1>1, <1>2, <1>5, <1>8

LEMMA DeleteServiceIs ==
    ASSUME IInv, BInv, NEW p \in PortNames, UnmergeDeleteService(p)
    PROVE  LET sp == <<Walked.name, p>>
           IN  /\ StatesOK' /\ callback # None /\ callback.phase = "unmerge"
               /\ sp \in LB!ServicePortNames
               /\ services'[sp] = IF p \in PortsOf(callback.service) THEN services[sp] ELSE None
               /\ \A q \in LB!ServicePortNames \ {sp} : services'[q] = services[q]
<1>1. callback # None /\ callback.phase = "unmerge"
  BY DEF UnmergeDeleteService, InPhase
<1>2. PICK sp \in LB!ServicePortNames : sp = <<Walked.name, p>> /\ Walked = callback.old
  BY <1>1, AboutIs, KeyTyped
<1>3. CASE p \in PortsOf(callback.service)
  <2>1. UNCHANGED services
    BY <1>3, ExistingPorts DEF UnmergeDeleteService
  <2> QED BY <1>1, <1>2, <1>3, <2>1 DEF BInv, StatesOK
<1>4. CASE p \notin PortsOf(callback.service)
  <2>1. services' = [services EXCEPT ![sp] = None]
    BY <1>2, <1>4, ExistingPorts DEF UnmergeDeleteService, LB!DeleteService
  <2>2. EntryOK(None)
    BY DEF EntryOK
  <2>3. /\ StatesOK'
        /\ \A q \in LB!ServicePortNames : services'[q] = IF q = sp THEN None ELSE services[q]
    BY <1>2, <2>1, <2>2, SetEntry DEF BInv
  <2> QED BY <1>1, <1>2, <1>4, <2>3
<1> QED BY <1>3, <1>4

LEMMA FinishesEntries ==
    ASSUME IInv, BInv, NEW p \in PortNames, MergeNewService(p) \/ UnmergeDeleteService(p)
    PROVE  BInv'
<1>1. /\ SameObjects /\ UNCHANGED servicesEndpoints /\ callback # None /\ callback' # None
      /\ Walked' = Walked /\ callback'.phase = callback.phase
      /\ p \in callback.ports /\ callback'.ports = callback.ports \ {p}
      /\ callback.ports \subseteq DOMAIN Walked.ports
      /\ IInv'
  BY FinishesInv DEF Finishes, SameObjects, IInv, CallbackOK
<1>2. PICK n \in Names :
      /\ n = Walked.name /\ Walked # None
      /\ \A m : About(m) <=> m = n
      /\ callback.phase = "merge" =>
            /\ Walked = callback.service
            /\ Entries(n) = PortsOf(callback.old) \cup (PortsOf(callback.service) \ callback.ports)
      /\ callback.phase = "unmerge" => Entries(n) = PortsOf(callback.service) \cup callback.ports
  BY <1>1, AboutIs
<1> DEFINE sp == <<n, p>>
<1>3. /\ callback.phase = "merge" =>
            Entries(n)' = PortsOf(callback.old) \cup (PortsOf(callback.service) \ callback'.ports)
      /\ callback.phase = "unmerge" => Entries(n)' = PortsOf(callback.service) \cup callback'.ports
  BY <1>1, <1>2 DEF Entries, About, SameObjects, PortsOf
<1>4. \A m \in Names \ {n} : Entries(m)' = Entries(m)
  BY <1>1, <1>2, EntriesSame
<1>5. /\ StatesOK' /\ sp \in LB!ServicePortNames
      /\ callback.phase = "merge" =>
            services'[sp] = IF services[sp] = None THEN LB!EmptyState ELSE services[sp]
      /\ callback.phase = "unmerge" =>
            services'[sp] = IF p \in PortsOf(callback.service) THEN services[sp] ELSE None
      /\ \A q \in LB!ServicePortNames \ {sp} : services'[q] = services[q]
      /\ callback.phase \in {"merge", "unmerge"}
  BY <1>2, NewServiceIs, DeleteServiceIs
<1>6. \A m \in Names, q \in PortNames : <<m, q>> # sp => services'[<<m, q>>] = services[<<m, q>>]
  BY <1>5, KeyTyped
<1>7. \A q \in PortNames : services'[<<n, q>>] # None <=> q \in Entries(n)'
  <2> SUFFICES ASSUME NEW q \in PortNames
               PROVE  services'[<<n, q>>] # None <=> q \in Entries(n)'
    OBVIOUS
  <2>1. services[<<n, q>>] # None <=> q \in Entries(n)
    BY <1>2 DEF BInv, EntriesOK
  <2>2. CASE q # p
    <3>1. services'[<<n, q>>] = services[<<n, q>>]
      BY <1>2, <1>6, <2>2
    <3> QED BY <1>1, <1>2, <1>3, <1>5, <2>1, <2>2, <3>1
  <2>3. CASE q = p
    <3>1. callback.phase = "merge" => services'[<<n, q>>] # None /\ p \in PortsOf(callback.service)
      BY <1>1, <1>2, <1>5, <2>3, EmptyStateIs DEF PortsOf
    <3>2. callback.phase = "unmerge" =>
             (services'[<<n, q>>] # None <=> p \in PortsOf(callback.service))
      BY <1>2, <1>5, <2>1, <2>3
    <3> QED BY <1>1, <1>3, <1>5, <2>3, <3>1, <3>2
  <2> QED BY <2>2, <2>3
<1>8. \A m \in Names \ {n}, q \in PortNames : services'[<<m, q>>] = services[<<m, q>>]
  BY <1>6
<1> HIDE DEF sp
<1>9. EntriesOK'
  BY <1>4, <1>7, <1>8, EntriesOf DEF BInv
<1> QED BY <1>5, <1>9 DEF BInv

\* A callback begins with the entries of the cached object.
LEMMA SetServiceEntries ==
    ASSUME IInv, BInv, NEW s \in Services, SetService(s)
    PROVE  BInv'
<1>1. /\ callback = None /\ callback' # None
      /\ callback'.phase = "merge" /\ callback'.service = s
      /\ callback'.ports = DOMAIN s.ports /\ callback'.old = CachedService(s.name)
      /\ UNCHANGED servicesEndpoints
  BY SetServiceInv
<1>2. UNCHANGED services /\ s # None
  BY NoneAssumption DEF SetService
<1>3. Walked' = s
  BY <1>1 DEF Walked
<1>4. \A m \in Names : CachedService(m)' = CachedService(m)
  BY <1>1 DEF CachedService
<1>5. ASSUME NEW m \in Names
      PROVE  Entries(m)' = Entries(m)
  <2>1. Entries(m) = PortsOf(CachedService(m))
    BY <1>1 DEF Entries, About
  <2>2. CASE m = s.name
    <3>1. Entries(m)' = PortsOf(CachedService(m)) \cup (PortsOf(s) \ DOMAIN s.ports)
      BY <1>1, <1>3, <2>2 DEF Entries, About, PortsOf
    <3> QED BY <1>2, <2>1, <3>1 DEF PortsOf
  <2>3. CASE m # s.name
    <3>1. Entries(m)' = PortsOf(CachedService(m))
      BY <1>1, <1>3, <1>4, <2>3 DEF Entries, About, PortsOf
    <3> QED BY <2>1, <3>1
  <2> QED BY <2>2, <2>3
<1> QED BY <1>2, <1>5, EntriesKept

LEMMA DeleteServiceEntries ==
    ASSUME IInv, BInv, NEW n \in Names, DeleteService(n)
    PROVE  BInv'
<1>1. /\ callback = None /\ callback' # None
      /\ callback'.phase = "unmerge" /\ callback'.service = None
      /\ callback'.old = CachedService(n) /\ callback'.old.name = n
      /\ callback'.ports = DOMAIN callback'.old.ports
      /\ UNCHANGED servicesEndpoints
  BY DeleteServiceInv
<1>2. UNCHANGED services /\ CachedService(n) # None
  BY CachedTyped DEF DeleteService, IInv
<1>3. Walked' = CachedService(n) /\ Walked'.name = n
  BY <1>1 DEF Walked
<1>4. \A m \in Names : CachedService(m)' = CachedService(m)
  BY <1>1 DEF CachedService
<1>5. ASSUME NEW m \in Names
      PROVE  Entries(m)' = Entries(m)
  <2>1. Entries(m) = PortsOf(CachedService(m))
    BY <1>1 DEF Entries, About
  <2>2. CASE m = n
    <3>1. Entries(m)' = {} \cup DOMAIN CachedService(n).ports
      BY <1>1, <1>3, <2>2 DEF Entries, About, PortsOf
    <3> QED BY <1>2, <2>1, <2>2, <3>1 DEF PortsOf
  <2>3. CASE m # n
    <3>1. Entries(m)' = PortsOf(CachedService(m))
      BY <1>1, <1>3, <1>4, <2>3 DEF Entries, About, PortsOf
    <3> QED BY <2>1, <3>1
  <2> QED BY <2>2, <2>3
<1> QED BY <1>2, <1>5, EntriesKept

\* All ports of the new object have an entry when the unmerge begins.
LEMMA BeginUnmergeEntries ==
    ASSUME IInv, BInv, BeginUnmerge
    PROVE  BInv'
<1>1. /\ callback # None /\ callback' # None /\ callback.phase = "merge" /\ callback.ports = {}
      /\ callback'.phase = "unmerge" /\ callback'.service = callback.service
      /\ callback'.old = callback.old /\ callback'.old.name = callback.service.name
      /\ callback'.old \in Services /\ callback'.ports = DOMAIN callback'.old.ports
      /\ UNCHANGED servicesEndpoints
  BY BeginUnmergeInv
<1>2. PICK s, old : s = callback.service /\ old = callback.old
  OBVIOUS
<1>3. UNCHANGED services /\ old # None /\ old.name = s.name
  BY <1>1, <1>2, NoneAssumption DEF BeginUnmerge
<1>4. Walked = s /\ Walked' = old
  BY <1>1, <1>2 DEF Walked
<1>5. \A m \in Names : CachedService(m)' = CachedService(m)
  BY <1>1 DEF CachedService
<1>6. ASSUME NEW m \in Names
      PROVE  Entries(m)' = Entries(m)
  <2>1. CASE m = s.name
    <3>1. Entries(m) = PortsOf(old) \cup (PortsOf(s) \ {})
      BY <1>1, <1>2, <1>4, <2>1 DEF Entries, About
    <3>2. Entries(m)' = PortsOf(s) \cup DOMAIN old.ports
      BY <1>1, <1>2, <1>3, <1>4, <2>1 DEF Entries, About, PortsOf
    <3> QED BY <1>3, <3>1, <3>2 DEF PortsOf
  <2>2. CASE m # s.name
    <3>1. Entries(m) = PortsOf(CachedService(m))
      BY <1>4, <2>2 DEF Entries, About
    <3>2. Entries(m)' = PortsOf(CachedService(m))
      BY <1>3, <1>4, <1>5, <2>2 DEF Entries, About, PortsOf
    <3> QED BY <3>1, <3>2
  <2> QED BY <2>1, <2>2
<1> QED BY <1>3, <1>6, EntriesKept

\* A callback that has walked through its object leaves the entries of what
\* the sink then records.
LEMMA ReturnEntries ==
    ASSUME IInv, BInv, NEW n, NEW new, Returned(n, new)
    PROVE  BInv'
<1>1. /\ callback # None /\ callback.ports = {} /\ callback' = None
      /\ callback.phase = "unmerge" \/ callback.old = None
      /\ n \in Names /\ n = Walked.name
      /\ servicesEndpoints'[n] = new
      /\ \A m \in Names \ {n} : servicesEndpoints'[m] = servicesEndpoints[m]
      /\ callback.service = None => new = None
      /\ callback.service # None => new # None /\ new.service = callback.service
      /\ UNCHANGED services
  BY DEF Returned
<1>2. PICK s : s = callback.service
  OBVIOUS
<1>3. Entries(n) = PortsOf(s)
  <2>1. callback.phase = "merge" => Entries(n) = PortsOf(callback.old) \cup (PortsOf(s) \ {})
    BY <1>1, <1>2, AboutIs
  <2>2. callback.phase = "unmerge" => Entries(n) = PortsOf(s) \cup {}
    BY <1>1, <1>2, AboutIs
  <2>3. callback.phase \in {"merge", "unmerge"}
    BY <1>1, AboutIs
  <2> QED BY <1>1, <2>1, <2>2, <2>3 DEF PortsOf
<1>4. CachedService(n)' = s
  BY <1>1, <1>2 DEF CachedService
<1>5. Entries(n)' = PortsOf(s)
  BY <1>1, <1>4 DEF Entries, About, PortsOf
<1>6. ASSUME NEW m \in Names \ {n}
      PROVE  Entries(m)' = Entries(m)
  <2>1. CachedService(m)' = CachedService(m)
    BY <1>1 DEF CachedService
  <2>2. Entries(m) = PortsOf(CachedService(m))
    BY <1>1 DEF Entries, About
  <2>3. Entries(m)' = PortsOf(CachedService(m))
    BY <1>1, <2>1 DEF Entries, About, PortsOf
  <2> QED BY <2>2, <2>3
<1>7. \A m \in Names : Entries(m)' = Entries(m)
  BY <1>3, <1>5, <1>6
<1> QED BY <1>1, <1>7, EntriesKept

\* Endpoint callbacks touch the entries of the service's own ports only.
SetEndpointOf(n, e) ==
    \/ servicesEndpoints[n] = None /\ UNCHANGED services
    \/ servicesEndpoints[n] # None /\ Fills(e, servicesEndpoints[n].service)

LEMMA SetEndpointEntries ==
    ASSUME IInv, BInv, NEW n \in Names, NEW k \in Keys, NEW e \in Endpoints, SetEndpoint(n, k, e)
    PROVE  BInv' /\ SetEndpointOf(n, e)
<1>1. /\ callback = None /\ callback' = None
      /\ \A m \in Names : CachedService(m)' = CachedService(m)
  BY SetEndpointIs
<1>2. \A m \in Names : Entries(m) = PortsOf(CachedService(m)) /\ Entries(m)' = Entries(m)
  BY <1>1 DEF Entries, About, PortsOf
<1>3. CASE servicesEndpoints[n] = None
  <2>1. UNCHANGED services
    BY <1>3 DEF SetEndpoint
  <2> QED BY <1>2, <1>3, <2>1, EntriesKept DEF SetEndpointOf
<1>4. CASE servicesEndpoints[n] # None
  <2>1. PICK s \in Services : s = servicesEndpoints[n].service /\ s.name = n
                              /\ CachedService(n) = s /\ s # None
    BY <1>4, CachedTyped DEF IInv
  <2>2. LB!OnEndpointsAdd(e, s) \/ \E old : LB!OnEndpointsUpdate(old, e, s)
    BY <1>4, <2>1 DEF SetEndpoint
  <2>3. StatesOK' /\ Fills(e, s)
    BY <2>2, AddFills, UpdateFills DEF BInv
  <2>4. \A m \in Names \ {n}, p \in PortNames : services'[<<m, p>>] = services[<<m, p>>]
    BY <2>1, <2>3, KeyTyped DEF Fills, PortOf
  <2>5. ASSUME NEW p \in PortNames
        PROVE  services'[<<n, p>>] # None <=> p \in Entries(n)'
    <3>1. services[<<n, p>>] # None <=> p \in DOMAIN s.ports
      BY <1>2, <2>1 DEF BInv, EntriesOK, PortsOf
    <3>2. services'[<<n, p>>] # None <=> services[<<n, p>>] # None
      BY <2>1, <2>3, <3>1, KeyTyped DEF Fills, PortOf
    <3> QED BY <1>2, <3>2 DEF BInv, EntriesOK
  <2>6. EntriesOK'
    BY <1>2, <2>4, <2>5, EntriesOf DEF BInv
  <2> QED BY <1>4, <2>1, <2>3, <2>6 DEF BInv, SetEndpointOf
<1> QED BY <1>3, <1>4

LEMMA DeleteEndpointEntries ==
    ASSUME IInv, BInv, NEW n \in Names, NEW k \in Keys, DeleteEndpoint(n, k)
    PROVE  /\ BInv'
           /\ \/ UNCHANGED services /\ (servicesEndpoints[n] = None \/ servicesEndpoints[n].endpoint = None)
              \/ /\ servicesEndpoints[n] # None /\ servicesEndpoints[n].endpoint \in Endpoints
                 /\ LB!OnEndpointsDelete(servicesEndpoints[n].endpoint, servicesEndpoints[n].service)
<1>1. callback = None /\ callback' = None /\ UNCHANGED servicesEndpoints
  BY DeleteEndpointIs
<1>2. \A m \in Names : Entries(m)' = Entries(m)
  BY <1>1 DEF Entries, About, PortsOf, CachedService
<1>3. CASE UNCHANGED services /\ (servicesEndpoints[n] = None \/ servicesEndpoints[n].endpoint = None)
  BY <1>2, <1>3, EntriesKept
<1>4. CASE /\ servicesEndpoints[n] # None /\ servicesEndpoints[n].endpoint # None
           /\ LB!OnEndpointsDelete(servicesEndpoints[n].endpoint, servicesEndpoints[n].service)
  <2>1. /\ servicesEndpoints[n].service \in Services
        /\ servicesEndpoints[n].endpoint \in Endpoints
    BY <1>4, CachedTyped DEF IInv
  <2>2. /\ StatesOK'
        /\ \A sp \in LB!ServicePortNames : services'[sp] # None <=> services[sp] # None
    BY <1>4, <2>1, DeleteEmpties DEF BInv
  <2>3. EntriesOK'
    <3> SUFFICES ASSUME NEW m \in Names, NEW p \in PortNames
                 PROVE  services'[<<m, p>>] # None <=> p \in Entries(m)'
      BY DEF EntriesOK
    <3>1. services'[<<m, p>>] # None <=> services[<<m, p>>] # None
      BY <2>2, KeyTyped
    <3>2. services[<<m, p>>] # None <=> p \in Entries(m)
      BY DEF BInv, EntriesOK
    <3> QED BY <1>2, <3>1, <3>2
  <2> QED BY <1>4, <2>1, <2>2, <2>3 DEF BInv
<1> QED BY <1>3, <1>4 DEF DeleteEndpoint

\* A started agent has no entry and no cached service.
LEMMA StartEntries ==
    ASSUME services' = [sp \in Names \X PortNames |-> None], callback' = None,
           servicesEndpoints' = [n \in Names |-> None]
    PROVE  BInv'
<1>1. StatesOK'
  BY DEF StatesOK, EntryOK, LB!ServicePortNames
<1>2. \A n \in Names, p \in PortNames : services'[<<n, p>>] = None
  OBVIOUS
<1>3. \A n \in Names : CachedService(n)' = None
  BY DEF CachedService
<1>4. \A n \in Names : Entries(n)' = {}
  BY <1>3 DEF Entries, About, PortsOf
<1>5. EntriesOK'
  BY <1>2, <1>4, Zenon DEF EntriesOK
<1> QED BY <1>1, <1>5 DEF BInv

LEMMA InitEntries ==
    ASSUME Init
    PROVE  BInv
<1>1. StatesOK
  BY DEF Init, StatesOK, EntryOK, LB!ServicePortNames
<1>2. EntriesOK
  BY DEF Init, EntriesOK, Entries, About, PortsOf, CachedService
<1> QED BY <1>1, <1>2 DEF BInv

LEMMA SameEntries ==
    ASSUME IInv, BInv, UNCHANGED <<servicesEndpoints, services, callback>>
    PROVE  BInv'
<1>1. \A n \in Names : Entries(n)' = Entries(n)
  BY DEF Entries, About, PortsOf, CachedService, Walked
<1> QED BY <1>1, EntriesKept

LEMMA EntriesStep ==
    ASSUME IInv, BInv, StepKinds
    PROVE  BInv'
<1>1. ASSUME \/ \E p \in PortNames, ip \in ListenAddresses, w \in ListenIPs \cup {None} : Merges(p, ip, w)
             \/ MergesShown
             \/ \E p \in PortNames, ip \in ListenAddresses : Unmerges(p, ip)
      PROVE  BInv'
  <2>1. SameObjects /\ callback'.ports = callback.ports /\ UNCHANGED <<servicesEndpoints, services>>
    BY <1>1 DEF Merges, MergesShown, Unmerges, Handles, Shows
  <2>2. \A n \in Names : Entries(n)' = Entries(n)
    BY <2>1, EntriesSame
  <2> QED BY <2>1, <2>2, EntriesKept
<1>2. ASSUME NEW portal, NEW g, LoopExit(portal, g) \/ UdpReadFails(portal, g) \/ UdpDatagram(portal, g)
      PROVE  BInv'
  BY <1>2, SameEntries DEF LoopExit, UdpReadFails, UdpDatagram
<1>3. CASE MergeHeadless
  BY <1>3, SameEntries DEF MergeHeadless
<1>4. CASE Restart
  BY <1>4, StartEntries DEF Restart
<1> QED
  BY <1>1, <1>2, <1>3, <1>4, FinishesEntries, SetServiceEntries, DeleteServiceEntries,
     BeginUnmergeEntries, ReturnEntries, SetEndpointEntries, DeleteEndpointEntries DEF StepKinds

\* The balancer's entries follow the callbacks port by port, through updates,
\* deletions, endpoint callbacks, panics and restarts (mergeService and
\* unmergeService, proxier.go:195-320; roundrobin.go:80-190).
THEOREM EntriesInvariance == Spec => []BInv
<1>1. Init => BInv
  BY InitEntries
<1>2. IInv /\ BInv /\ [Next]_vars => BInv'
  <2>1. IInv /\ BInv /\ UNCHANGED vars => BInv'
    BY SameEntries DEF vars
  <2> QED BY <2>1, StepInv, EntriesStep
<1> QED BY <1>1, <1>2, Invariance, PTL DEF Spec

\* Every variable keeps its type: the sink's cache, the map and its objects,
\* the balancer, the interface and the callback in progress.
THEOREM TypeCorrect == Spec => []TypeOK
<1>1. IInv /\ BInv => TypeOK
  <2> SUFFICES ASSUME IInv, BInv
               PROVE  TypeOK
    OBVIOUS
  <2>1. servicesEndpoints \in [Names -> [service : Services, endpoint : Endpoints \cup {None}] \cup {None}]
    BY DEF IInv, CacheOK, CacheEntries
  <2>2. infos \in [ServicePortPortalNames -> [Generations -> Infos \cup {None}]]
    <3>1. \A portal \in ServicePortPortalNames, g \in Generations : infos[portal][g] \in Infos \cup {None}
      BY DEF IInv, InfosOK, InfoOK
    <3>2. infos = [portal \in ServicePortPortalNames |-> [g \in Generations |-> infos[portal][g]]]
      BY DEF IInv, InfosOK
    <3>3. [portal \in ServicePortPortalNames |-> [g \in Generations |-> infos[portal][g]]]
             \in [ServicePortPortalNames -> [Generations -> Infos \cup {None}]]
      BY <3>1
    <3> QED BY <3>2, <3>3, Zenon
  <2>3. LB!TypeOK
    BY StatesOKIs DEF BInv
  <2>4. callback # None =>
          /\ callback.phase \in {"merge", "unmerge"}
          /\ callback.service \in Services \cup {None}
          /\ callback.old \in Services \cup {None}
          /\ callback.ports \subseteq PortNames
    BY CallbackTypes DEF IInv, CallbackOK
  <2>5. serviceMap \in [ServicePortPortalNames -> Generations \cup {None}]
    BY DEF IInv, InfosOK
  <2> QED BY <2>1, <2>2, <2>3, <2>4, <2>5 DEF TypeOK, IInv, RestOK
<1> QED BY <1>1, Invariance, EntriesInvariance, PTL

\* Between callbacks the balancer has an entry for exactly the ports of the
\* announced services, for any objects the API sends, headless ones included,
\* and whatever failed on the way (proxier.go:260 and 316, sink.go:39-50).
THEOREM BalancerMatches == Spec => []BalancerMatchesCache
<1>1. IInv /\ BInv => BalancerMatchesCache
  <2> SUFFICES ASSUME IInv, BInv, callback = None, NEW n \in Names, NEW p \in PortNames
               PROVE  services[<<n, p>>] # None <=>
                        servicesEndpoints[n] # None /\ p \in DOMAIN servicesEndpoints[n].service.ports
    BY DEF BalancerMatchesCache, Idle
  <2>1. services[<<n, p>>] # None <=> p \in PortsOf(CachedService(n))
    BY DEF BInv, EntriesOK, Entries, About
  <2>2. CachedService(n) = None <=> servicesEndpoints[n] = None
    BY CachedNone DEF IInv
  <2> QED BY <2>1, <2>2 DEF PortsOf, CachedService
<1> QED BY <1>1, Invariance, EntriesInvariance, PTL

LEMMA EntryKept ==
    ASSUME IInv, BInv, StepKinds, callback # None, callback' # None,
           NEW s \in Services, s = callback.service, NEW p \in DOMAIN s.ports,
           services[<<s.name, p>>] # None
    PROVE  services'[<<s.name, p>>] = services[<<s.name, p>>]
<1>1. <<s.name, p>> \in LB!ServicePortNames /\ p \in PortNames /\ p \in PortsOf(callback.service)
  BY ObjectAssumption, NoneAssumption, KeyTyped DEF PortsOf
<1>2. s.name = Walked.name
  <2>1. callback.phase \in {"merge", "unmerge"}
    BY AboutIs
  <2>2. callback.phase = "merge" => Walked = s
    BY AboutIs
  <2>3. callback.phase = "unmerge" => s.name = Walked.name
    BY AboutIs, NoneAssumption DEF IInv, CallbackOK
  <2> QED BY <2>1, <2>2, <2>3
<1>3. ASSUME NEW q \in PortNames, MergeNewService(q)
      PROVE  services'[<<s.name, p>>] = services[<<s.name, p>>]
  BY <1>1, <1>2, <1>3, NewServiceIs
<1>4. ASSUME NEW q \in PortNames, UnmergeDeleteService(q)
      PROVE  services'[<<s.name, p>>] = services[<<s.name, p>>]
  <2>1. PICK sp : sp = <<Walked.name, q>>
    OBVIOUS
  <2>2. /\ services'[sp] = IF q \in PortsOf(callback.service) THEN services[sp] ELSE None
        /\ \A r \in LB!ServicePortNames \ {sp} : services'[r] = services[r]
    BY <1>4, <2>1, DeleteServiceIs
  <2>3. CASE q = p
    BY <1>1, <1>2, <2>1, <2>2, <2>3
  <2>4. CASE q # p
    <3>1. <<s.name, p>> # sp
      BY <2>1, <2>4
    <3> QED BY <1>1, <2>2, <3>1
  <2> QED BY <2>3, <2>4
<1>5. ASSUME \/ \E q \in PortNames, ip \in ListenAddresses, w \in ListenIPs \cup {None} : Merges(q, ip, w)
             \/ MergesShown
             \/ \E q \in PortNames, ip \in ListenAddresses : Unmerges(q, ip)
             \/ MergeHeadless \/ BeginUnmerge
             \/ \E portal \in ServicePortPortalNames, g \in Generations :
                   LoopExit(portal, g) \/ UdpReadFails(portal, g) \/ UdpDatagram(portal, g)
      PROVE  UNCHANGED services
  BY <1>5 DEF Merges, MergesShown, Unmerges, MergeHeadless, BeginUnmerge, LoopExit, UdpReadFails,
     UdpDatagram
<1>6. ~(\E n, new : Returned(n, new)) /\ ~Restart
  BY DEF Returned, Restart
<1>7. /\ ~(\E o \in Services : SetService(o))
      /\ ~(\E n \in Names : DeleteService(n))
      /\ ~(\E n \in Names, k \in Keys : DeleteEndpoint(n, k))
      /\ ~(\E n \in Names, k \in Keys, e \in Endpoints : SetEndpoint(n, k, e))
  BY DEF SetService, DeleteService, DeleteEndpoint, SetEndpoint, Idle
<1> QED BY <1>3, <1>4, <1>5, <1>6, <1>7 DEF StepKinds

\* At no step of an update does a port that the new object still has lose its
\* endpoints or its place in the round (newServiceInternal keeps an entry, and
\* the check on servicePortNameMap, proxier.go:316, spares it).
THEOREM UpdatesKeepEndpoints == Spec => UpdateKeepsEndpoints
<1> DEFINE Kept ==
       callback # None /\ callback.service # None /\ callback' # None =>
           \A p \in DOMAIN callback.service.ports :
               LET sp == <<callback.service.name, p>>
               IN  services[sp] # None => services'[sp] = services[sp]
<1>1. IInv /\ BInv /\ [Next]_vars => [Kept]_vars
  <2> SUFFICES ASSUME IInv, BInv, Next, callback # None, callback.service # None, callback' # None,
                      NEW p \in DOMAIN callback.service.ports,
                      services[<<callback.service.name, p>>] # None
               PROVE  services'[<<callback.service.name, p>>] = services[<<callback.service.name, p>>]
    OBVIOUS
  <2>1. PICK s \in Services : s = callback.service
    BY CallbackTypes DEF IInv, CallbackOK
  <2>2. StepKinds
    BY StepInv
  <2>3. services'[<<s.name, p>>] = services[<<s.name, p>>]
    BY <2>1, <2>2, EntryKept
  <2> QED BY <2>1, <2>3
<1>2. Spec => [][Kept]_vars
  BY <1>1, Invariance, EntriesInvariance, PTL DEF Spec
<1> QED BY <1>2, PTL DEF UpdateKeepsEndpoints

-----------------------------------------------------------------------------
(***************************************************************************)
(* The addresses of the entries.                                           *)
(***************************************************************************)
\* The addresses of one entry, as EndpointsOK asks.
AddressesOK(n, state) ==
    /\ FreshOK(n, state)
    /\ state.endpoints = <<>> \/ (servicesEndpoints[n] # None /\ servicesEndpoints[n].endpoint # None)

LEMMA EmptyOK ==
    ASSUME NEW n, NEW state, state.endpoints = <<>>
    PROVE  AddressesOK(n, state) /\ AddressesOK(n, state)'
<1>1. Range(state.endpoints) = {}
  BY DEF Range
<1> QED BY <1>1 DEF AddressesOK, FreshOK

\* The step leaves what the API has told of a service, and an entry only
\* stays, goes or is emptied.
LEMMA AddressesKept ==
    ASSUME EndpointsOK, UNCHANGED told, NEW n \in Names, NEW p \in PortNames,
           services'[<<n, p>>] \in {services[<<n, p>>], None, LB!EmptyState},
           servicesEndpoints[n] # None /\ servicesEndpoints[n].endpoint # None =>
              servicesEndpoints'[n] # None /\ servicesEndpoints'[n].endpoint # None,
           NEW state, state = services'[<<n, p>>], state # None
    PROVE  AddressesOK(n, state)'
<1>1. CASE state = LB!EmptyState
  BY <1>1, EmptyStateIs, EmptyOK
<1>2. CASE state = services[<<n, p>>]
  BY <1>2 DEF EndpointsOK, AddressesOK, FreshOK
<1> QED BY <1>1, <1>2

LEMMA EndpointsParts ==
    ASSUME \A n \in Names, p \in PortNames :
              \A state : state = services'[<<n, p>>] /\ state # None => AddressesOK(n, state)'
    PROVE  EndpointsOK'
<1> SUFFICES ASSUME NEW n \in Names, NEW p \in PortNames, services'[<<n, p>>] # None
             PROVE  /\ FreshOK(n, services[<<n, p>>])'
                    /\ \/ services'[<<n, p>>].endpoints = <<>>
                       \/ servicesEndpoints'[n] # None /\ servicesEndpoints'[n].endpoint # None
  BY DEF EndpointsOK
<1>1. PICK state : state = services'[<<n, p>>]
  OBVIOUS
<1>2. AddressesOK(n, state)'
  BY <1>1
<1> QED BY <1>1, <1>2 DEF AddressesOK, FreshOK

\* Steps of callbacks and of loops.
LEMMA EndpointsShrink ==
    ASSUME EndpointsOK, UNCHANGED <<told, servicesEndpoints>>,
           \A sp \in LB!ServicePortNames : services'[sp] \in {services[sp], None, LB!EmptyState}
    PROVE  EndpointsOK'
<1>1. \A n \in Names, p \in PortNames : services'[<<n, p>>] \in {services[<<n, p>>], None, LB!EmptyState}
  BY KeyTyped
<1> QED BY <1>1, AddressesKept, EndpointsParts

\* When a service is deleted its entries are gone before the cache forgets
\* its endpoint.
LEMMA EndpointsReturn ==
    ASSUME IInv, BInv', EndpointsOK, NEW n, NEW new, Returned(n, new)
    PROVE  EndpointsOK'
<1>1. /\ callback' = None /\ n \in Names /\ servicesEndpoints'[n] = new
      /\ \A m \in Names \ {n} : servicesEndpoints'[m] = servicesEndpoints[m]
      /\ callback.service = None => new = None
      /\ callback.service # None =>
            new # None /\ (servicesEndpoints[n] # None => new.endpoint = servicesEndpoints[n].endpoint)
      /\ UNCHANGED <<services, told>>
  BY DEF Returned
<1>2. ASSUME NEW m \in Names, NEW p \in PortNames, NEW state, state = services'[<<m, p>>], state # None
      PROVE  AddressesOK(m, state)'
  <2>1. m = n => new # None
    <3>1. m = n /\ new = None => CachedService(m)' = None
      BY <1>1 DEF CachedService
    <3>2. m = n /\ new = None => Entries(m)' = {}
      BY <1>1, <3>1 DEF Entries, About, PortsOf
    <3> QED BY <1>2, <3>2 DEF BInv, EntriesOK
  <2>2. servicesEndpoints[m] # None /\ servicesEndpoints[m].endpoint # None =>
           servicesEndpoints'[m] # None /\ servicesEndpoints'[m].endpoint # None
    BY <1>1, <2>1
  <2> QED BY <1>1, <1>2, <2>2, AddressesKept
<1> QED BY <1>2, EndpointsParts

\* Services other than the one an endpoint callback is about.
LEMMA OtherAddresses ==
    ASSUME EndpointsOK, NEW n \in Names, NEW k \in Keys, NEW x, told' = [told EXCEPT ![n][k] = x],
           NEW m \in Names, m # n, NEW p \in PortNames, services'[<<m, p>>] = services[<<m, p>>],
           servicesEndpoints[m] # None /\ servicesEndpoints[m].endpoint # None =>
              servicesEndpoints'[m] # None /\ servicesEndpoints'[m].endpoint # None,
           RestOK, NEW state, state = services'[<<m, p>>], state # None
    PROVE  AddressesOK(m, state)'
<1>1. told'[m] = told[m]
  BY DEF RestOK
<1> QED BY <1>1 DEF EndpointsOK, AddressesOK, FreshOK

\* Between callbacks a name that is not cached has no entry, and one that is
\* has those of its ports.
LEMMA IdleEntries ==
    ASSUME IInv, BInv, callback = None, NEW n \in Names, NEW p \in PortNames,
           services[<<n, p>>] # None
    PROVE  /\ servicesEndpoints[n] # None
           /\ PortOf(<<n, p>>, servicesEndpoints[n].service)
<1>1. p \in PortsOf(CachedService(n))
  BY DEF BInv, EntriesOK, Entries, About
<1>2. CachedService(n) # None
  BY <1>1 DEF PortsOf
<1>3. servicesEndpoints[n] # None
  BY <1>2 DEF CachedService
<1>4. servicesEndpoints[n].service = CachedService(n) /\ servicesEndpoints[n].service.name = n
  BY <1>3, CachedTyped DEF IInv
<1> QED BY <1>1, <1>2, <1>3, <1>4 DEF PortOf, PortsOf

LEMMA EndpointsSet ==
    ASSUME IInv, BInv, EndpointsOK, IPv4Only, NEW n \in Names, NEW k \in Keys, NEW e \in Endpoints,
           SetEndpoint(n, k, e)
    PROVE  EndpointsOK'
<1>1. /\ callback = None /\ callback' = None
      /\ \A m \in Names : servicesEndpoints'[m] = None <=> servicesEndpoints[m] = None
      /\ \A m \in Names : servicesEndpoints[m] # None => servicesEndpoints'[m].endpoint =
            IF m = n /\ servicesEndpoints[m].endpoint = None THEN e ELSE servicesEndpoints[m].endpoint
  BY SetEndpointIs
<1>2. BInv' /\ SetEndpointOf(n, e)
  BY SetEndpointEntries
<1>3. told' = [told EXCEPT ![n][k] = e] /\ told'[n][k] = e
  BY DEF SetEndpoint, IInv, RestOK
<1>4. e # None /\ e # <<>>
  BY NoneAssumption DEF IPv4Only
<1>5. ASSUME NEW m \in Names, NEW p \in PortNames, NEW state, state = services'[<<m, p>>], state # None
      PROVE  AddressesOK(m, state)'
  <2>1. servicesEndpoints[m] # None /\ servicesEndpoints[m].endpoint # None =>
           servicesEndpoints'[m] # None /\ servicesEndpoints'[m].endpoint # None
    BY <1>1, <1>4
  <2>2. CASE m # n
    <3>1. services'[<<m, p>>] = services[<<m, p>>]
      <4>1. CASE servicesEndpoints[n] = None
        BY <1>2, <4>1 DEF SetEndpointOf
      <4>2. CASE servicesEndpoints[n] # None
        <5>1. Fills(e, servicesEndpoints[n].service) /\ servicesEndpoints[n].service.name = n
          BY <1>2, <4>2, CachedTyped DEF SetEndpointOf, IInv
        <5> QED BY <2>2, <5>1, KeyTyped DEF Fills, PortOf
      <4> QED BY <4>1, <4>2
    <3> QED BY <1>3, <1>5, <2>1, <2>2, <3>1, OtherAddresses DEF IInv
  <2>3. CASE m = n
    <3>1. servicesEndpoints[n] # None
      <4>1. servicesEndpoints[n] = None => services'[<<n, p>>] = services[<<n, p>>]
        BY <1>2 DEF SetEndpointOf
      <4> QED BY <1>1, <1>5, <2>3, <4>1, IdleEntries
    <3>2. PICK s \in Services : s = servicesEndpoints[n].service /\ s.name = n
                                /\ CachedService(n) = s /\ s # None
      BY <3>1, CachedTyped DEF IInv
    <3>3. PortOf(<<n, p>>, s)
      <4>1. CachedService(n)' = s
        BY <3>2, SetEndpointIs
      <4>2. p \in Entries(n)'
        BY <1>2, <1>5, <2>3 DEF BInv, EntriesOK
      <4> QED BY <1>1, <3>2, <4>1, <4>2, KeyTyped DEF Entries, About, PortsOf, PortOf
    <3>4. From(state, e)
      BY <1>2, <1>4, <1>5, <2>3, <3>1, <3>2, <3>3, KeyTyped DEF SetEndpointOf, Fills
    <3>5. FreshOK(n, state)'
      BY <1>3, <1>4, <3>4 DEF FreshOK, From
    <3>6. servicesEndpoints'[n] # None /\ servicesEndpoints'[n].endpoint # None
      BY <1>1, <1>4, <3>1
    <3> QED BY <2>3, <3>5, <3>6 DEF AddressesOK
  <2> QED BY <2>2, <2>3
<1> QED BY <1>5, EndpointsParts

LEMMA EndpointsDeleted ==
    ASSUME IInv, BInv, EndpointsOK, IPv4Only, NEW n \in Names, NEW k \in Keys, DeleteEndpoint(n, k)
    PROVE  EndpointsOK'
<1>1. /\ callback = None /\ UNCHANGED servicesEndpoints /\ told' = [told EXCEPT ![n][k] = None]
  BY DeleteEndpointIs
<1>2. \/ UNCHANGED services /\ (servicesEndpoints[n] = None \/ servicesEndpoints[n].endpoint = None)
      \/ /\ servicesEndpoints[n] # None /\ servicesEndpoints[n].endpoint \in Endpoints
         /\ LB!OnEndpointsDelete(servicesEndpoints[n].endpoint, servicesEndpoints[n].service)
  BY DeleteEndpointEntries
<1>3. CASE UNCHANGED services /\ (servicesEndpoints[n] = None \/ servicesEndpoints[n].endpoint = None)
  <2>1. ASSUME NEW m \in Names, NEW p \in PortNames, NEW state, state = services'[<<m, p>>], state # None
        PROVE  AddressesOK(m, state)'
    <3>1. CASE m # n
      BY <1>1, <1>3, <2>1, <3>1, OtherAddresses DEF IInv
    <3>2. CASE m = n
      <4>1. servicesEndpoints[n] # None
        BY <1>1, <1>3, <2>1, <3>2, IdleEntries
      <4>2. state.endpoints = <<>>
        BY <1>3, <2>1, <3>2, <4>1 DEF EndpointsOK
      <4> QED BY <4>2, EmptyOK
    <3> QED BY <3>1, <3>2
  <2> QED BY <2>1, EndpointsParts
<1>4. CASE /\ servicesEndpoints[n] # None /\ servicesEndpoints[n].endpoint \in Endpoints
           /\ LB!OnEndpointsDelete(servicesEndpoints[n].endpoint, servicesEndpoints[n].service)
  <2>1. PICK s \in Services, e \in Endpoints :
           s = servicesEndpoints[n].service /\ s.name = n /\ e = servicesEndpoints[n].endpoint
    BY <1>4, CachedTyped DEF IInv
  <2>2. \A sp \in LB!ServicePortNames :
           /\ services'[sp] # None <=> services[sp] # None
           /\ ~PortOf(sp, s) => services'[sp] = services[sp]
           /\ PortOf(sp, s) /\ e # <<>> /\ services[sp] # None => services'[sp] = LB!EmptyState
    BY <1>4, <2>1, DeleteEmpties DEF BInv
  <2>3. ASSUME NEW m \in Names, NEW p \in PortNames, NEW state, state = services'[<<m, p>>], state # None
        PROVE  AddressesOK(m, state)'
    <3>1. CASE m # n
      <4>1. services'[<<m, p>>] = services[<<m, p>>]
        BY <2>1, <2>2, <3>1, KeyTyped DEF PortOf
      <4> QED BY <1>1, <2>3, <3>1, <4>1, OtherAddresses DEF IInv
    <3>2. CASE m = n
      <4>1. services[<<n, p>>] # None
        BY <2>2, <2>3, <3>2, KeyTyped
      <4>2. PortOf(<<n, p>>, s)
        BY <1>1, <2>1, <4>1, IdleEntries
      <4>3. state = LB!EmptyState
        BY <2>1, <2>2, <2>3, <3>2, <4>1, <4>2, KeyTyped DEF IPv4Only
      <4> QED BY <4>3, EmptyStateIs, EmptyOK
    <3> QED BY <3>1, <3>2
  <2> QED BY <2>3, EndpointsParts
<1> QED BY <1>2, <1>3, <1>4

LEMMA EndpointsStep ==
    ASSUME IInv, BInv, BInv', EndpointsOK, IPv4Only, StepKinds
    PROVE  EndpointsOK'
<1>1. UNCHANGED <<services, told, servicesEndpoints>> => EndpointsOK'
  BY EndpointsShrink
<1>2. ASSUME NEW p \in PortNames, MergeNewService(p) \/ UnmergeDeleteService(p)
      PROVE  EndpointsOK'
  <2>1. UNCHANGED <<servicesEndpoints, told>>
    BY <1>2, FinishesInv
  <2>2. \A sp \in LB!ServicePortNames : services'[sp] \in {services[sp], None, LB!EmptyState}
    BY <1>2, NewServiceIs, DeleteServiceIs
  <2> QED BY <2>1, <2>2, EndpointsShrink
<1>3. ASSUME \/ \E q \in PortNames, ip \in ListenAddresses, w \in ListenIPs \cup {None} : Merges(q, ip, w)
             \/ MergesShown
             \/ \E q \in PortNames, ip \in ListenAddresses : Unmerges(q, ip)
             \/ MergeHeadless \/ BeginUnmerge
             \/ \E portal \in ServicePortPortalNames, g \in Generations :
                   LoopExit(portal, g) \/ UdpReadFails(portal, g) \/ UdpDatagram(portal, g)
             \/ \E s \in Services : SetService(s)
             \/ \E n \in Names : DeleteService(n)
      PROVE  UNCHANGED <<services, told, servicesEndpoints>>
  BY <1>3 DEF Merges, MergesShown, Unmerges, MergeHeadless, BeginUnmerge, LoopExit, UdpReadFails,
     UdpDatagram, SetService, DeleteService
<1>4. CASE Restart
  BY <1>4 DEF Restart, EndpointsOK
<1> QED BY <1>1, <1>2, <1>3, <1>4, EndpointsReturn, EndpointsSet, EndpointsDeleted DEF StepKinds

\* When every endpoint object has an IPv4 address, the balancer only hands out
\* addresses of endpoints the API still has, with any number of endpoint
\* objects per service, at every step, panics and restarts included ("Now
\* remove all endpoints missing from the update.", roundrobin.go:145).
THEOREM NoneStale == Spec => [](IPv4Only => NoStaleEndpoints)
<1>1. Init => EndpointsOK
  BY DEF Init, EndpointsOK
<1>2. /\ IInv /\ BInv /\ BInv' /\ (IPv4Only => EndpointsOK) /\ [Next]_vars
      => (IPv4Only => EndpointsOK)'
  <2>1. IPv4Only' <=> IPv4Only
    BY DEF IPv4Only
  <2>2. EndpointsOK /\ UNCHANGED vars => EndpointsOK'
    BY EndpointsShrink DEF vars
  <2> QED BY <2>1, <2>2, StepInv, EndpointsStep
<1>3. EndpointsOK => NoStaleEndpoints
  BY DEF EndpointsOK, FreshOK, NoStaleEndpoints
<1>4. Spec => [](IPv4Only => EndpointsOK)
  BY <1>1, <1>2, Invariance, EntriesInvariance, PTL DEF Spec
<1>5. (IPv4Only => EndpointsOK) => (IPv4Only => NoStaleEndpoints)
  BY <1>3
<1> QED BY <1>4, <1>5, PTL
=============================================================================
