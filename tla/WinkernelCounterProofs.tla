----------------------- MODULE WinkernelCounterProofs -----------------------
(***************************************************************************)
(* Proofs about the counters of HNS endpoints that the infos of several    *)
(* services share, for any services, endpoints and ids.  A synchronization *)
(* that fails and is repeated counts an info once more, so a counter can   *)
(* reach the end of its uint16 and start again at zero; nothing below      *)
(* holds afterwards.  NoOverflow is the hypothesis that it never does.     *)
(***************************************************************************)
EXTENDS WinkernelProofs

NoOverflow == \A id \in EndpointIds : endPointsRefCount[id] < 65535

\* Where the Proxier keeps infos: a service's own endpoint, and the endpoints
\* of its map.
Slots == ServicePortNames \cup (ServicePortNames \X IPs)

VipAt(svc) == IF serviceMap[svc] = None THEN None ELSE serviceMap[svc].remoteEndpoint

EndpointAt(p) == IF p[2] \in DOMAIN endpointsMap[p[1]] THEN endpointsMap[p[1]][p[2]] ELSE None

InfoAt(slot) == IF slot \in ServicePortNames THEN VipAt(slot) ELSE EndpointAt(slot)

Shared(info) == info # None /\ info.refCount \in EndpointIds

\* What a look-up that fails by mistake does not disturb.
Reliable == api = "V2" \/ "get" \notin World

\* Who shares a counter refers to that of a remote endpoint.  HNS has it, since
\* the last one to let go deletes it, and it is the info's own endpoint, unless
\* its look-up failed and one of CNI was found by the address.
InfoShares(info) ==
    /\ info.refCount \in RemoteIds
    /\ Reliable => /\ hnsEndpoints[info.refCount] # None
                   /\ info.hnsID \in LocalIds \cup {info.refCount}
    /\ "get" \notin World => info.hnsID = info.refCount

SharedOK == \A slot \in Slots : Shared(InfoAt(slot)) => InfoShares(InfoAt(slot))

\* CNI may replace the network, and its endpoints, while the agent is down.
IdleOK ==
    phase # "running" =>
    \A svc \in ServicePortNames : serviceMap[svc] = None /\ DOMAIN endpointsMap[svc] = {}

\* The addresses of the endpoints the Proxier creates.
Addresses == IPs \cup {base.clusterIP : base \in BaseInfos}

RemoteOK ==
    \A id \in RemoteIds : hnsEndpoints[id] # None => hnsEndpoints[id].ips[1] \in Addresses

CInv == SharedOK /\ RefCountsCover /\ IdleOK /\ RemoteOK

LocalKept == "get" \notin World => \A id \in LocalIds : hnsEndpoints'[id] = hnsEndpoints[id]

-----------------------------------------------------------------------------
\* The references to a counter, by the slot that has them.
LEMMA ReferencesAre ==
    MapsOK => \A id \in EndpointIds :
        References(id) = {slot \in Slots : Shared(InfoAt(slot)) /\ InfoAt(slot).refCount = id}
<1> SUFFICES ASSUME MapsOK, NEW id \in EndpointIds
             PROVE  References(id) = {slot \in Slots : Shared(InfoAt(slot)) /\ InfoAt(slot).refCount = id}
  OBVIOUS
<1> DEFINE S == {slot \in Slots : Shared(InfoAt(slot)) /\ InfoAt(slot).refCount = id}
<1>1. ASSUME NEW svc \in ServicePortNames PROVE svc \in References(id) <=> svc \in S
  <2>1. InfoAt(svc) = VipAt(svc) /\ svc \notin ServicePortNames \X IPs
    BY RulesAssumption DEF InfoAt
  <2> QED BY <2>1 DEF References, Slots, VipAt, Shared
<1>2. ASSUME NEW p \in ServicePortNames \X IPs PROVE p \in References(id) <=> p \in S
  <2>1. InfoAt(p) = EndpointAt(p) /\ p \notin ServicePortNames
    BY RulesAssumption DEF InfoAt
  <2>2. p \in References(id) <=>
           /\ p[2] \in DOMAIN endpointsMap[p[1]]
           /\ endpointsMap[p[1]][p[2]].refCount = id
    BY <2>1 DEF References
  <2>3. p[1] \in ServicePortNames /\ p[2] \in IPs
    OBVIOUS
  <2>4. p[2] \in DOMAIN endpointsMap[p[1]] => endpointsMap[p[1]][p[2]] # None
    <3>1. p[2] \in DOMAIN endpointsMap[p[1]] => endpointsMap[p[1]][p[2]] \in endpointsInfos({p[2]})
      BY <2>3 DEF MapsOK, EndpointsOK
    <3> QED BY <2>3, <3>1, NotNone
  <2> QED BY <2>1, <2>2, <2>4 DEF Slots, EndpointAt, Shared
<1>3. References(id) \subseteq Slots /\ S \subseteq Slots
  BY DEF References, Slots
<1> QED BY <1>1, <1>2, <1>3 DEF Slots

LEMMA ReferencesBecome ==
    MapsOK' => \A id \in EndpointIds :
        References(id)' = {slot \in Slots : Shared(InfoAt(slot)') /\ InfoAt(slot)'.refCount = id}
<1>1. (MapsOK => \A id \in EndpointIds :
        References(id) = {slot \in Slots : Shared(InfoAt(slot)) /\ InfoAt(slot).refCount = id})'
  BY ReferencesAre, PTL
<1> QED BY <1>1

LEMMA SlotsFinite == IsFiniteSet(Slots)
<1> QED BY RulesAssumption, FS_Product, FS_Union DEF Slots

LEMMA ReferencesFinite ==
    ASSUME NEW id
    PROVE  /\ IsFiniteSet(References(id)) /\ Cardinality(References(id)) \in Nat
           /\ IsFiniteSet(References(id)') /\ Cardinality(References(id)') \in Nat
<1>1. References(id) \subseteq Slots /\ References(id)' \subseteq Slots
  BY DEF References, Slots
<1> QED BY <1>1, SlotsFinite, FS_Subset, FS_CardinalityType

LEMMA Uint16IsNat ==
    ASSUME NEW n \in Uint16
    PROVE  n \in Nat
<1> QED BY Uint16Is

LEMMA CountIsNat ==
    ASSUME MapsOK, NEW id \in EndpointIds
    PROVE  endPointsRefCount[id] \in Uint16 /\ endPointsRefCount[id] \in Nat
<1>1. endPointsRefCount[id] \in Uint16
  BY DEF MapsOK
<1> QED BY <1>1, Uint16IsNat

\* Infos that stop sharing, or that are dropped, without counting.
LEMMA Kept ==
    ASSUME MapsOK, MapsOK', SharedOK, RefCountsCover, UNCHANGED <<api, endPointsRefCount>>,
           \A slot \in Slots : InfoAt(slot)' = InfoAt(slot) \/ ~Shared(InfoAt(slot)'),
           \A id \in RemoteIds : hnsEndpoints[id] # None => hnsEndpoints'[id] # None
    PROVE  SharedOK' /\ RefCountsCover'
<1>1. SharedOK'
  <2> SUFFICES ASSUME NEW slot \in Slots, Shared(InfoAt(slot)')
               PROVE  InfoShares(InfoAt(slot))'
    BY DEF SharedOK
  <2>1. InfoAt(slot)' = InfoAt(slot)
    OBVIOUS
  <2>2. InfoShares(InfoAt(slot))
    BY <2>1 DEF SharedOK
  <2>3. InfoAt(slot).refCount \in RemoteIds
    BY <2>2 DEF InfoShares
  <2>4. hnsEndpoints[InfoAt(slot).refCount] # None => hnsEndpoints'[InfoAt(slot).refCount] # None
    BY <2>3
  <2> QED BY <2>1, <2>2, <2>4 DEF InfoShares, Reliable
<1>2. ASSUME NEW id \in EndpointIds
      PROVE  endPointsRefCount'[id] >= Cardinality(References(id)')
  <2>1. References(id)' \subseteq References(id)
    <3>1. References(id) = {slot \in Slots : Shared(InfoAt(slot)) /\ InfoAt(slot).refCount = id}
      BY ReferencesAre
    <3>2. References(id)' = {slot \in Slots : Shared(InfoAt(slot)') /\ InfoAt(slot)'.refCount = id}
      BY ReferencesBecome
    <3> QED BY <3>1, <3>2
  <2>2. Cardinality(References(id)') <= Cardinality(References(id))
    BY <2>1, ReferencesFinite, FS_Subset
  <2>3. Cardinality(References(id)') \in Nat /\ Cardinality(References(id)) \in Nat
    BY ReferencesFinite
  <2>4. endPointsRefCount[id] >= Cardinality(References(id)) /\ endPointsRefCount[id] \in Nat
    BY CountIsNat DEF RefCountsCover
  <2> QED BY <2>2, <2>3, <2>4
<1> QED BY <1>1, <1>2 DEF RefCountsCover

\* One info lets go of its counter; at zero the endpoint may be deleted.
LEMMA Released ==
    ASSUME MapsOK, MapsOK', SharedOK, RefCountsCover, UNCHANGED api, NEW s \in Slots, NEW id,
           Shared(InfoAt(s)), InfoAt(s).refCount = id, ~Shared(InfoAt(s)'),
           \A slot \in Slots \ {s} : InfoAt(slot)' = InfoAt(slot),
           endPointsRefCount' = [endPointsRefCount EXCEPT ![id] = Decremented(endPointsRefCount[id])],
           Reliable =>
              /\ \A i \in RemoteIds \ {id} : hnsEndpoints'[i] = hnsEndpoints[i]
              /\ Decremented(endPointsRefCount[id]) # 0 => hnsEndpoints'[id] = hnsEndpoints[id]
    PROVE  SharedOK' /\ RefCountsCover'
<1> DEFINE count(i) == endPointsRefCount[i]
           refs(i) == References(i)
           refsNext(i) == References(i)'
<1>1. id \in RemoteIds /\ id \in EndpointIds
  BY DEF SharedOK, InfoShares, EndpointIds
<1>2. \A i \in EndpointIds : refsNext(i) = IF i = id THEN refs(i) \ {s} ELSE refs(i)
  <2> SUFFICES ASSUME NEW i \in EndpointIds
               PROVE  refsNext(i) = IF i = id THEN refs(i) \ {s} ELSE refs(i)
    OBVIOUS
  <2>1. refs(i) = {slot \in Slots : Shared(InfoAt(slot)) /\ InfoAt(slot).refCount = i}
    BY ReferencesAre
  <2>2. refsNext(i) = {slot \in Slots : Shared(InfoAt(slot)') /\ InfoAt(slot)'.refCount = i}
    BY ReferencesBecome
  <2> HIDE DEF refs, refsNext
  <2>3. CASE i = id
    BY <2>1, <2>2, <2>3
  <2>4. CASE i # id
    <3>1. s \notin refs(i)
      BY <2>1, <2>4
    <3> QED BY <2>1, <2>2, <2>4, <3>1
  <2> QED BY <2>3, <2>4
<1>3. s \in refs(id)
  BY <1>1, ReferencesAre
<1>4. /\ Cardinality(refs(id)) \in Nat \ {0}
      /\ Cardinality(refsNext(id)) = Cardinality(refs(id)) - 1
      /\ IsFiniteSet(refs(id))
  <2>1. IsFiniteSet(refs(id)) /\ Cardinality(refs(id)) \in Nat
    BY ReferencesFinite
  <2> HIDE DEF refs, refsNext
  <2>2. refsNext(id) = refs(id) \ {s}
    BY <1>1, <1>2
  <2> QED BY <1>3, <2>1, <2>2, FS_RemoveElement, FS_EmptySet
<1>5. count(id) \in Uint16 /\ count(id) \in Nat /\ count(id) >= Cardinality(refs(id))
  BY <1>1, CountIsNat DEF RefCountsCover
<1>6. Decremented(count(id)) = count(id) - 1
  <2> HIDE DEF refs
  <2>1. count(id) # 0
    BY <1>4, <1>5
  <2> QED BY <1>5, <2>1, DecrementedIs
<1>7. RefCountsCover'
  <2>1. ASSUME NEW i \in EndpointIds PROVE endPointsRefCount'[i] >= Cardinality(refsNext(i))
    <3>1. CASE i = id
      <4>1. endPointsRefCount'[i] = count(id) - 1
        BY <1>1, <1>6, <3>1 DEF MapsOK
      <4> HIDE DEF refs, refsNext, count
      <4> QED BY <1>4, <1>5, <3>1, <4>1
    <3>2. CASE i # id
      <4>1. endPointsRefCount'[i] = endPointsRefCount[i] /\ refsNext(i) = refs(i)
        BY <1>1, <1>2, <3>2 DEF MapsOK
      <4> QED BY <4>1 DEF RefCountsCover
    <3> QED BY <3>1, <3>2
  <2> QED BY <2>1 DEF RefCountsCover
<1>8. SharedOK'
  <2> SUFFICES ASSUME NEW slot \in Slots, Shared(InfoAt(slot)')
               PROVE  InfoShares(InfoAt(slot))'
    BY DEF SharedOK
  <2> DEFINE info == InfoAt(slot)
  <2>1. slot # s /\ InfoAt(slot)' = info /\ InfoShares(info) /\ Shared(info)
    BY DEF SharedOK
  <2>2. ASSUME Reliable PROVE hnsEndpoints'[info.refCount] # None
    <3>1. info.refCount \in RemoteIds /\ hnsEndpoints[info.refCount] # None
      BY <2>1, <2>2 DEF InfoShares
    <3>2. CASE info.refCount = id
      <4>1. slot \in refs(id) \ {s}
        BY <1>1, <2>1, <3>2, ReferencesAre
      <4>2. Cardinality(refs(id)) # 1
        <5> HIDE DEF refs
        <5> QED BY <1>3, <1>4, <4>1, FS_Singleton
      <4>3. Decremented(count(id)) # 0
        <5> HIDE DEF refs, count
        <5> QED BY <1>4, <1>5, <1>6, <4>2
      <4> QED BY <2>2, <3>1, <3>2, <4>3
    <3>3. CASE info.refCount # id
      BY <2>2, <3>1, <3>3
    <3> QED BY <3>2, <3>3
  <2> QED BY <2>1, <2>2 DEF InfoShares, Reliable
<1> QED BY <1>7, <1>8

\* One info comes to share the counter of a remote endpoint, and is counted.
LEMMA Gained ==
    ASSUME MapsOK, MapsOK', SharedOK, RefCountsCover, NoOverflow,
           UNCHANGED api, NEW s \in Slots, NEW id \in RemoteIds,
           InfoAt(s)' # None, InfoAt(s)'.hnsID = id, InfoAt(s)'.refCount = id,
           \A slot \in Slots \ {s} : InfoAt(slot)' = InfoAt(slot),
           Counted(id),
           \A i \in RemoteIds : hnsEndpoints[i] # None => hnsEndpoints'[i] # None,
           hnsEndpoints'[id] # None
    PROVE  SharedOK' /\ RefCountsCover'
<1> DEFINE count(i) == endPointsRefCount[i]
           refs(i) == References(i)
           refsNext(i) == References(i)'
<1>1. id \in EndpointIds
  BY DEF EndpointIds
<1>2. /\ refsNext(id) \subseteq refs(id) \cup {s}
      /\ \A i \in EndpointIds : i # id => refsNext(i) \subseteq refs(i)
  <2>1. \A i \in EndpointIds : refs(i) = {slot \in Slots : Shared(InfoAt(slot)) /\ InfoAt(slot).refCount = i}
    BY ReferencesAre
  <2>2. \A i \in EndpointIds : refsNext(i) = {slot \in Slots : Shared(InfoAt(slot)') /\ InfoAt(slot)'.refCount = i}
    BY ReferencesBecome
  <2> HIDE DEF refs, refsNext
  <2> QED BY <1>1, <2>1, <2>2
<1>3. \A i : /\ IsFiniteSet(refs(i)) /\ Cardinality(refs(i)) \in Nat
             /\ IsFiniteSet(refsNext(i)) /\ Cardinality(refsNext(i)) \in Nat
  BY ReferencesFinite
<1>4. Cardinality(refsNext(id)) <= Cardinality(refs(id)) + 1
  <2> HIDE DEF refs, refsNext
  <2>1. /\ IsFiniteSet(refs(id) \cup {s})
        /\ Cardinality(refs(id) \cup {s}) \in {Cardinality(refs(id)), Cardinality(refs(id)) + 1}
    BY <1>3, FS_AddElement
  <2>2. Cardinality(refsNext(id)) <= Cardinality(refs(id) \cup {s})
    BY <1>2, <2>1, FS_Subset
  <2> QED BY <1>3, <2>1, <2>2
<1>5. \A i \in EndpointIds : count(i) \in Nat /\ count(i) >= Cardinality(refs(i))
  BY CountIsNat DEF RefCountsCover
<1>6. Incremented(count(id)) = count(id) + 1
  <2>1. count(id) \in Uint16 /\ count(id) < 65535
    BY <1>1, CountIsNat DEF NoOverflow
  <2> HIDE DEF count
  <2> QED BY <2>1, IncrementedIs
<1>7. RefCountsCover'
  <2>1. ASSUME NEW i \in EndpointIds PROVE endPointsRefCount'[i] >= Cardinality(refsNext(i))
    <3>1. CASE i = id
      <4>1. endPointsRefCount'[i] = count(id) + 1
        BY <1>1, <1>6, <3>1 DEF MapsOK, Counted
      <4>2. count(id) \in Nat /\ count(id) >= Cardinality(refs(id))
        BY <1>1, <1>5
      <4> HIDE DEF refs, refsNext, count
      <4> QED BY <1>3, <1>4, <3>1, <4>1, <4>2
    <3>2. CASE i # id
      <4>1. endPointsRefCount'[i] = count(i)
        BY <1>1, <3>2 DEF MapsOK, Counted
      <4>2. count(i) \in Nat /\ count(i) >= Cardinality(refs(i))
        BY <1>5
      <4> HIDE DEF refs, refsNext, count
      <4>3. Cardinality(refsNext(i)) <= Cardinality(refs(i))
        BY <1>2, <1>3, <3>2, FS_Subset
      <4> QED BY <1>3, <4>1, <4>2, <4>3
    <3> QED BY <3>1, <3>2
  <2> QED BY <2>1 DEF RefCountsCover
<1>8. SharedOK'
  <2> SUFFICES ASSUME NEW slot \in Slots, Shared(InfoAt(slot)')
               PROVE  InfoShares(InfoAt(slot))'
    BY DEF SharedOK
  <2>1. CASE slot = s
    BY <2>1 DEF InfoShares
  <2>2. CASE slot # s
    <3>1. InfoAt(slot)' = InfoAt(slot) /\ InfoShares(InfoAt(slot))
      BY <2>2 DEF SharedOK
    <3> QED BY <3>1 DEF InfoShares, Reliable
  <2> QED BY <2>1, <2>2
<1> QED BY <1>7, <1>8

\* One info gets another endpoint and keeps its counter.
LEMMA Moved ==
    ASSUME MapsOK, MapsOK', SharedOK, RefCountsCover, UNCHANGED <<api, endPointsRefCount>>,
           NEW s \in Slots, InfoAt(s) # None, InfoAt(s)' # None,
           InfoAt(s)'.refCount = InfoAt(s).refCount,
           Shared(InfoAt(s)') => InfoShares(InfoAt(s))',
           \A slot \in Slots \ {s} : InfoAt(slot)' = InfoAt(slot),
           \A id \in RemoteIds : hnsEndpoints[id] # None => hnsEndpoints'[id] # None
    PROVE  SharedOK' /\ RefCountsCover'
<1>1. SharedOK'
  BY DEF SharedOK, InfoShares, Reliable
<1>2. ASSUME NEW id \in EndpointIds
      PROVE  References(id)' = References(id)
  <2>1. References(id) = {slot \in Slots : Shared(InfoAt(slot)) /\ InfoAt(slot).refCount = id}
    BY ReferencesAre
  <2>2. References(id)' = {slot \in Slots : Shared(InfoAt(slot)') /\ InfoAt(slot)'.refCount = id}
    BY ReferencesBecome
  <2>3. Shared(InfoAt(s)') <=> Shared(InfoAt(s))
    BY DEF Shared
  <2> QED BY <2>1, <2>2, <2>3
<1> QED BY <1>1, <1>2 DEF RefCountsCover

\* Slots, when one service or one endpoint of the maps changes.
LEMMA ServiceSlot ==
    ASSUME NEW svc \in ServicePortNames, UNCHANGED endpointsMap,
           \A other \in ServicePortNames \ {svc} : serviceMap'[other] = serviceMap[other]
    PROVE  /\ svc \in Slots
           /\ InfoAt(svc) = IF serviceMap[svc] = None THEN None ELSE serviceMap[svc].remoteEndpoint
           /\ InfoAt(svc)' = IF serviceMap'[svc] = None THEN None ELSE serviceMap'[svc].remoteEndpoint
           /\ \A slot \in Slots \ {svc} : InfoAt(slot)' = InfoAt(slot)
<1> QED BY DEF Slots, InfoAt, VipAt, EndpointAt

LEMMA EndpointSlot ==
    ASSUME MapsOK, NEW svc \in ServicePortNames, NEW ip \in DOMAIN endpointsMap[svc],
           UNCHANGED serviceMap,
           \A other \in ServicePortNames \ {svc} : endpointsMap'[other] = endpointsMap[other],
           \A other \in DOMAIN endpointsMap[svc] \ {ip} :
              endpointsMap'[svc][other] = endpointsMap[svc][other],
           \A s \in ServicePortNames : DOMAIN endpointsMap'[s] = DOMAIN endpointsMap[s]
    PROVE  /\ <<svc, ip>> \in Slots
           /\ InfoAt(<<svc, ip>>) = endpointsMap[svc][ip]
           /\ InfoAt(<<svc, ip>>)' = endpointsMap'[svc][ip]
           /\ \A slot \in Slots \ {<<svc, ip>>} : InfoAt(slot)' = InfoAt(slot)
<1>1. ip \in IPs
  BY DEF MapsOK, EndpointsOK
<1>2. <<svc, ip>> \in ServicePortNames \X IPs /\ <<svc, ip>> \notin ServicePortNames
  BY <1>1, RulesAssumption
<1>3. ASSUME NEW slot \in Slots \ {<<svc, ip>>} PROVE InfoAt(slot)' = InfoAt(slot)
  <2>1. CASE slot \in ServicePortNames
    BY <2>1 DEF InfoAt, VipAt
  <2>2. CASE slot \notin ServicePortNames
    <3>1. slot \in ServicePortNames \X IPs
      BY <2>2 DEF Slots
    <3>2. PICK other \in ServicePortNames, x \in IPs : slot = <<other, x>>
      BY <3>1
    <3>3. /\ InfoAt(slot) = IF x \in DOMAIN endpointsMap[other] THEN endpointsMap[other][x] ELSE None
          /\ InfoAt(slot)' = IF x \in DOMAIN endpointsMap'[other] THEN endpointsMap'[other][x] ELSE None
      BY <2>2, <3>2 DEF InfoAt, EndpointAt
    <3>4. other # svc \/ x # ip
      BY <3>2
    <3> QED BY <3>3, <3>4
  <2> QED BY <2>1, <2>2
<1> QED BY <1>2, <1>3 DEF Slots, InfoAt, EndpointAt

WithEndpoint(svc, ip, new) == [endpointsMap EXCEPT ![svc][ip] = new]

LEMMA SetEndpointSlot ==
    ASSUME MapsOK, NEW svc \in ServicePortNames, NEW ip \in DOMAIN endpointsMap[svc], NEW new,
           endpointsMap' = WithEndpoint(svc, ip, new), UNCHANGED serviceMap
    PROVE  /\ <<svc, ip>> \in Slots
           /\ InfoAt(<<svc, ip>>) = endpointsMap[svc][ip]
           /\ InfoAt(<<svc, ip>>)' = new
           /\ \A slot \in Slots \ {<<svc, ip>>} : InfoAt(slot)' = InfoAt(slot)
           /\ endpointsMap'[svc][ip] = new
           /\ \A other \in ServicePortNames \ {svc} : endpointsMap'[other] = endpointsMap[other]
           /\ \A other \in DOMAIN endpointsMap[svc] \ {ip} :
                 endpointsMap'[svc][other] = endpointsMap[svc][other]
           /\ DOMAIN endpointsMap'[svc] = DOMAIN endpointsMap[svc]
<1> DEFINE infos == [endpointsMap[svc] EXCEPT ![ip] = new]
<1>1. /\ endpointsMap = [s \in ServicePortNames |-> endpointsMap[s]]
      /\ endpointsMap[svc] = [i \in DOMAIN endpointsMap[svc] |-> endpointsMap[svc][i]]
  BY DEF MapsOK, EndpointsOK
<1>2. endpointsMap' = [endpointsMap EXCEPT ![svc] = infos]
  BY <1>1 DEF WithEndpoint
<1>3. /\ DOMAIN infos = DOMAIN endpointsMap[svc] /\ infos[ip] = new
      /\ \A other \in DOMAIN endpointsMap[svc] \ {ip} : infos[other] = endpointsMap[svc][other]
  BY <1>1
<1> HIDE DEF infos
<1>4. /\ endpointsMap'[svc] = infos
      /\ \A other \in ServicePortNames \ {svc} : endpointsMap'[other] = endpointsMap[other]
  BY <1>1, <1>2
<1> QED BY <1>3, <1>4, EndpointSlot

WithService(svc, new) == [serviceMap EXCEPT ![svc] = new]

LEMMA SetServiceSlot ==
    ASSUME MapsOK, NEW svc \in ServicePortNames, NEW new,
           serviceMap' = WithService(svc, new), UNCHANGED endpointsMap
    PROVE  /\ svc \in Slots
           /\ InfoAt(svc) = IF serviceMap[svc] = None THEN None ELSE serviceMap[svc].remoteEndpoint
           /\ InfoAt(svc)' = IF new = None THEN None ELSE new.remoteEndpoint
           /\ \A slot \in Slots \ {svc} : InfoAt(slot)' = InfoAt(slot)
           /\ serviceMap'[svc] = new
           /\ \A other \in ServicePortNames \ {svc} : serviceMap'[other] = serviceMap[other]
<1>1. /\ serviceMap'[svc] = new
      /\ \A other \in ServicePortNames \ {svc} : serviceMap'[other] = serviceMap[other]
  BY DEF MapsOK, WithService
<1> QED BY <1>1, ServiceSlot

\* Cleanup of the info in a slot, whatever HNS answers: no endpoint that
\* another info shares is deleted, and none of CNI if its look-ups do not fail.
LEMMA CleanupCounts ==
    ASSUME HnsOK, MapsOK, MapsOK', SharedOK, RefCountsCover, UNCHANGED api,
           NEW s \in Slots, NEW ips, InfoAt(s) \in endpointsInfos(ips), InfoAt(s) # None,
           NEW cleaned, Cleanup(InfoAt(s), cleaned), InfoAt(s)' = cleaned,
           \A slot \in Slots \ {s} : InfoAt(slot)' = InfoAt(slot)
    PROVE  /\ SharedOK' /\ RefCountsCover'
           /\ LocalKept
           /\ \A id \in RemoteIds : hnsEndpoints'[id] # None => hnsEndpoints'[id] = hnsEndpoints[id]
<1> DEFINE info == InfoAt(s)
           id == info.refCount
           count == Decremented(endPointsRefCount[id])
           gone(x) == EndpointInfo(info.ip, info.isLocal, x, None, info.ready)
<1>1. \/ /\ cleaned = info \/ cleaned = gone(info.hnsID)
         /\ UNCHANGED <<endPointsRefCount, hnsEndpoints>>
      \/ /\ id \in EndpointIds
         /\ endPointsRefCount' = [endPointsRefCount EXCEPT ![id] = count]
         /\ \/ cleaned = gone(info.hnsID) /\ UNCHANGED hnsEndpoints
            \/ /\ count = 0 /\ cleaned = gone(None)
               /\ hnsEndpoints' = [hnsEndpoints EXCEPT ![info.hnsID] = None]
  BY CleanupCases, Adapters, Zenon
<1>2. \A x : ~Shared(gone(x))
  BY NotNone DEF EndpointInfo, Shared
<1>3. CASE /\ cleaned = info \/ cleaned = gone(info.hnsID)
           /\ UNCHANGED <<endPointsRefCount, hnsEndpoints>>
  <2>1. \A slot \in Slots : InfoAt(slot)' = InfoAt(slot) \/ ~Shared(InfoAt(slot)')
    BY <1>2, <1>3
  <2> QED BY <1>3, <2>1, Kept DEF LocalKept
<1>4. CASE /\ id \in EndpointIds
           /\ endPointsRefCount' = [endPointsRefCount EXCEPT ![id] = count]
           /\ \/ cleaned = gone(info.hnsID) /\ UNCHANGED hnsEndpoints
              \/ /\ count = 0 /\ cleaned = gone(None)
                 /\ hnsEndpoints' = [hnsEndpoints EXCEPT ![info.hnsID] = None]
  <2>1. Shared(info) /\ ~Shared(InfoAt(s)')
    BY <1>2, <1>4 DEF Shared
  <2>2. id \in RemoteIds /\ InfoShares(info)
    BY <2>1 DEF SharedOK, InfoShares
  <2>3. \A i \in EndpointIds \ {info.hnsID} : hnsEndpoints'[i] = hnsEndpoints[i]
    BY <1>4 DEF HnsOK
  <2>4. count # 0 => UNCHANGED hnsEndpoints
    BY <1>4
  <2>5. \A i \in EndpointIds : hnsEndpoints'[i] # None => hnsEndpoints'[i] = hnsEndpoints[i]
    BY <1>4 DEF HnsOK
  <2>6. Reliable => \A i \in RemoteIds \ {id} : hnsEndpoints'[i] = hnsEndpoints[i]
    BY <2>2, <2>3, RulesAssumption DEF InfoShares, EndpointIds
  <2>7. SharedOK' /\ RefCountsCover'
    BY <1>4, <2>1, <2>4, <2>6, Released
  <2>8. LocalKept
    BY <2>2, <2>3, RulesAssumption DEF InfoShares, EndpointIds, LocalKept
  <2> QED BY <2>5, <2>7, <2>8 DEF EndpointIds
<1> QED BY <1>1, <1>3, <1>4

-----------------------------------------------------------------------------
LEMMA FewerRemote ==
    ASSUME RemoteOK,
           \A id \in RemoteIds : hnsEndpoints'[id] # None => hnsEndpoints'[id] = hnsEndpoints[id]
    PROVE  RemoteOK'
<1> QED BY DEF RemoteOK

\* Steps that change neither infos nor counters.
LEMMA SameInfos ==
    ASSUME MapsOK, MapsOK', SharedOK, RefCountsCover,
           UNCHANGED <<api, endpointsMap, endPointsRefCount>>,
           \A svc \in ServicePortNames :
              /\ serviceMap'[svc] = None <=> serviceMap[svc] = None
              /\ serviceMap[svc] # None =>
                    serviceMap'[svc].remoteEndpoint = serviceMap[svc].remoteEndpoint,
           \A id \in RemoteIds : hnsEndpoints[id] # None => hnsEndpoints'[id] # None
    PROVE  SharedOK' /\ RefCountsCover'
<1>1. \A slot \in Slots : InfoAt(slot)' = InfoAt(slot)
  BY DEF InfoAt, VipAt, EndpointAt
<1> QED BY <1>1, Kept

LEMMA CreatedExists ==
    ASSUME PhaseOK, HnsOK, RemoteOK, NEW ip \in Addresses, NEW id \in RemoteIds,
           createEndpoint(Remote(ip), id)
    PROVE  /\ hnsEndpoints'[id] # None
           /\ \A i \in RemoteIds : hnsEndpoints[i] # None => hnsEndpoints'[i] # None
           /\ LocalKept /\ RemoteOK'
<1> DEFINE new == [ips |-> <<ip>>, remote |-> TRUE, network |-> network]
<1>1. network \in Networks /\ hnsEndpoints' = [hnsEndpoints EXCEPT ![id] = new]
  BY Create, NotNone DEF PhaseOK, EndpointIds
<1>2. new # None
  <2> DEFINE lists == {<<x>> : x \in Addresses}
             objects == [ips : lists, remote : BOOLEAN, network : Networks]
  <2>1. <<ip>> \in lists
    OBVIOUS
  <2>2. None \notin objects
    BY NoneAssumption DEF Addresses
  <2> HIDE DEF lists
  <2>3. new \in objects
    BY <1>1, <2>1
  <2> QED BY <2>2, <2>3
<1>3. new.ips[1] = ip
  OBVIOUS
<1> HIDE DEF new
<1>4. hnsEndpoints'[id] = new /\ \A i \in EndpointIds \ {id} : hnsEndpoints'[i] = hnsEndpoints[i]
  BY <1>1 DEF HnsOK, EndpointIds
<1> QED BY <1>2, <1>3, <1>4, RulesAssumption DEF EndpointIds, LocalKept, RemoteOK

\* HNS knows the endpoint that an info shares.
LEMMA SharedKnown ==
    ASSUME SharedOK, RemoteOK, HnsOK, "get" \notin World, NEW slot \in Slots, Shared(InfoAt(slot))
    PROVE  /\ getEndpointByID(InfoAt(slot).hnsID) # None
           /\ InfoAt(slot).hnsID \in RemoteIds /\ hnsEndpoints[InfoAt(slot).hnsID] # None
<1> DEFINE id == InfoAt(slot).hnsID
<1>1. id \in RemoteIds /\ hnsEndpoints[id] # None /\ id # None
  BY NoneAssumption DEF SharedOK, InfoShares, Reliable
<1>2. id \in EndpointIds /\ hnsEndpoints[id].ips[1] \in Addresses /\ (~hnsEndpoints[id].remote) \in BOOLEAN
  BY <1>1 DEF RemoteOK, EndpointIds
<1>3. getEndpointByID(id) = [hnsID |-> id, ip |-> hnsEndpoints[id].ips[1],
                             isLocal |-> ~hnsEndpoints[id].remote]
  BY <1>1, Adapters
<1>4. [hnsID |-> id, ip |-> hnsEndpoints[id].ips[1], isLocal |-> ~hnsEndpoints[id].remote]
         \in [hnsID : RemoteIds \cup LocalIds, ip : Addresses, isLocal : BOOLEAN]
  <2> HIDE DEF id
  <2> QED BY <1>2 DEF EndpointIds
<1> QED BY <1>1, <1>3, <1>4, NoneAssumption DEF Addresses

\* An info that shares a counter and takes a local endpoint, or on V1 one that
\* it creates: its look-up by id has failed.
LEMMA Retaken ==
    ASSUME HnsOK, CInv, UNCHANGED api, NEW slot \in Slots, NEW ip, NEW ep,
           ep.isLocal, ep.hnsID \in EndpointIds,
           \/ UNCHANGED hnsEndpoints /\ ep.isLocal = (ep.hnsID \notin RemoteIds)
           \/ createEndpoint(Remote(ip), ep.hnsID) /\ ep.isLocal = (api = "V1"),
           LET id == InfoAt(slot).hnsID
           IN  "get" \notin World /\ getEndpointByID(id) # None => ep.hnsID = id,
           \A id \in RemoteIds : hnsEndpoints[id] # None => hnsEndpoints'[id] # None,
           InfoAt(slot) # None, InfoAt(slot)'.hnsID = ep.hnsID,
           InfoAt(slot)'.refCount = InfoAt(slot).refCount, Shared(InfoAt(slot)')
    PROVE  InfoShares(InfoAt(slot))'
<1> DEFINE info == InfoAt(slot)
<1>1. Shared(info) /\ InfoShares(info)
  BY DEF CInv, SharedOK, Shared
<1>2. CASE "get" \notin World
  <2>1. ep.hnsID = info.hnsID /\ info.hnsID \in RemoteIds /\ hnsEndpoints[info.hnsID] # None
    BY <1>1, <1>2, SharedKnown DEF CInv
  <2>2. ~createEndpoint(Remote(ip), ep.hnsID)
    BY <2>1, Create, NotNone
  <2> QED BY <2>1, <2>2
<1>3. CASE "get" \in World
  <2>1. api = "V2" => ep.hnsID \in LocalIds
    BY DEF EndpointIds
  <2> QED BY <1>1, <1>3, <2>1 DEF InfoShares, Reliable
<1> QED BY <1>2, <1>3

-----------------------------------------------------------------------------
\* What every step of the rules is shown to do.
LEMMA Together ==
    ASSUME SharedOK', RefCountsCover', RemoteOK', phase = "running", UNCHANGED phase
    PROVE  CInv'
<1>1. IdleOK'
  BY DEF IdleOK
<1> QED BY <1>1 DEF CInv

LEMMA OnlyTaskCounts ==
    ASSUME IInv, IInv', CInv, phase = "running", UNCHANGED <<api, phase>>,
           UNCHANGED <<serviceMap, endpointsMap, endPointsRefCount, hnsEndpoints>>
    PROVE  CInv' /\ LocalKept
<1>1. SharedOK' /\ RefCountsCover'
  BY SameInfos DEF IInv, CInv
<1>2. RemoteOK' /\ LocalKept
  BY DEF CInv, RemoteOK, LocalKept
<1> QED BY <1>1, <1>2, Together

LEMMA BeginCounts ==
    ASSUME IInv, IInv', CInv, phase = "running", UNCHANGED <<api, phase>>, NEW svc \in ServicePortNames,
           \/ \E base \in BaseInfos \cup {None} : serviceMapChange(svc, base)
           \/ \E ips \in SUBSET IPs : endpointsMapChange(svc, ips)
           \/ BeginSync(svc)
    PROVE  CInv' /\ LocalKept
<1>1. UNCHANGED <<serviceMap, endpointsMap, endPointsRefCount, hnsEndpoints>>
  BY DEF serviceMapChange, endpointsMapChange, BeginSync
<1> QED BY <1>1, OnlyTaskCounts

LEMMA DeletePoliciesCounts ==
    ASSUME IInv, IInv', CInv, phase = "running", UNCHANGED <<api, phase>>, deleteAllHnsLoadBalancerPolicy
    PROVE  CInv' /\ LocalKept
<1> DEFINE svc == task.svc
           info == serviceMap[svc]
           new == ServiceInfo(info.base, None, None, info.policyApplied, info.remoteEndpoint)
<1>1. /\ svc \in ServicePortNames /\ info # None /\ info \in ServiceInfos
      /\ serviceMap' = [serviceMap EXCEPT ![svc] = new]
      /\ UNCHANGED <<hnsEndpoints, endpointsMap, endPointsRefCount>>
  BY DeletePoliciesIs DEF IInv
<1>2. new # None /\ new.remoteEndpoint = info.remoteEndpoint
  <2>1. new \in ServiceInfos
    BY <1>1, NotNone DEF ServiceInfo, ServiceInfos
  <2>2. new.remoteEndpoint = info.remoteEndpoint
    BY DEF ServiceInfo
  <2> HIDE DEF new
  <2> QED BY <2>1, <2>2, NotNone
<1> HIDE DEF new
<1>3. /\ serviceMap'[svc] = new
      /\ \A other \in ServicePortNames \ {svc} : serviceMap'[other] = serviceMap[other]
  BY <1>1 DEF IInv, MapsOK
<1>4. SharedOK' /\ RefCountsCover'
  BY <1>1, <1>2, <1>3, SameInfos DEF IInv, CInv
<1>5. RemoteOK' /\ LocalKept
  BY <1>1 DEF CInv, RemoteOK, LocalKept
<1> QED BY <1>4, <1>5, Together

LEMMA CleanupEndpointCounts ==
    ASSUME IInv, IInv', CInv, phase = "running", UNCHANGED <<api, phase>>, NEW ip, CleanupEndpoint(ip)
    PROVE  CInv' /\ LocalKept
<1> USE DEF IInv
<1> PICK svc : svc = task.svc
  OBVIOUS
<1> DEFINE info == endpointsMap[svc][ip]
<1>1. PICK cleaned : /\ Cleanup(info, cleaned)
                     /\ endpointsMap' = WithEndpoint(svc, ip, cleaned)
  BY Zenon DEF CleanupEndpoint, WithEndpoint
<1>2. task # None /\ ip \in task.todo /\ UNCHANGED serviceMap
  BY DEF CleanupEndpoint, At
<1>3. /\ svc \in ServicePortNames /\ ip \in DOMAIN endpointsMap[svc] /\ ip \in IPs
      /\ info \in endpointsInfos({ip}) /\ info # None
  <2>1. /\ svc \in ServicePortNames /\ ip \in DOMAIN endpointsMap[svc] /\ ip \in IPs
        /\ info \in endpointsInfos({ip})
    BY <1>2, TaskFacts DEF TaskOK, EndpointsOK
  <2> QED BY <2>1, NotNone
<1>4. /\ <<svc, ip>> \in Slots /\ InfoAt(<<svc, ip>>) = info /\ InfoAt(<<svc, ip>>)' = cleaned
      /\ \A slot \in Slots \ {<<svc, ip>>} : InfoAt(slot)' = InfoAt(slot)
  BY <1>1, <1>2, <1>3, SetEndpointSlot
<1>5. /\ SharedOK' /\ RefCountsCover' /\ LocalKept
      /\ \A id \in RemoteIds : hnsEndpoints'[id] # None => hnsEndpoints'[id] = hnsEndpoints[id]
  BY <1>1, <1>3, <1>4, CleanupCounts DEF CInv
<1>6. RemoteOK'
  BY <1>5, FewerRemote DEF CInv
<1> QED BY <1>5, <1>6, Together

LEMMA CleanupRemoteCounts ==
    ASSUME IInv, IInv', CInv, phase = "running", UNCHANGED <<api, phase>>, CleanupRemoteEndpoint
    PROVE  CInv' /\ LocalKept
<1> USE DEF IInv
<1> PICK svc : svc = task.svc
  OBVIOUS
<1> DEFINE info == serviceMap[svc]
           new(remote) == ServiceInfo(info.base, None, None, FALSE, remote)
<1>1. /\ UNCHANGED endpointsMap /\ svc \in ServicePortNames
      /\ info # None => info \in ServiceInfos
  BY CleanupRemoteIs
<1>2. \/ /\ info = None
         /\ UNCHANGED <<serviceMap, endPointsRefCount, hnsEndpoints>>
      \/ /\ info # None /\ info.remoteEndpoint = None
         /\ serviceMap' = WithService(svc, new(None))
         /\ UNCHANGED <<endPointsRefCount, hnsEndpoints>>
      \/ /\ info # None /\ info.remoteEndpoint # None
         /\ \E cleaned : /\ Cleanup(info.remoteEndpoint, cleaned)
                         /\ serviceMap' = WithService(svc, new(cleaned))
  BY CleanupRemoteIs DEF WithService
<1>3. \A remote : new(remote).remoteEndpoint = remote
  BY DEF ServiceInfo
<1>4. \A remote \in VipInfos \cup {None} : info # None => new(remote) # None
  <2>1. ASSUME NEW remote \in VipInfos \cup {None}, info # None PROVE new(remote) \in ServiceInfos
    BY <1>1, <2>1 DEF ServiceInfo, ServiceInfos
  <2> HIDE DEF new
  <2> QED BY <2>1, NotNone
<1> HIDE DEF new
<1>5. CASE info = None /\ UNCHANGED <<serviceMap, endPointsRefCount, hnsEndpoints>>
  BY <1>1, <1>5, OnlyTaskCounts
<1>6. CASE /\ info # None /\ info.remoteEndpoint = None
           /\ serviceMap' = WithService(svc, new(None))
           /\ UNCHANGED <<endPointsRefCount, hnsEndpoints>>
  <2>1. /\ serviceMap'[svc] = new(None)
        /\ \A other \in ServicePortNames \ {svc} : serviceMap'[other] = serviceMap[other]
    BY <1>1, <1>6, SetServiceSlot
  <2>2. serviceMap'[svc] # None
    BY <1>4, <1>6, <2>1
  <2>3. SharedOK' /\ RefCountsCover'
    BY <1>1, <1>3, <1>6, <2>1, <2>2, SameInfos DEF CInv
  <2>4. RemoteOK' /\ LocalKept
    BY <1>6 DEF CInv, RemoteOK, LocalKept
  <2> QED BY <2>3, <2>4, Together
<1>7. ASSUME info # None, info.remoteEndpoint # None, NEW cleaned, Cleanup(info.remoteEndpoint, cleaned),
             serviceMap' = WithService(svc, new(cleaned))
      PROVE  CInv' /\ LocalKept
  <2>1. info.remoteEndpoint \in VipInfos /\ InfoOK(info.remoteEndpoint)
    BY <1>1, <1>7 DEF MapsOK, ServiceOK, ServiceInfos
  <2>2. cleaned \in VipInfos
    BY <1>7, <2>1, CleanupEffect DEF VipInfos, MapsOK
  <2>3. new(cleaned) # None
    BY <1>4, <1>7, <2>2
  <2>4. /\ svc \in Slots /\ InfoAt(svc) = info.remoteEndpoint /\ InfoAt(svc)' = cleaned
        /\ \A slot \in Slots \ {svc} : InfoAt(slot)' = InfoAt(slot)
    BY <1>1, <1>3, <1>7, <2>3, SetServiceSlot
  <2>5. /\ SharedOK' /\ RefCountsCover' /\ LocalKept
        /\ \A id \in RemoteIds : hnsEndpoints'[id] # None => hnsEndpoints'[id] = hnsEndpoints[id]
    BY <1>7, <2>1, <2>4, CleanupCounts DEF CInv, VipInfos
  <2>6. RemoteOK'
    BY <2>5, FewerRemote DEF CInv
  <2> QED BY <2>5, <2>6, Together
<1> QED BY <1>2, <1>5, <1>6, <1>7

LEMMA ApplyCounts ==
    ASSUME IInv, IInv', CInv, phase = "running", UNCHANGED <<api, phase>>, ApplyChange
    PROVE  CInv' /\ LocalKept
<1> USE DEF IInv
<1> PICK svc : svc = task.svc
  OBVIOUS
<1> DEFINE base == IF task.change = None THEN None ELSE newServiceInfo(task.change)
           infos(ready) == [ip \in task.change |-> newEndpointInfo(ip, ip \in ready)]
<1>1. UNCHANGED <<endPointsRefCount, hnsEndpoints>> /\ svc \in ServicePortNames
  BY TaskFacts DEF ApplyChange, At
<1>2. \/ serviceMap' = WithService(svc, base) /\ UNCHANGED endpointsMap
      \/ /\ \E ready : endpointsMap' = [endpointsMap EXCEPT ![svc] = infos(ready)]
         /\ UNCHANGED serviceMap
  BY DEF ApplyChange, WithService
<1>3. RemoteOK' /\ LocalKept
  BY <1>1 DEF CInv, RemoteOK, LocalKept
<1>4. CASE serviceMap' = WithService(svc, base) /\ UNCHANGED endpointsMap
  <2>1. base # None => base.remoteEndpoint = None
    BY DEF newServiceInfo
  <2> HIDE DEF base
  <2>2. /\ InfoAt(svc)' = None
        /\ \A slot \in Slots \ {svc} : InfoAt(slot)' = InfoAt(slot)
    BY <1>1, <1>4, <2>1, SetServiceSlot
  <2>3. \A slot \in Slots : InfoAt(slot)' = InfoAt(slot) \/ ~Shared(InfoAt(slot)')
    BY <2>2 DEF Shared
  <2>4. SharedOK' /\ RefCountsCover'
    BY <1>1, <2>3, Kept DEF CInv
  <2> QED BY <1>3, <2>4, Together
<1>5. ASSUME NEW ready, endpointsMap' = [endpointsMap EXCEPT ![svc] = infos(ready)],
             UNCHANGED serviceMap
      PROVE  CInv' /\ LocalKept
  <2>1. \A ip \in DOMAIN infos(ready) : ~Shared(infos(ready)[ip])
    BY NoneAssumption DEF Shared, newEndpointInfo, EndpointIds
  <2> HIDE DEF infos
  <2>2. /\ endpointsMap'[svc] = infos(ready)
        /\ \A other \in ServicePortNames \ {svc} : endpointsMap'[other] = endpointsMap[other]
    BY <1>1, <1>5 DEF MapsOK
  <2>3. ASSUME NEW slot \in Slots PROVE InfoAt(slot)' = InfoAt(slot) \/ ~Shared(InfoAt(slot)')
    <3>1. CASE slot \in ServicePortNames
      BY <1>5, <3>1 DEF InfoAt, VipAt
    <3>2. CASE slot \notin ServicePortNames
      <4>1. PICK other \in ServicePortNames, x \in IPs : slot = <<other, x>>
        BY <3>2 DEF Slots
      <4>2. /\ InfoAt(slot) = IF x \in DOMAIN endpointsMap[other] THEN endpointsMap[other][x] ELSE None
            /\ InfoAt(slot)' = IF x \in DOMAIN endpointsMap'[other] THEN endpointsMap'[other][x] ELSE None
        BY <3>2, <4>1 DEF InfoAt, EndpointAt
      <4> QED BY <2>1, <2>2, <4>2 DEF Shared
    <3> QED BY <3>1, <3>2
  <2>4. SharedOK' /\ RefCountsCover'
    BY <1>1, <2>3, Kept DEF CInv
  <2> QED BY <1>3, <2>4, Together
<1> QED BY <1>2, <1>4, <1>5

LEMMA VipCounts ==
    ASSUME IInv, IInv', CInv, NoOverflow, phase = "running", UNCHANGED <<api, phase>>, AcquireServiceVip
    PROVE  CInv' /\ LocalKept
<1> USE DEF IInv
<1> PICK svc : svc = task.svc
  OBVIOUS
<1> DEFINE info == serviceMap[svc]
           vip == info.base.clusterIP
           remote(id) == EndpointInfo(vip, api = "V1", id, id, FALSE)
           new(id) == ServiceInfo(info.base, info.hnsID, info.nodePorthnsID, info.policyApplied, remote(id))
<1>1. task # None /\ task.stage = "vip" /\ UNCHANGED endpointsMap
  BY AcquireServiceVipIs
<1>2. svc \in ServicePortNames /\ info # None /\ info \in ServiceInfos /\ info.base \in BaseInfos
  BY <1>1, SyncFacts DEF svcInfo
<1>3. CASE UNCHANGED <<serviceMap, endPointsRefCount, hnsEndpoints>>
  BY <1>1, <1>3, OnlyTaskCounts
<1>4. ASSUME NEW id \in RemoteIds, createEndpoint(Remote(vip), id), Counted(id),
             serviceMap' = WithService(svc, new(id))
      PROVE  CInv' /\ LocalKept
  <2> DEFINE r == remote(id)
             i == new(id)
  <2>1. r \in VipInfos /\ r.hnsID = id /\ r.refCount = id
    BY <1>2 DEF EndpointInfo, VipInfos, endpointsInfos, EndpointIds
  <2>2. r # None
    BY <2>1, NotNone
  <2> HIDE DEF remote
  <2>3. i \in ServiceInfos /\ i.remoteEndpoint = r
    BY <1>2, <2>1 DEF ServiceInfo, ServiceInfos
  <2>4. i # None
    BY <2>3, NotNone
  <2>5. serviceMap' = WithService(svc, i)
    BY <1>4
  <2> HIDE DEF new, r, i
  <2>6. /\ svc \in Slots /\ InfoAt(svc)' = r
        /\ \A slot \in Slots \ {svc} : InfoAt(slot)' = InfoAt(slot)
    BY <1>1, <1>2, <2>3, <2>4, <2>5, SetServiceSlot
  <2>7. vip \in Addresses
    BY <1>2 DEF Addresses
  <2>8. /\ hnsEndpoints'[id] # None /\ LocalKept /\ RemoteOK'
        /\ \A x \in RemoteIds : hnsEndpoints[x] # None => hnsEndpoints'[x] # None
    BY <1>4, <2>7, CreatedExists DEF CInv
  <2>9. SharedOK' /\ RefCountsCover'
    BY <1>4, <2>1, <2>2, <2>6, <2>8, Gained DEF CInv
  <2> QED BY <2>8, <2>9, Together
<1> QED
  <2>1. \/ UNCHANGED <<serviceMap, endPointsRefCount, hnsEndpoints>>
        \/ \E id \in RemoteIds : /\ createEndpoint(Remote(vip), id) /\ Counted(id)
                                 /\ serviceMap' = WithService(svc, new(id))
    BY AcquireServiceVipIs DEF WithService
  <2> QED BY <1>3, <1>4, <2>1, Zenon

LEMMA AcquireEndpointCounts ==
    ASSUME IInv, IInv', CInv, NoOverflow, phase = "running", UNCHANGED <<api, phase>>,
           NEW ip, AcquireEndpoint(ip)
    PROVE  CInv' /\ LocalKept
<1> USE DEF IInv
<1> PICK svc : svc = task.svc
  OBVIOUS
<1> DEFINE info == endpointsMap[svc][ip]
           slot == <<svc, ip>>
<1>1. At("acquire") /\ ip \in task.todo /\ UNCHANGED serviceMap
  BY AcquireEndpointIs
<1>2. /\ svc \in ServicePortNames /\ ip \in IPs
  BY <1>1, SyncFacts DEF At, TaskOK
<1>3. CASE Skip(ip) /\ UNCHANGED hnsEndpoints
  BY <1>1, <1>3, OnlyTaskCounts DEF Skip
<1>4. ASSUME NEW ep, Take(ip, ep), ep.hnsID \in EndpointIds, ep.isLocal \in BOOLEAN,
             \/ /\ UNCHANGED hnsEndpoints
                /\ hnsEndpoints[ep.hnsID] # None
                /\ ep.isLocal = (ep.hnsID \notin RemoteIds)
             \/ /\ ep.hnsID \in RemoteIds
                /\ createEndpoint(Remote(ip), ep.hnsID)
                /\ ep.isLocal = (api = "V1"),
             "get" \notin World /\ getEndpointByID(info.hnsID) # None => ep.hnsID = info.hnsID
      PROVE  CInv' /\ LocalKept
  <2> DEFINE c == IF ep.isLocal THEN info.refCount ELSE ep.hnsID
             new == EndpointInfo(ip, info.isLocal, ep.hnsID, c, info.ready)
  <2>1. /\ ip \in DOMAIN endpointsMap[svc] /\ info \in endpointsInfos({ip})
        /\ endpointsMap' = WithEndpoint(svc, ip, new)
        /\ IF ep.isLocal THEN UNCHANGED endPointsRefCount ELSE Counted(ep.hnsID)
    BY <1>1, <1>4, TakeIs DEF WithEndpoint
  <2>2. new \in endpointsInfos({ip}) /\ new.hnsID = ep.hnsID /\ new.refCount = c
    BY <1>4, <2>1 DEF EndpointInfo, endpointsInfos
  <2>3. new # None /\ info # None
    BY <1>2, <2>1, <2>2, NotNone
  <2> HIDE DEF new
  <2>4. /\ slot \in Slots /\ InfoAt(slot) = info /\ InfoAt(slot)' = new
        /\ \A s \in Slots \ {slot} : InfoAt(s)' = InfoAt(s)
    BY <1>1, <1>2, <2>1, SetEndpointSlot
  <2> HIDE DEF slot, info
  <2>5. /\ LocalKept /\ RemoteOK'
        /\ \A i \in RemoteIds : hnsEndpoints[i] # None => hnsEndpoints'[i] # None
        /\ hnsEndpoints'[ep.hnsID] # None
    <3>1. CASE UNCHANGED hnsEndpoints /\ hnsEndpoints[ep.hnsID] # None
      BY <3>1 DEF LocalKept, RemoteOK, CInv
    <3>2. CASE ep.hnsID \in RemoteIds /\ createEndpoint(Remote(ip), ep.hnsID)
      BY <1>2, <3>2, CreatedExists DEF CInv, Addresses
    <3> QED BY <1>4, <3>1, <3>2
  <2>6. CASE ~ep.isLocal
    <3>1. ep.hnsID \in RemoteIds /\ Counted(ep.hnsID) /\ new.refCount = ep.hnsID
      BY <1>4, <2>1, <2>2, <2>6
    <3>2. SharedOK' /\ RefCountsCover'
      BY <2>2, <2>3, <2>4, <2>5, <3>1, Gained DEF CInv
    <3> QED BY <2>5, <3>2, Together
  <2>7. CASE ep.isLocal
    <3>1. UNCHANGED endPointsRefCount /\ InfoAt(slot)'.refCount = InfoAt(slot).refCount
      BY <2>1, <2>2, <2>4, <2>7
    <3>2. Shared(InfoAt(slot)') => InfoShares(InfoAt(slot))'
      BY <1>4, <2>2, <2>3, <2>4, <2>5, <2>7, <3>1, Retaken
    <3>3. SharedOK' /\ RefCountsCover'
      BY <2>3, <2>4, <2>5, <3>1, <3>2, Moved DEF CInv
    <3> QED BY <2>5, <3>3, Together
  <2> QED BY <1>4, <2>6, <2>7
<1> QED BY <1>3, <1>4, AcquireEndpointIs

LEMMA AcquirePolicyCounts ==
    ASSUME IInv, IInv', CInv, phase = "running", UNCHANGED <<api, phase>>,
           NEW field \in {"hnsID", "nodePorthnsID"}, AcquirePolicy(field)
    PROVE  CInv' /\ LocalKept
<1> USE DEF IInv
<1> PICK svc : svc = task.svc
  OBVIOUS
<1> DEFINE info == serviceMap[svc]
<1>1. /\ task # None /\ task.stage \in {"acquire", "node port"}
      /\ UNCHANGED <<endpointsMap, endPointsRefCount, hnsEndpoints>>
  BY AcquirePolicyIs
<1>2. PICK id, nodePortId, applied :
         /\ id \in PolicyIds \cup {None} /\ nodePortId \in PolicyIds \cup {None} /\ applied \in BOOLEAN
         /\ serviceMap' = WithService(svc,
               ServiceInfo(info.base, id, nodePortId, applied, info.remoteEndpoint))
  <2>1. info \in ServiceInfos /\ info.hnsID \in PolicyIds \cup {None}
    BY <1>1, SyncFacts DEF svcInfo, ServiceInfos
  <2>2. PICK id \in PolicyIds : serviceMap' = [serviceMap EXCEPT ![svc] =
           IF field = "hnsID"
           THEN ServiceInfo(info.base, id, None, Done(field), info.remoteEndpoint)
           ELSE ServiceInfo(info.base, info.hnsID, id, TRUE, info.remoteEndpoint)]
    BY AcquirePolicyIs
  <2>3. Done(field) \in BOOLEAN
    BY DEF Done
  <2>4. CASE field = "hnsID"
    BY <2>2, <2>3, <2>4, Zenon DEF WithService
  <2>5. CASE field # "hnsID"
    BY <2>1, <2>2, <2>5, Zenon DEF WithService
  <2> QED BY <2>4, <2>5
<1> DEFINE new == ServiceInfo(info.base, id, nodePortId, applied, info.remoteEndpoint)
<1>3. svc \in ServicePortNames /\ info # None /\ info \in ServiceInfos
  BY <1>1, SyncFacts DEF svcInfo
<1>4. new \in ServiceInfos /\ new.remoteEndpoint = info.remoteEndpoint
  BY <1>2, <1>3 DEF ServiceInfo, ServiceInfos
<1>5. new # None
  BY <1>4, NotNone
<1>6. serviceMap' = WithService(svc, new)
  BY <1>2
<1> HIDE DEF new
<1>7. /\ serviceMap'[svc] = new
      /\ \A other \in ServicePortNames \ {svc} : serviceMap'[other] = serviceMap[other]
  BY <1>1, <1>3, <1>6, SetServiceSlot
<1>8. SharedOK' /\ RefCountsCover'
  BY <1>1, <1>3, <1>4, <1>5, <1>7, SameInfos DEF CInv
<1>9. RemoteOK' /\ LocalKept
  BY <1>1 DEF CInv, RemoteOK, LocalKept
<1> QED BY <1>8, <1>9, Together

-----------------------------------------------------------------------------
LEMMA RulesCount ==
    ASSUME IInv, IInv', CInv, NoOverflow, RulesStep
    PROVE  CInv' /\ LocalKept
<1>1. phase = "running" /\ UNCHANGED <<api, phase>>
  BY DEF RulesStep
<1>2. CASE CleanupStep
  BY <1>1, <1>2, DeletePoliciesCounts, CleanupRemoteCounts, CleanupEndpointCounts DEF CleanupStep
<1>3. CASE SyncStep
  <2>1. ASSUME NEW field, PolicyRefused(field) PROVE CInv' /\ LocalKept
    BY <1>1, <2>1, PolicyRefusedIs, OnlyTaskCounts
  <2>2. ASSUME NothingAcquired PROVE CInv' /\ LocalKept
    BY <1>1, <2>2, OnlyTaskCounts DEF NothingAcquired
  <2>3. ASSUME NEW field \in {"hnsID", "nodePorthnsID"}, AcquirePolicy(field) PROVE CInv' /\ LocalKept
    BY <1>1, <2>3, AcquirePolicyCounts
  <2>4. ASSUME NEW svc \in ServicePortNames, BeginSync(svc) PROVE CInv' /\ LocalKept
    BY <1>1, <2>4, BeginCounts
  <2> QED BY <1>1, <1>3, <2>1, <2>2, <2>3, <2>4, VipCounts, AcquireEndpointCounts DEF SyncStep
<1>4. CASE ChangeStep
  <2>1. ASSUME NEW base \in BaseInfos, serviceMapChange(base.name, base) PROVE CInv' /\ LocalKept
    <3>1. base.name \in ServicePortNames
      BY ObjectAssumption
    <3> QED BY <1>1, <2>1, <3>1, BeginCounts
  <2>2. ASSUME NEW svc \in ServicePortNames, serviceMapChange(svc, None) PROVE CInv' /\ LocalKept
    BY <1>1, <2>2, BeginCounts
  <2>3. ASSUME NEW e \in Endpoints, endpointsMapChange(e.name, e.ips) PROVE CInv' /\ LocalKept
    <3>1. e.name \in ServicePortNames /\ e.ips \in SUBSET IPs
      BY ObjectAssumption
    <3> QED BY <1>1, <2>3, <3>1, BeginCounts
  <2>4. ASSUME ApplyChange PROVE CInv' /\ LocalKept
    BY <1>1, <2>4, ApplyCounts
  <2> QED BY <1>4, <2>1, <2>2, <2>3, <2>4 DEF ChangeStep
<1> QED BY <1>2, <1>3, <1>4 DEF RulesStep

\* Steps of the start-up, of the sink and of CNI: no info changes.
LEMMA OthersCount ==
    ASSUME IInv, IInv', CInv, UNCHANGED <<api, ruleVars>>,
           \/ UNCHANGED hnsEndpoints /\ (phase = "running" => phase' = "running")
           \/ /\ UNCHANGED phase
              /\ phase # "running"
              /\ \A id \in RemoteIds : hnsEndpoints'[id] # None => hnsEndpoints'[id] = hnsEndpoints[id]
           \/ /\ UNCHANGED phase
              /\ \A id \in RemoteIds : hnsEndpoints'[id] = hnsEndpoints[id]
    PROVE  CInv'
<1> USE DEF IInv, ruleVars
<1>1. RemoteOK'
  BY DEF CInv, RemoteOK
<1>2. IdleOK'
  BY DEF CInv, IdleOK
<1>3. CASE \A id \in RemoteIds : hnsEndpoints'[id] = hnsEndpoints[id]
  <2>1. SharedOK' /\ RefCountsCover'
    BY <1>3, SameInfos DEF CInv
  <2> QED BY <1>1, <1>2, <2>1 DEF CInv
<1>4. CASE phase # "running" /\ UNCHANGED phase
  <2>1. \A slot \in Slots : InfoAt(slot) = None /\ InfoAt(slot)' = None
    <3> SUFFICES ASSUME NEW slot \in Slots PROVE InfoAt(slot) = None /\ InfoAt(slot)' = None
      OBVIOUS
    <3>1. \A svc \in ServicePortNames : serviceMap[svc] = None /\ DOMAIN endpointsMap[svc] = {}
      BY <1>4 DEF CInv, IdleOK
    <3>2. CASE slot \in ServicePortNames
      BY <3>1, <3>2 DEF InfoAt, VipAt
    <3>3. CASE slot \notin ServicePortNames
      <4>1. slot[1] \in ServicePortNames
        BY <3>3 DEF Slots
      <4> QED BY <3>1, <3>3, <4>1 DEF InfoAt, EndpointAt
    <3> QED BY <3>2, <3>3
  <2>2. SharedOK'
    BY <2>1 DEF SharedOK, Shared
  <2>3. \A id : References(id)' = References(id)
    BY DEF References
  <2>4. RefCountsCover'
    BY <2>3 DEF CInv, RefCountsCover
  <2> QED BY <1>1, <1>2, <2>2, <2>4 DEF CInv
<1> QED BY <1>3, <1>4

LEMMA KillCounts ==
    ASSUME IInv, IInv', CInv, Kill
    PROVE  CInv'
<1> USE DEF IInv
<1>1. /\ \A svc \in ServicePortNames : serviceMap'[svc] = None /\ DOMAIN endpointsMap'[svc] = {}
      /\ \A id \in EndpointIds : endPointsRefCount'[id] = 0
      /\ task' = None /\ UNCHANGED hnsEndpoints
  BY DEF Kill, hnsVars
<1>2. \A slot \in Slots : InfoAt(slot)' = None
  <2> SUFFICES ASSUME NEW slot \in Slots PROVE InfoAt(slot)' = None
    OBVIOUS
  <2>1. CASE slot \in ServicePortNames
    BY <1>1, <2>1 DEF InfoAt, VipAt
  <2>2. CASE slot \notin ServicePortNames
    <3>1. slot[1] \in ServicePortNames
      BY <2>2 DEF Slots
    <3> QED BY <1>1, <2>2, <3>1 DEF InfoAt, EndpointAt
  <2> QED BY <2>1, <2>2
<1>3. SharedOK'
  BY <1>2 DEF SharedOK, Shared
<1>4. RefCountsCover'
  <2>1. \A id \in EndpointIds : References(id)' = {}
    BY <1>2, ReferencesBecome DEF Shared
  <2> QED BY <1>1, <2>1, FS_EmptySet DEF RefCountsCover
<1>5. IdleOK' /\ RemoteOK'
  BY <1>1 DEF CInv, IdleOK, RemoteOK
<1> QED BY <1>3, <1>4, <1>5 DEF CInv

LEMMA CountsInitially == Init => CInv
<1> SUFFICES ASSUME Init PROVE CInv
  OBVIOUS
<1>1. /\ \A svc \in ServicePortNames : serviceMap[svc] = None /\ DOMAIN endpointsMap[svc] = {}
      /\ \A id \in EndpointIds : endPointsRefCount[id] = 0 /\ hnsEndpoints[id] = None
  BY DEF Init, RulesInit
<1>2. MapsOK
  BY Initially DEF IInv
<1>3. \A slot \in Slots : InfoAt(slot) = None
  <2> SUFFICES ASSUME NEW slot \in Slots PROVE InfoAt(slot) = None
    OBVIOUS
  <2>1. CASE slot \in ServicePortNames
    BY <1>1, <2>1 DEF InfoAt, VipAt
  <2>2. CASE slot \notin ServicePortNames
    <3>1. slot[1] \in ServicePortNames
      BY <2>2 DEF Slots
    <3> QED BY <1>1, <2>2, <3>1 DEF InfoAt, EndpointAt
  <2> QED BY <2>1, <2>2
<1>4. SharedOK
  BY <1>3 DEF SharedOK, Shared
<1>5. RefCountsCover
  <2>1. \A id \in EndpointIds : References(id) = {}
    BY <1>2, <1>3, ReferencesAre DEF Shared
  <2> QED BY <1>1, <2>1, FS_EmptySet DEF RefCountsCover
<1>6. IdleOK /\ RemoteOK
  BY <1>1 DEF IdleOK, RemoteOK, EndpointIds
<1> QED BY <1>4, <1>5, <1>6 DEF CInv

LEMMA CountsPreserved ==
    ASSUME IInv, IInv', CInv, NoOverflow, [Next]_vars
    PROVE  CInv'
<1>1. CASE RulesStep
  BY <1>1, RulesCount
<1>2. CASE Kill
  BY <1>2, KillCounts
<1>3. CASE Start \/ StartStep
  <2>1. UNCHANGED <<api, ruleVars>> /\ UNCHANGED hnsEndpoints /\ phase # "running"
    BY <1>3 DEF Start, StartStep, DeletePolicyList, getNetworkInfo, NewProxier, NewProxierFails, hnsVars
  <2> QED BY <2>1, OthersCount
<1>4. CASE SinkStep
  <2>1. UNCHANGED <<api, ruleVars>> /\ UNCHANGED hnsEndpoints /\ UNCHANGED phase
    BY <1>4 DEF SinkStep, SetService, DeleteService, hnsVars
  <2> QED BY <2>1, OthersCount
<1>5. CASE CniStep
  <2>1. UNCHANGED <<api, ruleVars>> /\ UNCHANGED phase
    BY <1>5 DEF CniStep, NetworkChanges, CniCreates, CniDeletes
  <2>2. ASSUME NEW n \in Networks \cup {None}, NetworkChanges(n) PROVE CInv'
    <3>1. /\ phase # "running"
          /\ \A id \in RemoteIds : hnsEndpoints'[id] # None => hnsEndpoints'[id] = hnsEndpoints[id]
      BY <2>2 DEF NetworkChanges, EndpointIds
    <3> QED BY <2>1, <3>1, OthersCount
  <2>3. ASSUME NEW id \in LocalIds, NEW new, hnsEndpoints' = [hnsEndpoints EXCEPT ![id] = new]
        PROVE  CInv'
    <3>1. \A i \in RemoteIds : hnsEndpoints'[i] = hnsEndpoints[i]
      BY <2>3, RulesAssumption DEF IInv, HnsOK, EndpointIds
    <3> QED BY <2>1, <3>1, OthersCount
  <2> QED BY <1>5, <2>2, <2>3, Zenon DEF CniStep, CniCreates, CniDeletes
<1>6. CASE UNCHANGED vars
  <2>1. UNCHANGED <<api, ruleVars>> /\ UNCHANGED hnsEndpoints /\ UNCHANGED phase
    BY <1>6 DEF vars, ruleVars
  <2> QED BY <2>1, OthersCount
<1> QED BY <1>1, <1>2, <1>3, <1>4, <1>5, <1>6 DEF Next

\* What the infos, the counters and HNS have to do with each other, in every
\* state of a behaviour whose counters do not overflow.
THEOREM CountsInvariance == Spec /\ []NoOverflow => []CInv
<1>1. IInv /\ IInv' /\ CInv /\ NoOverflow /\ [Next]_vars => CInv'
  BY CountsPreserved
<1> QED BY <1>1, CountsInitially, Invariance, PTL DEF Spec

\* A counter never falls below the number of infos that refer to it, however
\* clean-ups, synchronizations that fail, deletes that HNS refuses and restarts
\* follow each other (winkernel/endpoints.go:128).
THEOREM CountersCover == Spec /\ []NoOverflow => []RefCountsCover
<1>1. CInv => RefCountsCover
  BY DEF CInv
<1> QED BY <1>1, CountsInvariance, PTL

\* No clean-up removes a remote endpoint from HNS that an info still counts
\* (winkernel/endpoints.go:133), whichever endpoints are ready, whatever HNS
\* refuses to create, list or delete, and on the V2 API also if it does not find
\* an endpoint by its id.
THEOREM NoEndpointPulled == Spec /\ []NoOverflow => []EndpointsInUse
<1>1. IInv /\ CInv => EndpointsInUse
  <2> SUFFICES ASSUME IInv, CInv, Reliable, NEW id \in EndpointIds, References(id) # {}
               PROVE  id \in RemoteIds /\ hnsEndpoints[id] # None
    BY DEF EndpointsInUse, Reliable
  <2>1. PICK slot \in Slots : Shared(InfoAt(slot)) /\ InfoAt(slot).refCount = id
    BY ReferencesAre DEF IInv
  <2> QED BY <2>1 DEF CInv, SharedOK, InfoShares
<1> QED BY <1>1, CountsInvariance, Invariance, PTL

\* "Never delete a Local Endpoint": no step of a handler changes an endpoint
\* that CNI made (winkernel/endpoints.go:128), unless HNS fails to find an
\* endpoint by its id although it has it.
THEOREM LocalNeverDeleted ==
    "get" \notin World => (Spec /\ []NoOverflow => LocalUntouched)
<1> SUFFICES ASSUME "get" \notin World PROVE Spec /\ []NoOverflow => LocalUntouched
  OBVIOUS
<1>1. ASSUME IInv, IInv', CInv, NoOverflow, [Next]_vars
      PROVE  [task' # task => \A id \in LocalIds : hnsEndpoints'[id] = hnsEndpoints[id]]_vars
  <2>1. CASE RulesStep
    BY <1>1, <2>1, RulesCount DEF LocalKept
  <2>2. CASE Kill
    BY <2>2 DEF Kill, hnsVars
  <2>3. CASE Start \/ StartStep \/ SinkStep \/ CniStep
    <3>1. UNCHANGED task
      BY <2>3 DEF Start, StartStep, DeletePolicyList, getNetworkInfo, NewProxier, NewProxierFails,
                  SinkStep, SetService, DeleteService, CniStep, NetworkChanges, CniCreates, CniDeletes,
                  ruleVars
    <3> QED BY <3>1
  <2>4. CASE UNCHANGED vars
    BY <2>4
  <2> QED BY <1>1, <2>1, <2>2, <2>3, <2>4 DEF Next
<1>2. IInv /\ IInv' /\ CInv /\ NoOverflow /\ [Next]_vars
         => [task' # task => \A id \in LocalIds : hnsEndpoints'[id] = hnsEndpoints[id]]_vars
  BY <1>1
<1> QED BY <1>2, CountsInvariance, Invariance, PTL DEF Spec, LocalUntouched
=============================================================================
