--------------------------- MODULE WinkernelProofs ---------------------------
(***************************************************************************)
(* Proofs about WinkernelProxier for any services, endpoints and ids: the  *)
(* load balancers in HNS, whatever calls of HNS fail.                      *)
(***************************************************************************)
EXTENDS WinkernelProxier, FiniteSetTheorems, WellFoundedInduction, TLAPS

Exists(id) == policies[id] # None

VipInfos == endpointsInfos({base.clusterIP : base \in BaseInfos})

ServiceInfos ==
    [base : BaseInfos, hnsID : PolicyIds \cup {None}, nodePorthnsID : PolicyIds \cup {None},
     policyApplied : BOOLEAN, remoteEndpoint : VipInfos \cup {None}]

EndpointInfo(ip, isLocal, id, c, ready) ==
    [ip |-> ip, isLocal |-> isLocal, hnsID |-> id, refCount |-> c, ready |-> ready]

\* What a refCount may be.
Counters == EndpointIds \cup {Own, None}

ServiceInfo(base, id, nodePortId, applied, remote) ==
    [base |-> base, hnsID |-> id, nodePorthnsID |-> nodePortId, policyApplied |-> applied,
     remoteEndpoint |-> remote]

\* What HNS has, and who made it.
HnsOK ==
    /\ hnsEndpoints = [id \in EndpointIds |-> hnsEndpoints[id]]
    /\ \A id \in EndpointIds : hnsEndpoints[id] # None =>
          /\ hnsEndpoints[id].network \in Networks
          /\ hnsEndpoints[id].remote = (id \in RemoteIds)

InfoOK(info) == info.refCount \in EndpointIds => info.hnsID # None

ServiceOK(info) ==
    \/ info = None
    \/ /\ info \in ServiceInfos
       /\ info.remoteEndpoint # None =>
             info.remoteEndpoint.ip = info.base.clusterIP /\ InfoOK(info.remoteEndpoint)
       /\ ~info.policyApplied => /\ info.nodePorthnsID = None
                                 /\ info.hnsID # None => info.base.nodePort # 0

EndpointsOK(infos) ==
    /\ infos = [ip \in DOMAIN infos |-> infos[ip]]
    /\ DOMAIN infos \subseteq IPs
    /\ \A ip \in DOMAIN infos : infos[ip] \in endpointsInfos({ip}) /\ InfoOK(infos[ip])

MapsOK ==
    /\ serviceMap = [svc \in ServicePortNames |-> serviceMap[svc]]
    /\ \A svc \in ServicePortNames : ServiceOK(serviceMap[svc])
    /\ endpointsMap = [svc \in ServicePortNames |-> endpointsMap[svc]]
    /\ \A svc \in ServicePortNames : EndpointsOK(endpointsMap[svc])
    /\ endPointsRefCount \in [EndpointIds -> Uint16]

Tasks(changes) ==
    [op : {"service", "endpoints", "sync"}, svc : ServicePortNames,
     change : changes, passes : Nat,
     stage : {"policies", "endpoints", "apply", "vip", "acquire", "node port"},
     todo : SUBSET IPs, endpoints : SUBSET [ip : IPs, hnsID : EndpointIds]]

TaskOf(op, svc, change, passes, stage, todo, endpoints) ==
    [op |-> op, svc |-> svc, change |-> change, passes |-> passes, stage |-> stage, todo |-> todo,
     endpoints |-> endpoints]

\* The handler in progress.  A clean-up has forgotten the ids of the service
\* after its first stage; a synchronization has endpoints of addresses it has
\* handled.
TaskOK ==
    task # None =>
    /\ task \in Tasks(IF task.op = "endpoints" THEN SUBSET IPs ELSE BaseInfos \cup {None})
    /\ task.op = "sync" <=> task.stage \in {"vip", "acquire", "node port"}
    /\ task.todo \subseteq DOMAIN endpointsMap[task.svc]
    /\ task.stage = "policies" => svcInfo # None
    /\ task.stage \in {"endpoints", "apply"} /\ svcInfo # None =>
          svcInfo.hnsID = None /\ svcInfo.nodePorthnsID = None
    /\ task.op = "sync" =>
          /\ svcInfo # None /\ ~svcInfo.policyApplied
          /\ \A e \in task.endpoints : e.ip \in DOMAIN endpointsMap[task.svc] \ task.todo
          /\ task.stage = "node port" => task.todo = {}

\* The load balancer of a service's cluster IP, if HNS has it, has its frontend.
PoliciesOK ==
    /\ policies = [id \in PolicyIds |-> policies[id]]
    /\ \A id \in PolicyIds : Exists(id) =>
          policies[id].endpoints \subseteq [ip : IPs, hnsID : EndpointIds]
    /\ \A svc \in ServicePortNames :
          /\ serviceMap[svc] # None /\ serviceMap[svc].hnsID # None
          /\ Exists(serviceMap[svc].hnsID)
          => policies[serviceMap[svc].hnsID].frontend = Frontend(serviceMap[svc].base, "hnsID")

\* Load balancers that are not deleted yet during start-up, then none but the
\* services' and those that a failed synchronization left.
LeftOK ==
    \A id \in PolicyIds : Exists(id) /\ id \notin undeleted =>
        /\ phase = "policies" => id \in plists
        /\ phase # "overlay"
        /\ phase = "running" => \/ policies[id].frontend \in Retried
                               \/ \E svc \in ServicePortNames : id \in Owned(svc)

PhaseOK ==
    /\ api \in {"V1", "V2"}
    /\ network \in Networks \cup {None}
    /\ phase \in {"down", "exited", "policies", "overlay", "running"}
    /\ phase = "running" => network # None
    /\ plists \subseteq PolicyIds
    /\ undeleted \subseteq PolicyIds \cup EndpointIds

SinkOK == PersistentServices \in [Names -> Services \cup {None}]

IInv == PhaseOK /\ HnsOK /\ MapsOK /\ TaskOK /\ PoliciesOK /\ LeftOK /\ SinkOK

-----------------------------------------------------------------------------
\* Both adapters do the same to HNS.
LEMMA Adapters ==
    /\ getNetworkByName = network
    /\ \A id : getEndpointByID(id) =
          IF id = None \/ hnsEndpoints[id] = None THEN None
          ELSE [hnsID |-> id, ip |-> hnsEndpoints[id].ips[1], isLocal |-> ~hnsEndpoints[id].remote]
    /\ \A id : deleteEndpoint(id) <=>
          /\ getEndpointByID(id) # None
          /\ hnsEndpoints' = [hnsEndpoints EXCEPT ![id] = None]
    /\ \A ids : deleteLoadBalancers(ids) <=>
          policies' = [id \in PolicyIds |-> IF id \in ids THEN None ELSE policies[id]]
<1> QED
  BY DEF getNetworkByName, V1!getNetworkByName, V2!getNetworkByName,
         getEndpointByID, V1!getEndpointByID, V2!getEndpointByID,
         V1!endpointsInfo, V2!endpointsInfo,
         deleteEndpoint, V1!deleteEndpoint, V2!deleteEndpoint,
         deleteLoadBalancers, V1!deleteLoadBalancers, V2!deleteLoadBalancers

\* What a look-up by address returns, if anything.
LEMMA Found ==
    ASSUME NEW ip, NEW ep \in getEndpointByIpAddress(ip)
    PROVE  \E id \in EndpointIds :
              /\ hnsEndpoints[id] # None
              /\ ep = [hnsID |-> id, ip |-> ip, isLocal |-> ~hnsEndpoints[id].remote]
<1> QED
  BY DEF getEndpointByIpAddress, V1!getEndpointByIpAddress, V2!getEndpointByIpAddress,
         V1!endpointsInfo, V2!endpointsInfo

LEMMA Create ==
    ASSUME NEW ip, NEW id, id # None, createEndpoint(Remote(ip), id)
    PROVE  /\ network # None /\ hnsEndpoints[id] = None
           /\ hnsEndpoints' = [hnsEndpoints EXCEPT ![id] =
                 [ips |-> <<ip>>, remote |-> TRUE, network |-> network]]
           /\ CreatedEndpoint(Remote(ip), id) = [hnsID |-> id, ip |-> ip, isLocal |-> api = "V1"]
<1> QED
  BY DEF createEndpoint, V1!createEndpoint, V2!createEndpoint, CreatedEndpoint,
         V1!CreatedEndpoint, V2!CreatedEndpoint, V1!endpointsInfo, V2!endpointsInfo, Remote

LEMMA SameCardinality ==
    \A S : V1!Cardinality(S) = Cardinality(S) /\ V2!Cardinality(S) = Cardinality(S)
<1> QED BY DEF V1!Cardinality, V2!Cardinality, Cardinality

LEMMA GetLoadBalancer ==
    ASSUME NEW endpoints, NEW frontend, NEW id, id # None,
           getLoadBalancer(endpoints, frontend, id)
    PROVE  \/ /\ id \in PolicyIds /\ policies[id] # None
              /\ policies[id].frontend = frontend
              /\ Cardinality(policies[id].endpoints) = Cardinality(endpoints)
              /\ UNCHANGED policies
           \/ /\ \A other \in PolicyIds : policies[other] # None =>
                    \/ policies[other].frontend # frontend
                    \/ Cardinality(policies[other].endpoints) # Cardinality(endpoints)
              /\ policies[id] = None
              /\ policies' = [policies EXCEPT ![id] = [frontend |-> frontend, endpoints |-> endpoints]]
              /\ \A e \in endpoints : getEndpointByID(e.hnsID) # None
<1>1. CASE api = "V1"
  BY <1>1, SameCardinality
  DEF getLoadBalancer, V1!getLoadBalancer, V1!ExistingLoadBalancers, getEndpointByID
<1>2. CASE api # "V1"
  BY <1>2, SameCardinality
  DEF getLoadBalancer, V2!getLoadBalancer, V2!ExistingLoadBalancers, getEndpointByID
<1> QED BY <1>1, <1>2

\* Numbered ids have a least one.
LEMMA LeastIn ==
    ASSUME NEW S, S # {}, \A id \in S : id.n \in Nat
    PROVE  Least(S) \in S
<1> DEFINE N == {id.n : id \in S}
<1>1. N \subseteq Nat /\ N # {}
  OBVIOUS
<1>2. \A x, y \in Nat : y < x => <<y, x>> \in OpToRel(<, Nat)
  BY DEF OpToRel
<1>3. \E x \in N : \A y \in N : ~(<<y, x>> \in OpToRel(<, Nat))
  BY <1>1, NatLessThanWellFounded, WFMin
<1>4. PICK x \in N : \A y \in N : x <= y
  <2> HIDE DEF N
  <2>1. PICK x \in N : \A y \in N : ~(<<y, x>> \in OpToRel(<, Nat))
    BY <1>3
  <2>2. \A y \in N : ~(y < x)
    BY <1>1, <1>2, <2>1
  <2>3. x \in Nat /\ \A y \in N : y \in Nat
    BY <1>1
  <2>4. \A y \in N : x <= y
    BY <2>2, <2>3
  <2> QED BY <2>4
<1>5. PICK id \in S : id.n = x
  OBVIOUS
<1>6. \A other \in S : id.n <= other.n
  BY <1>4, <1>5
<1> QED BY <1>6 DEF Least

\* The id of a new endpoint and of a new load balancer.
LEMMA UnusedId ==
    ASSUME NEW ip, Unused(ip) # {}
    PROVE  Least(Unused(ip)) \in RemoteIds
<1>1. \A id \in Unused(ip) : id \in RemoteIds /\ id.n \in Nat
  BY RulesAssumption DEF Unused
<1> QED BY <1>1, LeastIn

LEMMA UnusedPolicyId ==
    ASSUME NEW frontend, UnusedPolicies(frontend) # {}
    PROVE  Least(UnusedPolicies(frontend)) \in UnusedPolicies(frontend)
<1>1. \A id \in UnusedPolicies(frontend) : id.n \in Nat
  BY RulesAssumption DEF UnusedPolicies
<1> QED BY <1>1, LeastIn

\* Of the load balancers HNS refused to delete, and has, none is forgotten.
LEMMA RefusesKeeps ==
    ASSUME PhaseOK, NEW ids, ids \subseteq PolicyIds \cup EndpointIds, Refuses(ids)
    PROVE  /\ undeleted' \subseteq PolicyIds \cup EndpointIds
           /\ \A id \in PolicyIds : policies'[id] # None /\ id \in undeleted \cup ids
                                    => id \in undeleted'
<1>1. PolicyIds \cap EndpointIds = {}
  BY RulesAssumption DEF EndpointIds
<1> QED BY <1>1 DEF Refuses, PhaseOK

-----------------------------------------------------------------------------
(***************************************************************************)
(* uint16 arithmetic, and the updates of records, field by field.          *)
(***************************************************************************)
LEMMA Uint16Is ==
    ASSUME NEW n
    PROVE  n \in Uint16 <=> n \in Nat /\ n <= 65535
<1>1. MaxUint16 \in Nat
  BY DEF MaxUint16
<1>2. n \in Uint16 <=> n \in Nat /\ n <= MaxUint16
  BY <1>1 DEF Uint16
<1> QED BY <1>2 DEF MaxUint16

LEMMA Wraps ==
    ASSUME NEW m \in Int
    PROVE  m % 65536 \in Uint16
<1>1. m % 65536 \in Nat /\ m % 65536 <= 65535
  OBVIOUS
<1> QED BY <1>1, Uint16Is

LEMMA WrapsNot ==
    ASSUME NEW m \in Int, 0 <= m, m < 65536
    PROVE  m % 65536 = m
<1> QED OBVIOUS

LEMMA WrapsBelow ==
    ASSUME NEW m \in Int,  m < 0, m + 65536 >= 0
    PROVE  m % 65536 = m + 65536
<1> QED OBVIOUS

LEMMA DecrementedIs ==
    ASSUME NEW n \in Uint16
    PROVE  /\ Decremented(n) \in Uint16
           /\ n = 0 => Decremented(n) = 65535
           /\ n # 0 => Decremented(n) = n - 1
<1> DEFINE m == n - 1
           r == m % 65536
<1>1. n \in Int /\ 0 <= n /\ n <= 65535
  BY Uint16Is
<1>2. m \in Int
  BY <1>1
<1>3. n = 0 => m < 0 /\ m + 65536 >= 0 /\ m + 65536 = 65535
  BY <1>1
<1>4. n # 0 => 0 <= m /\ m < 65536
  BY <1>1
<1>5. Decremented(n) = r
  BY DEF Decremented
<1> HIDE DEF m
<1>6. r \in Uint16
  BY <1>2, Wraps
<1>7. n = 0 => r = m + 65536
  BY <1>2, <1>3, WrapsBelow
<1>8. n # 0 => r = m
  BY <1>2, <1>4, WrapsNot
<1> HIDE DEF r
<1>9. n = 0 => r = 65535
  BY <1>3, <1>7
<1> QED BY <1>5, <1>6, <1>8, <1>9 DEF m

LEMMA IncrementedIs ==
    ASSUME NEW n \in Uint16
    PROVE  /\ Incremented(n) \in Uint16
           /\ n < 65535 => Incremented(n) = n + 1
<1> DEFINE m == n + 1
           r == m % 65536
<1>1. m \in Int /\ 0 <= m /\ (n < 65535 => m < 65536)
  BY Uint16Is
<1>2. Incremented(n) = r
  BY DEF Incremented
<1> HIDE DEF m
<1>3. r \in Uint16
  BY <1>1, Wraps
<1>4. n < 65535 => r = m
  BY <1>1, WrapsNot
<1> HIDE DEF r
<1> QED BY <1>2, <1>3, <1>4 DEF m

LEMMA EndpointFields ==
    ASSUME NEW ips, NEW info \in endpointsInfos(ips), NEW x
    PROVE  LET i(id, c) == EndpointInfo(info.ip, info.isLocal, id, c, info.ready) IN
           /\ info = i(info.hnsID, info.refCount)
           /\ [info EXCEPT !.hnsID = x] = i(x, info.refCount)
           /\ [info EXCEPT !.refCount = x] = i(info.hnsID, x)
<1> DEFINE i(id, c) == EndpointInfo(info.ip, info.isLocal, id, c, info.ready)
<1>1. info = i(info.hnsID, info.refCount)
  BY DEF endpointsInfos, EndpointInfo
<1>2. [info EXCEPT !.hnsID = x] = i(x, info.refCount)
  BY DEF endpointsInfos, EndpointInfo
<1>3. [info EXCEPT !.refCount = x] = i(info.hnsID, x)
  BY DEF endpointsInfos, EndpointInfo
<1> QED BY <1>1, <1>2, <1>3, Zenon

LEMMA EndpointBoth ==
    ASSUME NEW ips, NEW info \in endpointsInfos(ips), NEW id \in EndpointIds \cup {None},
           NEW c \in Counters
    PROVE  LET i == EndpointInfo(info.ip, info.isLocal, id, c, info.ready) IN
           /\ [info EXCEPT !.hnsID = id, !.refCount = c] = i
           /\ [info EXCEPT !.refCount = c, !.hnsID = id] = i
<1> DEFINE i1 == EndpointInfo(info.ip, info.isLocal, id, info.refCount, info.ready)
           i2 == EndpointInfo(info.ip, info.isLocal, info.hnsID, c, info.ready)
<1>1. /\ [info EXCEPT !.hnsID = id] = i1
      /\ [info EXCEPT !.refCount = c] = i2
  BY EndpointFields, Zenon
<1>2. /\ [i1 EXCEPT !.refCount = c] = EndpointInfo(info.ip, info.isLocal, id, c, info.ready)
      /\ [i2 EXCEPT !.hnsID = id] = EndpointInfo(info.ip, info.isLocal, id, c, info.ready)
  BY DEF EndpointInfo
<1> QED BY <1>1, <1>2, Zenon

LEMMA ServiceFields ==
    ASSUME NEW info \in ServiceInfos, NEW x
    PROVE  LET i(a, b, c, d) == ServiceInfo(info.base, a, b, c, d) IN
           /\ info = i(info.hnsID, info.nodePorthnsID, info.policyApplied, info.remoteEndpoint)
           /\ [info EXCEPT !.hnsID = x] = i(x, info.nodePorthnsID, info.policyApplied, info.remoteEndpoint)
           /\ [info EXCEPT !.nodePorthnsID = x] = i(info.hnsID, x, info.policyApplied, info.remoteEndpoint)
           /\ [info EXCEPT !.policyApplied = x] = i(info.hnsID, info.nodePorthnsID, x, info.remoteEndpoint)
           /\ [info EXCEPT !.remoteEndpoint = x] = i(info.hnsID, info.nodePorthnsID, info.policyApplied, x)
<1> DEFINE i(a, b, c, d) == ServiceInfo(info.base, a, b, c, d)
<1>1. info = i(info.hnsID, info.nodePorthnsID, info.policyApplied, info.remoteEndpoint)
  BY DEF ServiceInfos, ServiceInfo
<1>2. [info EXCEPT !.hnsID = x] = i(x, info.nodePorthnsID, info.policyApplied, info.remoteEndpoint)
  BY DEF ServiceInfos, ServiceInfo
<1>3. [info EXCEPT !.nodePorthnsID = x] = i(info.hnsID, x, info.policyApplied, info.remoteEndpoint)
  BY DEF ServiceInfos, ServiceInfo
<1>4. [info EXCEPT !.policyApplied = x] = i(info.hnsID, info.nodePorthnsID, x, info.remoteEndpoint)
  BY DEF ServiceInfos, ServiceInfo
<1>5. [info EXCEPT !.remoteEndpoint = x] = i(info.hnsID, info.nodePorthnsID, info.policyApplied, x)
  BY DEF ServiceInfos, ServiceInfo
<1> QED BY <1>1, <1>2, <1>3, <1>4, <1>5, Zenon

LEMMA TaskFields ==
    ASSUME NEW C, NEW t \in Tasks(C)
    PROVE  t = TaskOf(t.op, t.svc, t.change, t.passes, t.stage, t.todo, t.endpoints)
<1> QED BY DEF Tasks, TaskOf

LEMMA TaskTyped ==
    ASSUME NEW C, NEW t \in Tasks(C),
           NEW stage \in {"policies", "endpoints", "apply", "vip", "acquire", "node port"},
           NEW todo \in SUBSET IPs, NEW endpoints \in SUBSET [ip : IPs, hnsID : EndpointIds]
    PROVE  TaskOf(t.op, t.svc, t.change, t.passes, stage, todo, endpoints) \in Tasks(C)
<1> QED BY DEF Tasks, TaskOf

\* A task that is begun has the fields of Task.
LEMMA NewTask ==
    ASSUME NEW C, NEW op \in {"service", "endpoints", "sync"}, NEW svc \in ServicePortNames,
           NEW change \in C, NEW passes \in Nat
    PROVE  /\ Task(op, svc, change, passes) = TaskOf(op, svc, change, passes, "apply", {}, {})
           /\ Task(op, svc, change, passes) \in Tasks(C)
<1> QED BY DEF Task, TaskOf, Tasks

NextStage(t) ==
    IF serviceMap[t.svc] # None THEN "policies"
    ELSE IF t.op = "endpoints" THEN "endpoints" ELSE "apply"

LEMMA NextPassIs ==
    ASSUME NEW C, NEW t \in Tasks(C)
    PROVE  NextPass(t) =
              IF t.passes = 0 THEN TaskOf(t.op, t.svc, t.change, t.passes, "apply", t.todo, t.endpoints)
              ELSE TaskOf(t.op, t.svc, t.change, t.passes - 1, NextStage(t),
                          DOMAIN endpointsMap[t.svc], t.endpoints)
<1> DEFINE t0 == TaskOf(t.op, t.svc, t.change, t.passes, t.stage, t.todo, t.endpoints)
           t1 == [t EXCEPT !.passes = t.passes - 1]
           t2 == [t1 EXCEPT !.stage = NextStage(t)]
           t3 == [t2 EXCEPT !.todo = DOMAIN endpointsMap[t.svc]]
<1>1. t = t0
  BY TaskFields
<1>2. NextPass(t) = IF t.passes = 0 THEN [t EXCEPT !.stage = "apply"] ELSE t3
  BY Zenon DEF NextPass, NextStage
<1>3. [t EXCEPT !.stage = "apply"]
         = TaskOf(t.op, t.svc, t.change, t.passes, "apply", t.todo, t.endpoints)
  BY <1>1 DEF TaskOf
<1>4. t1 = TaskOf(t.op, t.svc, t.change, t.passes - 1, t.stage, t.todo, t.endpoints)
  BY <1>1 DEF TaskOf
<1> HIDE DEF t1
<1>5. t2 = TaskOf(t.op, t.svc, t.change, t.passes - 1, NextStage(t), t.todo, t.endpoints)
  BY <1>4 DEF TaskOf
<1> HIDE DEF t2
<1>6. t3 = TaskOf(t.op, t.svc, t.change, t.passes - 1, NextStage(t),
                  DOMAIN endpointsMap[t.svc], t.endpoints)
  BY <1>5 DEF TaskOf
<1> HIDE DEF t3
<1> QED BY <1>2, <1>3, <1>6, Zenon

-----------------------------------------------------------------------------
\* The cases of Cleanup.
LEMMA CleanupCases ==
    ASSUME NEW ips, NEW info \in endpointsInfos(ips), NEW cleaned, Cleanup(info, cleaned)
    PROVE  LET gone(id) == EndpointInfo(info.ip, info.isLocal, id, None, info.ready)
               count == Decremented(endPointsRefCount[info.refCount])
           IN  /\ UNCHANGED policies
               /\ \/ /\ info.isLocal \/ info.refCount = None
                     /\ cleaned = info
                     /\ UNCHANGED <<endPointsRefCount, hnsEndpoints, undeleted>>
                  \/ /\ ~info.isLocal /\ info.refCount = Own
                     /\ cleaned = gone(info.hnsID)
                     /\ UNCHANGED <<endPointsRefCount, hnsEndpoints, undeleted>>
                  \/ /\ ~info.isLocal /\ info.refCount \in EndpointIds
                     /\ endPointsRefCount' = [endPointsRefCount EXCEPT ![info.refCount] = count]
                     /\ \/ /\ count > 0
                           /\ cleaned = gone(info.hnsID)
                           /\ UNCHANGED <<hnsEndpoints, undeleted>>
                        \/ /\ count = 0
                           /\ deleteEndpoint(info.hnsID)
                           /\ Refuses({})
                           /\ cleaned = gone(None)
                        \/ /\ count = 0
                           /\ UNCHANGED hnsEndpoints
                           /\ \E known \in SUBSET EndpointIds : Refuses(known)
                           /\ cleaned = gone(info.hnsID)
<1> DEFINE gone(id) == EndpointInfo(info.ip, info.isLocal, id, None, info.ready)
           shared == info.refCount \in EndpointIds
           count == Decremented(IF shared THEN endPointsRefCount[info.refCount] ELSE 0)
           forgotten == [info EXCEPT !.refCount = None]
           deleted == [forgotten EXCEPT !.hnsID = None]
<1>1. forgotten = gone(info.hnsID) /\ deleted = gone(None)
  <2>1. None \in Counters /\ None \in EndpointIds \cup {None}
    BY DEF Counters
  <2>2. forgotten = gone(info.hnsID)
    BY EndpointFields, Zenon
  <2>3. deleted = gone(None)
    BY <2>1, EndpointBoth, Zenon
  <2> QED BY <2>2, <2>3, Zenon
<1>2. info.refCount \in EndpointIds \cup {Own, None} /\ info.isLocal \in BOOLEAN
  BY DEF endpointsInfos
<1>3. Decremented(0) = 65535
  <2>1. 0 \in Uint16
    BY Uint16Is
  <2> QED BY <2>1, DecrementedIs
<1>4. /\ UNCHANGED policies
      /\ \/ /\ info.isLocal \/ info.refCount = None
            /\ cleaned = info
            /\ UNCHANGED <<endPointsRefCount, hnsEndpoints, undeleted>>
         \/ /\ ~info.isLocal /\ info.refCount # None
            /\ endPointsRefCount' =
                  IF shared THEN [endPointsRefCount EXCEPT ![info.refCount] = count]
                            ELSE endPointsRefCount
            /\ \/ /\ count > 0
                  /\ cleaned = forgotten
                  /\ UNCHANGED <<hnsEndpoints, undeleted>>
               \/ /\ count = 0
                  /\ deleteEndpoint(info.hnsID)
                  /\ Refuses({})
                  /\ cleaned = deleted
               \/ /\ count = 0
                  /\ UNCHANGED hnsEndpoints
                  /\ \E known \in SUBSET EndpointIds : Refuses(known)
                  /\ cleaned = forgotten
  BY Zenon DEF Cleanup
<1>5. Own \notin EndpointIds /\ None \notin EndpointIds
  BY NoneAssumption DEF EndpointIds
<1> HIDE DEF forgotten, deleted
<1> QED BY <1>1, <1>2, <1>3, <1>4, <1>5

\* What Cleanup leaves of an info, of its counter and of HNS.
LEMMA CleanupEffect ==
    ASSUME PhaseOK, HnsOK, endPointsRefCount \in [EndpointIds -> Uint16],
           NEW ips, NEW info \in endpointsInfos(ips), InfoOK(info),
           NEW cleaned, Cleanup(info, cleaned)
    PROVE  /\ cleaned \in endpointsInfos(ips) /\ cleaned.ip = info.ip /\ InfoOK(cleaned)
           /\ HnsOK' /\ endPointsRefCount' \in [EndpointIds -> Uint16]
           /\ UNCHANGED policies
           /\ undeleted' \subseteq PolicyIds \cup EndpointIds
           /\ \A id \in PolicyIds : policies[id] # None /\ id \in undeleted => id \in undeleted'
<1>1. /\ cleaned \in endpointsInfos(ips) /\ cleaned.ip = info.ip /\ InfoOK(cleaned)
  <2>1. \/ cleaned = info
        \/ cleaned = EndpointInfo(info.ip, info.isLocal, info.hnsID, None, info.ready)
        \/ cleaned = EndpointInfo(info.ip, info.isLocal, None, None, info.ready)
    BY CleanupCases
  <2>2. None \notin EndpointIds
    BY NoneAssumption DEF EndpointIds
  <2> QED BY <2>1, <2>2 DEF EndpointInfo, endpointsInfos, InfoOK
<1>2. UNCHANGED policies
  BY CleanupCases
<1>3. \/ UNCHANGED hnsEndpoints
      \/ hnsEndpoints' = [hnsEndpoints EXCEPT ![info.hnsID] = None]
  BY Adapters, CleanupCases
<1>4. HnsOK'
  BY <1>3 DEF HnsOK
<1>5. endPointsRefCount' \in [EndpointIds -> Uint16]
  <2>1. info.refCount \in EndpointIds => Decremented(endPointsRefCount[info.refCount]) \in Uint16
    <3>1. info.refCount \in EndpointIds => endPointsRefCount[info.refCount] \in Uint16
      OBVIOUS
    <3> QED BY <3>1, DecrementedIs
  <2>2. \/ UNCHANGED endPointsRefCount
        \/ /\ info.refCount \in EndpointIds
           /\ endPointsRefCount' = [endPointsRefCount EXCEPT ![info.refCount] =
                 Decremented(endPointsRefCount[info.refCount])]
    BY CleanupCases
  <2> QED BY <2>1, <2>2
<1>6. \/ UNCHANGED undeleted
      \/ \E ids \in SUBSET EndpointIds : Refuses(ids)
  BY CleanupCases
<1>7. undeleted' \subseteq PolicyIds \cup EndpointIds
  BY <1>6, RefusesKeeps DEF PhaseOK
<1>8. \A id \in PolicyIds : policies[id] # None /\ id \in undeleted => id \in undeleted'
  BY <1>2, <1>6, RefusesKeeps
<1> QED BY <1>1, <1>2, <1>4, <1>5, <1>7, <1>8

-----------------------------------------------------------------------------
(***************************************************************************)
(* What steps have in common.                                              *)
(***************************************************************************)
\* The load balancers and who owns them stay.
LEMMA KeepPolicies ==
    ASSUME PoliciesOK, LeftOK, UNCHANGED <<policies, phase, plists>>,
           \A id \in PolicyIds : policies[id] # None /\ id \in undeleted => id \in undeleted',
           \A svc \in ServicePortNames :
              /\ serviceMap'[svc] = None <=> serviceMap[svc] = None
              /\ serviceMap[svc] # None =>
                    /\ serviceMap'[svc].base = serviceMap[svc].base
                    /\ serviceMap'[svc].hnsID = serviceMap[svc].hnsID
                    /\ serviceMap'[svc].nodePorthnsID = serviceMap[svc].nodePorthnsID
    PROVE  PoliciesOK' /\ LeftOK'
<1>1. PoliciesOK'
  BY DEF PoliciesOK, Exists
<1>2. \A svc \in ServicePortNames : Owned(svc)' = Owned(svc)
  BY DEF Owned
<1>3. LeftOK'
  BY <1>2 DEF LeftOK, Exists
<1> QED BY <1>1, <1>3

\* Load balancers are deleted, and services forget theirs.
LEMMA FewerPolicies ==
    ASSUME MapsOK, PoliciesOK,
           policies' = [id \in PolicyIds |-> policies'[id]],
           \A id \in PolicyIds : policies'[id] # None =>
              policies'[id] = policies[id] /\ policies[id] # None,
           \A s \in ServicePortNames : serviceMap'[s] = serviceMap[s] \/ serviceMap'[s].hnsID = None
    PROVE  PoliciesOK'
<1>1. \A id \in PolicyIds : policies'[id] # None =>
         policies'[id].endpoints \subseteq [ip : IPs, hnsID : EndpointIds]
  BY DEF PoliciesOK, Exists
<1>2. ASSUME NEW s \in ServicePortNames,
             serviceMap'[s] # None, serviceMap'[s].hnsID # None,
             policies'[serviceMap'[s].hnsID] # None
      PROVE  policies'[serviceMap'[s].hnsID].frontend = Frontend(serviceMap'[s].base, "hnsID")
  <2>1. serviceMap'[s] = serviceMap[s]
    BY <1>2
  <2>2. serviceMap[s].hnsID \in PolicyIds
    BY <1>2, <2>1 DEF MapsOK, ServiceOK, ServiceInfos
  <2>3. policies'[serviceMap[s].hnsID] = policies[serviceMap[s].hnsID]
    BY <1>2, <2>1, <2>2
  <2> QED BY <1>2, <2>1, <2>3 DEF PoliciesOK, Exists
<1> QED BY <1>1, <1>2 DEF PoliciesOK, Exists

LEMMA SetService1 ==
    ASSUME MapsOK, NEW svc \in ServicePortNames, NEW new, ServiceOK(new),
           serviceMap' = [serviceMap EXCEPT ![svc] = new], UNCHANGED endpointsMap,
           endPointsRefCount' \in [EndpointIds -> Uint16]
    PROVE  /\ MapsOK'
           /\ serviceMap'[svc] = new
           /\ \A other \in ServicePortNames \ {svc} : serviceMap'[other] = serviceMap[other]
<1>1. serviceMap = [s \in ServicePortNames |-> serviceMap[s]]
  BY DEF MapsOK
<1>2. /\ serviceMap' = [s \in ServicePortNames |-> serviceMap'[s]]
      /\ serviceMap'[svc] = new
      /\ \A other \in ServicePortNames \ {svc} : serviceMap'[other] = serviceMap[other]
  BY <1>1
<1>3. \A s \in ServicePortNames : ServiceOK(serviceMap[s])
  BY DEF MapsOK
<1>4. \A s \in ServicePortNames : ServiceOK(serviceMap'[s])
  BY <1>2, <1>3
<1> QED BY <1>2, <1>4 DEF MapsOK

LEMMA SetEndpoint1 ==
    ASSUME MapsOK, NEW svc \in ServicePortNames, NEW ip \in DOMAIN endpointsMap[svc],
           NEW new \in endpointsInfos({ip}), InfoOK(new),
           endpointsMap' = [endpointsMap EXCEPT ![svc][ip] = new], UNCHANGED serviceMap,
           endPointsRefCount' \in [EndpointIds -> Uint16]
    PROVE  /\ MapsOK'
           /\ endpointsMap'[svc][ip] = new
           /\ \A other \in ServicePortNames \ {svc} : endpointsMap'[other] = endpointsMap[other]
           /\ \A other \in DOMAIN endpointsMap[svc] \ {ip} :
                 endpointsMap'[svc][other] = endpointsMap[svc][other]
           /\ \A s \in ServicePortNames : DOMAIN endpointsMap'[s] = DOMAIN endpointsMap[s]
<1> DEFINE infos == [endpointsMap[svc] EXCEPT ![ip] = new]
<1>1. /\ endpointsMap = [s \in ServicePortNames |-> endpointsMap[s]]
      /\ \A s \in ServicePortNames : EndpointsOK(endpointsMap[s])
  BY DEF MapsOK
<1>2. endpointsMap' = [endpointsMap EXCEPT ![svc] = infos]
  BY <1>1
<1>3. /\ endpointsMap[svc] = [i \in DOMAIN endpointsMap[svc] |-> endpointsMap[svc][i]]
      /\ DOMAIN endpointsMap[svc] \subseteq IPs
      /\ \A i \in DOMAIN endpointsMap[svc] :
            endpointsMap[svc][i] \in endpointsInfos({i}) /\ InfoOK(endpointsMap[svc][i])
  BY <1>1 DEF EndpointsOK
<1>4. /\ infos = [i \in DOMAIN endpointsMap[svc] |-> infos[i]]
      /\ DOMAIN infos = DOMAIN endpointsMap[svc]
      /\ infos[ip] = new
      /\ \A other \in DOMAIN endpointsMap[svc] \ {ip} : infos[other] = endpointsMap[svc][other]
  BY <1>3
<1> HIDE DEF infos
<1>5. EndpointsOK(infos)
  BY <1>3, <1>4 DEF EndpointsOK
<1>6. /\ endpointsMap' = [s \in ServicePortNames |-> endpointsMap'[s]]
      /\ endpointsMap'[svc] = infos
      /\ \A other \in ServicePortNames \ {svc} : endpointsMap'[other] = endpointsMap[other]
  BY <1>1, <1>2
<1>7. \A s \in ServicePortNames : EndpointsOK(endpointsMap'[s])
  BY <1>1, <1>5, <1>6
<1>8. MapsOK'
  BY <1>6, <1>7 DEF MapsOK
<1>9. \A s \in ServicePortNames : DOMAIN endpointsMap'[s] = DOMAIN endpointsMap[s]
  BY <1>4, <1>6
<1> QED BY <1>4, <1>6, <1>8, <1>9

\* The handler's service, and the fields of its task.
LEMMA TaskFacts ==
    ASSUME MapsOK, TaskOK, task # None
    PROVE  /\ task.svc \in ServicePortNames
           /\ task \in Tasks(IF task.op = "endpoints" THEN SUBSET IPs ELSE BaseInfos \cup {None})
           /\ task = TaskOf(task.op, task.svc, task.change, task.passes, task.stage, task.todo,
                            task.endpoints)
           /\ svcInfo # None => svcInfo \in ServiceInfos
           /\ EndpointsOK(endpointsMap[task.svc])
<1>1. task \in Tasks(IF task.op = "endpoints" THEN SUBSET IPs ELSE BaseInfos \cup {None})
  BY DEF TaskOK
<1>2. task.svc \in ServicePortNames
  BY <1>1 DEF Tasks
<1>3. task = TaskOf(task.op, task.svc, task.change, task.passes, task.stage, task.todo, task.endpoints)
  BY <1>1, TaskFields
<1>4. svcInfo # None => svcInfo \in ServiceInfos
  BY <1>2 DEF MapsOK, ServiceOK, svcInfo
<1>5. EndpointsOK(endpointsMap[task.svc])
  BY <1>2 DEF MapsOK
<1> QED BY <1>1, <1>2, <1>3, <1>4, <1>5

LEMMA NotNone ==
    /\ None \notin EndpointIds /\ None \notin PolicyIds
    /\ \A ips \in SUBSET IPs : None \notin endpointsInfos(ips)
    /\ None \notin VipInfos
    /\ None \notin ServiceInfos
<1> DEFINE addresses == IPs \cup {base.clusterIP : base \in BaseInfos}
           infos == [ip : addresses, isLocal : BOOLEAN, hnsID : (RemoteIds \cup LocalIds) \cup {None},
                     refCount : (RemoteIds \cup LocalIds) \cup {Own, None}, ready : BOOLEAN]
           services == [base : BaseInfos, hnsID : PolicyIds \cup {None},
                        nodePorthnsID : PolicyIds \cup {None}, policyApplied : BOOLEAN,
                        remoteEndpoint : infos \cup {None}]
<1>1. /\ None \notin (RemoteIds \cup LocalIds) \cup PolicyIds
      /\ None \notin infos
      /\ None \notin services
  BY NoneAssumption, Zenon
<1>2. \A ips \in SUBSET addresses : endpointsInfos(ips) \subseteq infos
  BY DEF endpointsInfos, EndpointIds
<1>3. VipInfos \subseteq infos
  BY <1>2 DEF VipInfos
<1> HIDE DEF infos
<1>4. ServiceInfos \subseteq services
  BY <1>3 DEF ServiceInfos
<1> HIDE DEF services
<1>5. None \notin EndpointIds /\ None \notin PolicyIds
  BY <1>1 DEF EndpointIds
<1>6. \A ips \in SUBSET IPs : None \notin endpointsInfos(ips)
  BY <1>1, <1>2
<1> QED BY <1>1, <1>3, <1>4, <1>5, <1>6

\* Only the task changes.
LEMMA OnlyTask ==
    ASSUME IInv, TaskOK',
           UNCHANGED <<api, network, hnsEndpoints, policies, serviceMap, endpointsMap,
                       endPointsRefCount, undeleted, phase, plists, sinkVars>>
    PROVE  IInv'
<1>1. PhaseOK' /\ HnsOK' /\ SinkOK'
  BY DEF IInv, PhaseOK, HnsOK, SinkOK, sinkVars
<1>2. MapsOK'
  BY DEF IInv, MapsOK
<1>3. PoliciesOK' /\ LeftOK'
  BY KeepPolicies DEF IInv
<1> QED BY <1>1, <1>2, <1>3 DEF IInv

-----------------------------------------------------------------------------
(***************************************************************************)
(* The handlers: a change begins, its clean-up, and its end.               *)
(***************************************************************************)
LEMMA ServiceMapChangeIs ==
    ASSUME MapsOK, NEW svc \in ServicePortNames, NEW base \in BaseInfos \cup {None},
           serviceMapChange(svc, base)
    PROVE  /\ task' \in Tasks(BaseInfos \cup {None})
           /\ task'.op = "service" /\ task'.svc = svc /\ task'.change = base
           /\ task'.stage = IF serviceMap[svc] # None THEN "policies" ELSE "apply"
           /\ task'.todo = DOMAIN endpointsMap[svc]
           /\ UNCHANGED <<serviceMap, endpointsMap, endPointsRefCount, hnsEndpoints, policies, undeleted>>
<1> DEFINE t0 == Task("service", svc, base, 1)
           stage == IF serviceMap[svc] # None THEN "policies" ELSE "apply"
<1>1. t0 \in Tasks(BaseInfos \cup {None})
      /\ t0 = TaskOf("service", svc, base, 1, "apply", {}, {})
  BY NewTask
<1>2. t0.op = "service" /\ t0.svc = svc /\ t0.change = base /\ t0.passes = 1 /\ t0.endpoints = {}
  BY <1>1 DEF TaskOf
<1>3. task' = NextPass(t0)
  BY DEF serviceMapChange
<1> HIDE DEF t0
<1>4. task' = TaskOf("service", svc, base, 0, stage, DOMAIN endpointsMap[svc], {})
  <2>1. t0.passes # 0 /\ t0.passes - 1 = 0
    BY <1>2
  <2>2. NextStage(t0) = stage
    BY <1>2 DEF NextStage
  <2>3. NextPass(t0) = TaskOf(t0.op, t0.svc, t0.change, t0.passes - 1, NextStage(t0),
                              DOMAIN endpointsMap[t0.svc], t0.endpoints)
    BY <1>1, <2>1, NextPassIs, Zenon
  <2> QED BY <1>2, <1>3, <2>1, <2>2, <2>3
<1>5. DOMAIN endpointsMap[svc] \subseteq IPs
  BY DEF MapsOK, EndpointsOK
<1>6. /\ task' \in Tasks(BaseInfos \cup {None})
      /\ task'.op = "service" /\ task'.svc = svc /\ task'.change = base /\ task'.stage = stage
      /\ task'.todo = DOMAIN endpointsMap[svc]
  BY <1>4, <1>5 DEF TaskOf, Tasks
<1> QED BY <1>6 DEF serviceMapChange

LEMMA DoServiceMapChange ==
    ASSUME IInv, NEW svc \in ServicePortNames, NEW base \in BaseInfos \cup {None},
           serviceMapChange(svc, base), UNCHANGED <<api, network, phase, plists, sinkVars>>
    PROVE  IInv'
<1>1. /\ task' \in Tasks(BaseInfos \cup {None}) /\ task'.op = "service" /\ task'.svc = svc
      /\ task'.stage = IF serviceMap[svc] # None THEN "policies" ELSE "apply"
      /\ task'.todo = DOMAIN endpointsMap[svc] /\ UNCHANGED <<serviceMap, endpointsMap>>
  BY ServiceMapChangeIs DEF IInv
<1>2. TaskOK'
  BY <1>1 DEF TaskOK, svcInfo
<1> QED BY <1>2, OnlyTask DEF serviceMapChange

LEMMA EndpointsMapChangeIs ==
    ASSUME MapsOK, NEW svc \in ServicePortNames, NEW ips \in SUBSET IPs, endpointsMapChange(svc, ips)
    PROVE  /\ task' \in Tasks(SUBSET IPs)
           /\ task'.op = "endpoints" /\ task'.svc = svc
           /\ task'.stage = IF serviceMap[svc] # None THEN "policies" ELSE "endpoints"
           /\ task'.todo = DOMAIN endpointsMap[svc]
           /\ UNCHANGED <<serviceMap, endpointsMap, endPointsRefCount, hnsEndpoints, policies, undeleted>>
<1>1. PICK n \in {1, 2} : task' = NextPass(Task("endpoints", svc, ips, n))
  BY DEF endpointsMapChange
<1> DEFINE t0 == Task("endpoints", svc, ips, n)
           stage == IF serviceMap[svc] # None THEN "policies" ELSE "endpoints"
<1>2. t0 \in Tasks(SUBSET IPs) /\ t0 = TaskOf("endpoints", svc, ips, n, "apply", {}, {})
  <2>1. n \in Nat
    OBVIOUS
  <2> QED BY <2>1, NewTask
<1>3. t0.op = "endpoints" /\ t0.svc = svc /\ t0.change = ips /\ t0.passes = n /\ t0.endpoints = {}
  BY <1>2 DEF TaskOf
<1> HIDE DEF t0
<1>4. task' = TaskOf("endpoints", svc, ips, n - 1, stage, DOMAIN endpointsMap[svc], {})
  <2>1. t0.passes # 0 /\ t0.passes - 1 = n - 1
    BY <1>3
  <2>2. NextStage(t0) = stage
    BY <1>3 DEF NextStage
  <2>3. NextPass(t0) = TaskOf(t0.op, t0.svc, t0.change, t0.passes - 1, NextStage(t0),
                              DOMAIN endpointsMap[t0.svc], t0.endpoints)
    BY <1>2, <2>1, NextPassIs, Zenon
  <2>4. task' = NextPass(t0)
    BY <1>1 DEF t0
  <2> QED BY <1>3, <2>1, <2>2, <2>3, <2>4
<1>5. DOMAIN endpointsMap[svc] \subseteq IPs
  BY DEF MapsOK, EndpointsOK
<1>6. /\ task' \in Tasks(SUBSET IPs)
      /\ task'.op = "endpoints" /\ task'.svc = svc /\ task'.stage = stage
      /\ task'.todo = DOMAIN endpointsMap[svc]
  <2>1. n - 1 \in Nat
    OBVIOUS
  <2> QED BY <1>4, <1>5, <2>1 DEF TaskOf, Tasks
<1> QED BY <1>6 DEF endpointsMapChange

LEMMA DoEndpointsMapChange ==
    ASSUME IInv, NEW svc \in ServicePortNames, NEW ips \in SUBSET IPs,
           endpointsMapChange(svc, ips), UNCHANGED <<api, network, phase, plists, sinkVars>>
    PROVE  IInv'
<1>1. TaskOK'
  BY EndpointsMapChangeIs DEF IInv, TaskOK, svcInfo
<1> QED BY <1>1, OnlyTask DEF endpointsMapChange

LEMMA BeginSyncIs ==
    ASSUME MapsOK, NEW svc \in ServicePortNames, BeginSync(svc)
    PROVE  /\ task' \in Tasks(BaseInfos \cup {None})
           /\ task'.op = "sync" /\ task'.svc = svc /\ task'.stage \in {"vip", "acquire"}
           /\ task'.todo = DOMAIN endpointsMap[svc] /\ task'.endpoints = {}
           /\ serviceMap[svc] # None /\ ~serviceMap[svc].policyApplied
           /\ UNCHANGED <<serviceMap, endpointsMap, endPointsRefCount, hnsEndpoints, policies, undeleted>>
<1> DEFINE t0 == Task("sync", svc, None, 0)
           stage == IF network \in Overlay THEN "vip" ELSE "acquire"
           t1 == [t0 EXCEPT !.stage = stage]
           t2 == [t1 EXCEPT !.todo = DOMAIN endpointsMap[svc]]
<1>1. t0 = TaskOf("sync", svc, None, 0, "apply", {}, {})
  BY NewTask
<1>2. task' = t2
  BY Zenon DEF BeginSync
<1> HIDE DEF t0, stage
<1>3. t1 = TaskOf("sync", svc, None, 0, stage, {}, {})
  BY <1>1 DEF TaskOf
<1> HIDE DEF t1
<1>4. t2 = TaskOf("sync", svc, None, 0, stage, DOMAIN endpointsMap[svc], {})
  BY <1>3 DEF TaskOf
<1> HIDE DEF t2
<1>5. DOMAIN endpointsMap[svc] \subseteq IPs
  BY DEF MapsOK, EndpointsOK
<1>6. /\ task' \in Tasks(BaseInfos \cup {None})
      /\ task'.op = "sync" /\ task'.svc = svc /\ task'.stage = stage
      /\ task'.todo = DOMAIN endpointsMap[svc] /\ task'.endpoints = {}
  <2>1. stage \in {"policies", "endpoints", "apply", "vip", "acquire", "node port"}
    BY DEF stage
  <2> QED BY <1>2, <1>4, <1>5, <2>1 DEF TaskOf, Tasks
<1>7. stage \in {"vip", "acquire"}
  BY DEF stage
<1> QED BY <1>6, <1>7 DEF BeginSync

LEMMA DoBeginSync ==
    ASSUME IInv, NEW svc \in ServicePortNames,
           BeginSync(svc), UNCHANGED <<api, network, phase, plists, sinkVars>>
    PROVE  IInv'
<1>1. TaskOK'
  BY BeginSyncIs DEF IInv, TaskOK, svcInfo
<1> QED BY <1>1, OnlyTask DEF BeginSync

LEMMA PolicyRefusedIs ==
    ASSUME NEW field, PolicyRefused(field)
    PROVE  /\ task' = None
           /\ UNCHANGED <<serviceMap, endpointsMap, endPointsRefCount, hnsEndpoints, policies, undeleted>>
<1>1. UNCHANGED policies
  BY DEF PolicyRefused, getLoadBalancer, V1!getLoadBalancer, V2!getLoadBalancer
<1> QED BY <1>1 DEF PolicyRefused

\* A synchronization ends without a load balancer.
LEMMA DoEndSync ==
    ASSUME IInv, task' = None,
           UNCHANGED <<serviceMap, endpointsMap, endPointsRefCount, hnsEndpoints, policies, undeleted>>,
           UNCHANGED <<api, network, phase, plists, sinkVars>>
    PROVE  IInv'
<1>1. TaskOK'
  BY DEF TaskOK
<1> QED BY <1>1, OnlyTask

LEMMA DoPolicyRefused ==
    ASSUME IInv, NEW field, PolicyRefused(field),
           UNCHANGED <<api, network, phase, plists, sinkVars>>
    PROVE  IInv'
<1> QED BY PolicyRefusedIs, DoEndSync

LEMMA DoNothingAcquired ==
    ASSUME IInv, NothingAcquired, UNCHANGED <<api, network, phase, plists, sinkVars>>
    PROVE  IInv'
<1> QED BY DoEndSync DEF NothingAcquired

LEMMA DeletePoliciesIs ==
    ASSUME MapsOK, TaskOK, deleteAllHnsLoadBalancerPolicy
    PROVE  LET svc == task.svc
               info == serviceMap[svc]
           IN  /\ task # None /\ task.stage = "policies" /\ svc \in ServicePortNames
               /\ info # None /\ info \in ServiceInfos /\ ServiceOK(info) /\ info.base \in BaseInfos
               /\ {info.hnsID, info.nodePorthnsID} \ {None} \subseteq PolicyIds
               /\ serviceMap' = [serviceMap EXCEPT ![svc] =
                     ServiceInfo(info.base, None, None, info.policyApplied, info.remoteEndpoint)]
               /\ task' = TaskOf(task.op, svc, task.change, task.passes, "endpoints", task.todo,
                                 task.endpoints)
               /\ UNCHANGED <<hnsEndpoints, endpointsMap, endPointsRefCount>>
<1> DEFINE svc == task.svc
           info == serviceMap[svc]
           i1 == [info EXCEPT !.hnsID = None]
           i2 == [i1 EXCEPT !.nodePorthnsID = None]
           new == ServiceInfo(info.base, None, None, info.policyApplied, info.remoteEndpoint)
           ids == {info.hnsID, info.nodePorthnsID} \ {None}
<1>1. /\ task # None /\ task.stage = "policies" /\ svc \in ServicePortNames
      /\ info # None /\ info \in ServiceInfos /\ ServiceOK(info) /\ info.base \in BaseInfos
      /\ ids \subseteq PolicyIds
  <2>1. task # None /\ task.stage = "policies" /\ info # None
    BY DEF deleteAllHnsLoadBalancerPolicy, At, TaskOK, svcInfo
  <2>2. svc \in ServicePortNames /\ info \in ServiceInfos
    BY <2>1, TaskFacts DEF svcInfo
  <2>3. ServiceOK(info)
    BY <2>2 DEF MapsOK
  <2>4. info.hnsID \in PolicyIds \cup {None} /\ info.nodePorthnsID \in PolicyIds \cup {None}
        /\ info.base \in BaseInfos
    BY <2>2 DEF ServiceInfos
  <2> QED BY <2>1, <2>2, <2>3, <2>4
<1>2. serviceMap' = [serviceMap EXCEPT ![svc] = new]
  <2>1. serviceMap' = [serviceMap EXCEPT ![svc] = i2]
    BY <1>1 DEF deleteAllHnsLoadBalancerPolicy, MapsOK
  <2>2. i1 = ServiceInfo(info.base, None, info.nodePorthnsID, info.policyApplied, info.remoteEndpoint)
    BY <1>1, ServiceFields, Zenon
  <2> HIDE DEF i1
  <2>3. i2 = new
    BY <2>2 DEF ServiceInfo
  <2> HIDE DEF i2, new
  <2> QED BY <2>1, <2>3
<1>3. task' = TaskOf(task.op, svc, task.change, task.passes, "endpoints", task.todo, task.endpoints)
  <2>1. task' = [task EXCEPT !.stage = "endpoints"]
    BY DEF deleteAllHnsLoadBalancerPolicy
  <2>2. task = TaskOf(task.op, svc, task.change, task.passes, task.stage, task.todo, task.endpoints)
    BY <1>1, TaskFacts
  <2> QED BY <2>1, <2>2 DEF TaskOf
<1>4. UNCHANGED <<hnsEndpoints, endpointsMap, endPointsRefCount>>
  BY DEF deleteAllHnsLoadBalancerPolicy
<1> QED BY <1>1, <1>2, <1>3, <1>4

LEMMA DoDeletePolicies ==
    ASSUME IInv, phase = "running", deleteAllHnsLoadBalancerPolicy,
           UNCHANGED <<api, network, phase, plists, sinkVars>>
    PROVE  IInv'
<1> DEFINE svc == task.svc
           info == serviceMap[svc]
           new == ServiceInfo(info.base, None, None, info.policyApplied, info.remoteEndpoint)
           ids == {info.hnsID, info.nodePorthnsID} \ {None}
<1> USE DEF IInv
<1>1. /\ task # None /\ task.stage = "policies" /\ svc \in ServicePortNames
      /\ info # None /\ info \in ServiceInfos /\ ServiceOK(info) /\ info.base \in BaseInfos
      /\ ids \subseteq PolicyIds
  BY DeletePoliciesIs
<1>2. PICK refused \in SUBSET ids :
        /\ policies' = [id \in PolicyIds |-> IF id \in ids \ refused THEN None ELSE policies[id]]
        /\ Refuses(refused)
  BY Adapters DEF deleteAllHnsLoadBalancerPolicy, svcInfo
<1>3. serviceMap' = [serviceMap EXCEPT ![svc] = new]
  BY DeletePoliciesIs
<1>4. /\ new \in ServiceInfos /\ ServiceOK(new) /\ new # None
      /\ new.base = info.base /\ new.hnsID = None /\ new.nodePorthnsID = None
  <2>1. new \in ServiceInfos
    BY <1>1 DEF ServiceInfos, ServiceInfo
  <2>2. /\ new.base = info.base /\ new.hnsID = None /\ new.nodePorthnsID = None
        /\ new.remoteEndpoint = info.remoteEndpoint
    BY DEF ServiceInfo
  <2> HIDE DEF new
  <2> QED BY <1>1, <2>1, <2>2, NotNone DEF ServiceOK
<1> HIDE DEF new
<1>5. UNCHANGED <<hnsEndpoints, endpointsMap, endPointsRefCount>>
  BY DEF deleteAllHnsLoadBalancerPolicy
<1>6. /\ MapsOK' /\ serviceMap'[svc] = new
      /\ \A other \in ServicePortNames \ {svc} : serviceMap'[other] = serviceMap[other]
  <2>1. endPointsRefCount' \in [EndpointIds -> Uint16]
    BY <1>5 DEF MapsOK
  <2> QED BY <1>1, <1>3, <1>4, <1>5, <2>1, SetService1
<1>7. TaskOK'
  <2>1. task' = TaskOf(task.op, svc, task.change, task.passes, "endpoints", task.todo, task.endpoints)
    BY DeletePoliciesIs
  <2>2. /\ task'.op = task.op /\ task'.svc = svc /\ task'.stage = "endpoints"
        /\ task'.todo = task.todo
        /\ task' \in Tasks(IF task.op = "endpoints" THEN SUBSET IPs ELSE BaseInfos \cup {None})
    <3>1. task \in Tasks(IF task.op = "endpoints" THEN SUBSET IPs ELSE BaseInfos \cup {None})
      BY <1>1, TaskFacts
    <3> QED BY <2>1, <3>1 DEF TaskOf, Tasks
  <2> QED BY <1>1, <1>4, <1>5, <1>6, <2>2 DEF TaskOK, svcInfo
<1>8. PhaseOK' /\ HnsOK' /\ SinkOK'
  BY <1>1, <1>2, <1>5, RefusesKeeps DEF PhaseOK, HnsOK, SinkOK, sinkVars
<1>9. /\ policies' = [id \in PolicyIds |-> policies'[id]]
      /\ \A id \in PolicyIds : policies'[id] # None =>
            policies'[id] = policies[id] /\ policies[id] # None /\ id \notin ids \ refused
  BY <1>2
<1>10. PoliciesOK'
  <2>1. \A s \in ServicePortNames : \/ serviceMap'[s] = serviceMap[s]
                                    \/ serviceMap'[s].hnsID = None
    BY <1>4, <1>6
  <2> QED BY <1>9, <2>1, FewerPolicies
<1>11. LeftOK'
  <2> SUFFICES ASSUME NEW id \in PolicyIds, policies'[id] # None, id \notin undeleted',
                      policies'[id].frontend \notin Retried
               PROVE  \E s \in ServicePortNames : id \in Owned(s)'
    BY DEF LeftOK, Exists
  <2>1. /\ id \notin undeleted \cup refused /\ policies[id] # None /\ id \notin ids
        /\ policies[id].frontend \notin Retried
    BY <1>1, <1>2, <1>9, RefusesKeeps
  <2>2. PICK s \in ServicePortNames : id \in Owned(s)
    BY <2>1 DEF LeftOK, Exists
  <2>3. s # svc
    BY <1>1, <2>1, <2>2 DEF Owned
  <2>4. id \in Owned(s)'
    BY <1>6, <2>2, <2>3 DEF Owned
  <2> QED BY <2>4
<1> QED BY <1>6, <1>7, <1>8, <1>10, <1>11

LEMMA DoCleanupEndpoint ==
    ASSUME IInv, NEW ip, CleanupEndpoint(ip), UNCHANGED <<api, network, phase, plists, sinkVars>>
    PROVE  IInv'
<1> DEFINE svc == task.svc
           info == endpointsMap[svc][ip]
<1> USE DEF IInv
<1>1. PICK cleaned : /\ Cleanup(info, cleaned)
                     /\ endpointsMap' = [endpointsMap EXCEPT ![svc][ip] = cleaned]
  BY Zenon DEF CleanupEndpoint
<1>2. /\ task # None /\ task.stage = "endpoints" /\ ip \in task.todo
      /\ task' = [task EXCEPT !.todo = task.todo \ {ip}] /\ UNCHANGED serviceMap
  BY DEF CleanupEndpoint, At
<1>3. /\ svc \in ServicePortNames /\ ip \in DOMAIN endpointsMap[svc]
      /\ info \in endpointsInfos({ip}) /\ InfoOK(info)
  BY <1>2, TaskFacts DEF TaskOK, EndpointsOK
<1>4. /\ cleaned \in endpointsInfos({ip}) /\ InfoOK(cleaned)
      /\ HnsOK' /\ endPointsRefCount' \in [EndpointIds -> Uint16]
      /\ UNCHANGED policies
      /\ undeleted' \subseteq PolicyIds \cup EndpointIds
      /\ \A id \in PolicyIds : policies[id] # None /\ id \in undeleted => id \in undeleted'
  <2>1. endPointsRefCount \in [EndpointIds -> Uint16]
    BY DEF MapsOK
  <2> QED BY <1>1, <1>3, <2>1, CleanupEffect
<1>5. MapsOK' /\ \A s \in ServicePortNames : DOMAIN endpointsMap'[s] = DOMAIN endpointsMap[s]
  BY <1>1, <1>2, <1>3, <1>4, SetEndpoint1
<1>6. PhaseOK' /\ SinkOK'
  BY <1>4 DEF PhaseOK, SinkOK, sinkVars
<1>7. PoliciesOK' /\ LeftOK'
  BY <1>2, <1>4, <1>5, KeepPolicies
<1>8. TaskOK'
  <2>1. task' = TaskOf(task.op, svc, task.change, task.passes, task.stage, task.todo \ {ip}, task.endpoints)
    <3>1. task = TaskOf(task.op, svc, task.change, task.passes, task.stage, task.todo, task.endpoints)
      BY <1>2, TaskFacts
    <3> QED BY <1>2, <3>1 DEF TaskOf
  <2>2. /\ task'.op = task.op /\ task'.svc = svc /\ task'.stage = "endpoints"
        /\ task'.todo = task.todo \ {ip}
        /\ task' \in Tasks(IF task.op = "endpoints" THEN SUBSET IPs ELSE BaseInfos \cup {None})
    <3>1. task \in Tasks(IF task.op = "endpoints" THEN SUBSET IPs ELSE BaseInfos \cup {None})
      BY <1>2, TaskFacts
    <3>2. /\ task.todo \ {ip} \in SUBSET IPs
          /\ task.endpoints \in SUBSET [ip : IPs, hnsID : EndpointIds]
          /\ task.stage = "endpoints" /\ task.svc = svc
      BY <1>2, <3>1 DEF Tasks
    <3>3. task' \in Tasks(IF task.op = "endpoints" THEN SUBSET IPs ELSE BaseInfos \cup {None})
      BY <2>1, <3>1, <3>2, TaskTyped
    <3> QED BY <2>1, <3>2, <3>3 DEF TaskOf
  <2> QED BY <1>2, <1>3, <1>5, <2>2 DEF TaskOK, svcInfo
<1> QED BY <1>4, <1>5, <1>6, <1>7, <1>8

\* The next pass of a clean-up, or its end.
LEMMA NextPassOK ==
    ASSUME MapsOK, TaskOK, At("endpoints"), task' = NextPass(task), UNCHANGED endpointsMap,
           serviceMap'[task.svc] = None <=> svcInfo = None,
           svcInfo # None => /\ serviceMap'[task.svc].hnsID = svcInfo.hnsID
                             /\ serviceMap'[task.svc].nodePorthnsID = svcInfo.nodePorthnsID
    PROVE  /\ TaskOK'
           /\ task'.op = task.op /\ task'.svc = task.svc
           /\ task' \in Tasks(IF task.op = "endpoints" THEN SUBSET IPs ELSE BaseInfos \cup {None})
<1> DEFINE C == IF task.op = "endpoints" THEN SUBSET IPs ELSE BaseInfos \cup {None}
<1>1. /\ task # None /\ task.stage = "endpoints" /\ task.op # "sync"
      /\ task \in Tasks(C) /\ task.svc \in ServicePortNames
      /\ DOMAIN endpointsMap[task.svc] \subseteq IPs
      /\ svcInfo # None => svcInfo.hnsID = None /\ svcInfo.nodePorthnsID = None
      /\ task.todo \subseteq DOMAIN endpointsMap[task.svc]
  BY TaskFacts DEF At, TaskOK, EndpointsOK
<1> HIDE DEF C
<1>2. CASE task.passes = 0
  <2> DEFINE new == TaskOf(task.op, task.svc, task.change, task.passes, "apply", task.todo, task.endpoints)
  <2>1. task' = new
    BY <1>1, <1>2, NextPassIs
  <2>2. new \in Tasks(C)
    <3>1. task \in Tasks(C)
      BY <1>1
    <3> QED BY <3>1 DEF TaskOf, Tasks
  <2>3. new.op = task.op /\ new.svc = task.svc /\ new.stage = "apply" /\ new.todo = task.todo
    BY DEF TaskOf
  <2> HIDE DEF new
  <2> QED BY <1>1, <2>1, <2>2, <2>3 DEF TaskOK, svcInfo, C
<1>3. CASE task.passes # 0
  <2> DEFINE new == TaskOf(task.op, task.svc, task.change, task.passes - 1, NextStage(task),
                           DOMAIN endpointsMap[task.svc], task.endpoints)
  <2>1. task' = new
    BY <1>1, <1>3, NextPassIs
  <2>2. NextStage(task) = IF svcInfo # None THEN "policies"
                          ELSE IF task.op = "endpoints" THEN "endpoints" ELSE "apply"
    BY DEF NextStage, svcInfo
  <2>3. new \in Tasks(C)
    <3>1. task \in Tasks(C) /\ DOMAIN endpointsMap[task.svc] \subseteq IPs
      BY <1>1
    <3>2. NextStage(task) \in {"policies", "endpoints", "apply"}
      BY <2>2
    <3>3. task.passes \in Nat
      BY <3>1 DEF Tasks
    <3>4. task.passes - 1 \in Nat
      BY <1>3, <3>3
    <3> QED BY <3>1, <3>2, <3>4 DEF TaskOf, Tasks
  <2>4. /\ new.op = task.op /\ new.svc = task.svc /\ new.stage = NextStage(task)
        /\ new.todo = DOMAIN endpointsMap[task.svc]
    BY DEF TaskOf
  <2> HIDE DEF new
  <2> QED BY <1>1, <2>1, <2>2, <2>3, <2>4 DEF TaskOK, svcInfo, C
<1> QED BY <1>2, <1>3

LEMMA CleanupRemoteIs ==
    ASSUME PhaseOK, HnsOK, MapsOK, TaskOK, CleanupRemoteEndpoint
    PROVE  LET svc == task.svc
               info == serviceMap[svc]
               new(remote) == ServiceInfo(info.base, None, None, FALSE, remote)
           IN  /\ At("endpoints") /\ task # None /\ task' = NextPass(task) /\ UNCHANGED endpointsMap
               /\ svc \in ServicePortNames
               /\ info # None => /\ info \in ServiceInfos /\ ServiceOK(info)
                                 /\ info.hnsID = None /\ info.nodePorthnsID = None
                                 /\ info.base \in BaseInfos
               /\ \/ /\ info = None
                     /\ UNCHANGED <<serviceMap, endPointsRefCount, hnsEndpoints, policies, undeleted>>
                  \/ /\ info # None /\ info.remoteEndpoint = None
                     /\ serviceMap' = [serviceMap EXCEPT ![svc] = new(None)]
                     /\ UNCHANGED <<endPointsRefCount, hnsEndpoints, policies, undeleted>>
                  \/ /\ info # None /\ info.remoteEndpoint # None
                     /\ \E cleaned : /\ Cleanup(info.remoteEndpoint, cleaned)
                                     /\ serviceMap' = [serviceMap EXCEPT ![svc] = new(cleaned)]
<1> DEFINE svc == task.svc
           info == serviceMap[svc]
           new(remote) == ServiceInfo(info.base, None, None, FALSE, remote)
<1>1. /\ At("endpoints") /\ task # None /\ task' = NextPass(task) /\ UNCHANGED endpointsMap
      /\ svc \in ServicePortNames
  BY TaskFacts DEF CleanupRemoteEndpoint, At
<1>2. info # None => /\ info \in ServiceInfos /\ ServiceOK(info)
                     /\ info.hnsID = None /\ info.nodePorthnsID = None /\ info.base \in BaseInfos
  <2>1. info # None => info \in ServiceInfos
    BY <1>1, TaskFacts DEF svcInfo
  <2>2. info # None => ServiceOK(info)
    BY <1>1 DEF MapsOK
  <2> QED BY <1>1, <2>1, <2>2 DEF TaskOK, svcInfo, At, ServiceInfos
<1>3. CASE /\ info # None /\ info.remoteEndpoint = None
           /\ serviceMap' = [serviceMap EXCEPT ![svc].policyApplied = FALSE]
           /\ UNCHANGED <<endPointsRefCount, hnsEndpoints, policies, undeleted>>
  <2>1. serviceMap' = [serviceMap EXCEPT ![svc] = [info EXCEPT !.policyApplied = FALSE]]
    BY <1>1, <1>3 DEF MapsOK
  <2>2. [info EXCEPT !.policyApplied = FALSE]
           = ServiceInfo(info.base, info.hnsID, info.nodePorthnsID, FALSE, info.remoteEndpoint)
    BY <1>2, <1>3, ServiceFields, Zenon
  <2>3. serviceMap' = [serviceMap EXCEPT ![svc] = new(None)]
    BY <1>2, <1>3, <2>1, <2>2
  <2> QED BY <1>1, <1>2, <1>3, <2>3
<1>4. ASSUME /\ info # None /\ info.remoteEndpoint # None,
             NEW cleaned, Cleanup(info.remoteEndpoint, cleaned),
             serviceMap' = [serviceMap EXCEPT ![svc].remoteEndpoint = cleaned,
                                              ![svc].policyApplied = FALSE]
      PROVE  serviceMap' = [serviceMap EXCEPT ![svc] = new(cleaned)]
  <2> DEFINE i1 == [info EXCEPT !.remoteEndpoint = cleaned]
             i2 == [i1 EXCEPT !.policyApplied = FALSE]
  <2>1. serviceMap' = [serviceMap EXCEPT ![svc] = i2]
    BY <1>1, <1>4 DEF MapsOK
  <2>2. i1 = ServiceInfo(info.base, info.hnsID, info.nodePorthnsID, info.policyApplied, cleaned)
    BY <1>2, <1>4, ServiceFields, Zenon
  <2> HIDE DEF i1
  <2>3. cleaned \in VipInfos
    <3>1. info.remoteEndpoint \in VipInfos /\ InfoOK(info.remoteEndpoint)
      BY <1>2, <1>4 DEF ServiceOK, ServiceInfos
    <3> QED BY <1>4, <3>1, CleanupEffect DEF VipInfos, MapsOK
  <2>4. /\ i1 \in ServiceInfos /\ i1.base = info.base /\ i1.hnsID = None
        /\ i1.nodePorthnsID = None /\ i1.remoteEndpoint = cleaned
    BY <1>2, <1>4, <2>2, <2>3 DEF ServiceInfo, ServiceInfos
  <2>5. i2 = ServiceInfo(i1.base, i1.hnsID, i1.nodePorthnsID, FALSE, i1.remoteEndpoint)
    BY <2>4, ServiceFields, Zenon
  <2> HIDE DEF i2
  <2> QED BY <2>1, <2>4, <2>5
<1> QED
  <2>1. \/ /\ info = None
           /\ UNCHANGED <<serviceMap, endPointsRefCount, hnsEndpoints, policies, undeleted>>
        \/ /\ info # None /\ info.remoteEndpoint = None
           /\ serviceMap' = [serviceMap EXCEPT ![svc].policyApplied = FALSE]
           /\ UNCHANGED <<endPointsRefCount, hnsEndpoints, policies, undeleted>>
        \/ /\ info # None /\ info.remoteEndpoint # None
           /\ \E cleaned : /\ Cleanup(info.remoteEndpoint, cleaned)
                           /\ serviceMap' = [serviceMap EXCEPT ![svc].remoteEndpoint = cleaned,
                                                               ![svc].policyApplied = FALSE]
    BY Zenon DEF CleanupRemoteEndpoint, svcInfo
  <2>2. CASE /\ info # None /\ info.remoteEndpoint # None
             /\ \E cleaned : /\ Cleanup(info.remoteEndpoint, cleaned)
                             /\ serviceMap' = [serviceMap EXCEPT ![svc].remoteEndpoint = cleaned,
                                                                 ![svc].policyApplied = FALSE]
    <3>1. \E cleaned : /\ Cleanup(info.remoteEndpoint, cleaned)
                       /\ serviceMap' = [serviceMap EXCEPT ![svc] = new(cleaned)]
      BY <1>4, <2>2, Zenon
    <3> QED BY <1>1, <1>2, <2>2, <3>1
  <2> QED BY <1>1, <1>2, <1>3, <2>1, <2>2

LEMMA DoCleanupRemoteEndpoint ==
    ASSUME IInv, CleanupRemoteEndpoint, UNCHANGED <<api, network, phase, plists, sinkVars>>
    PROVE  IInv'
<1> DEFINE svc == task.svc
           info == serviceMap[svc]
           new(remote) == ServiceInfo(info.base, None, None, FALSE, remote)
<1> USE DEF IInv
<1>1. /\ At("endpoints") /\ task # None /\ task' = NextPass(task) /\ UNCHANGED endpointsMap
      /\ svc \in ServicePortNames /\ endPointsRefCount \in [EndpointIds -> Uint16]
  BY CleanupRemoteIs DEF MapsOK
<1>2. info # None => /\ info \in ServiceInfos /\ ServiceOK(info)
                     /\ info.hnsID = None /\ info.nodePorthnsID = None /\ info.base \in BaseInfos
  BY CleanupRemoteIs
<1>3. CASE /\ UNCHANGED <<serviceMap, endPointsRefCount, hnsEndpoints, policies, undeleted>>
  <2>1. TaskOK'
    BY <1>1, <1>3, NextPassOK DEF svcInfo
  <2> QED BY <1>1, <1>3, <2>1, OnlyTask
<1>4. ASSUME info # None, NEW remote \in VipInfos \cup {None},
             remote # None => remote.ip = info.base.clusterIP /\ InfoOK(remote),
             serviceMap' = [serviceMap EXCEPT ![svc] =
                ServiceInfo(info.base, None, None, FALSE, remote)],
             HnsOK', endPointsRefCount' \in [EndpointIds -> Uint16], UNCHANGED policies,
             undeleted' \subseteq PolicyIds \cup EndpointIds,
             \A id \in PolicyIds : policies[id] # None /\ id \in undeleted => id \in undeleted'
      PROVE  IInv'
  <2> DEFINE i == ServiceInfo(info.base, None, None, FALSE, remote)
  <2>1. /\ i \in ServiceInfos
        /\ i.base = info.base /\ i.hnsID = None /\ i.nodePorthnsID = None
        /\ i.remoteEndpoint = remote /\ i.policyApplied = FALSE
    BY <1>2, <1>4 DEF ServiceInfos, ServiceInfo
  <2> HIDE DEF i
  <2>2. ServiceOK(i) /\ i # None
    BY <1>4, <2>1, NotNone DEF ServiceOK
  <2>3. /\ MapsOK' /\ serviceMap'[svc] = i
        /\ \A other \in ServicePortNames \ {svc} : serviceMap'[other] = serviceMap[other]
    <3>1. serviceMap' = [serviceMap EXCEPT ![svc] = i]
      BY <1>4 DEF i
    <3> QED BY <1>1, <1>4, <2>2, <3>1, SetService1
  <2>4. TaskOK'
    BY <1>1, <1>2, <1>4, <2>1, <2>2, <2>3, NextPassOK DEF svcInfo
  <2>5. PoliciesOK' /\ LeftOK'
    <3>1. \A s \in ServicePortNames :
              /\ serviceMap'[s] = None <=> serviceMap[s] = None
              /\ serviceMap[s] # None =>
                    /\ serviceMap'[s].base = serviceMap[s].base
                    /\ serviceMap'[s].hnsID = serviceMap[s].hnsID
                    /\ serviceMap'[s].nodePorthnsID = serviceMap[s].nodePorthnsID
      BY <1>2, <1>4, <2>1, <2>2, <2>3
    <3> QED BY <1>1, <1>4, <3>1, KeepPolicies
  <2>6. PhaseOK' /\ SinkOK'
    BY <1>4 DEF PhaseOK, SinkOK, sinkVars
  <2> QED BY <1>4, <2>3, <2>4, <2>5, <2>6
<1>5. CASE /\ info # None /\ info.remoteEndpoint = None
           /\ serviceMap' = [serviceMap EXCEPT ![svc] = new(None)]
           /\ UNCHANGED <<endPointsRefCount, hnsEndpoints, policies, undeleted>>
  <2>1. /\ HnsOK' /\ endPointsRefCount' \in [EndpointIds -> Uint16]
        /\ undeleted' \subseteq PolicyIds \cup EndpointIds
    BY <1>1, <1>5 DEF HnsOK, PhaseOK
  <2> QED BY <1>4, <1>5, <2>1
<1>6. ASSUME /\ info # None /\ info.remoteEndpoint # None,
             NEW cleaned, Cleanup(info.remoteEndpoint, cleaned),
             serviceMap' = [serviceMap EXCEPT ![svc] = new(cleaned)]
      PROVE  IInv'
  <2>1. /\ info.remoteEndpoint \in VipInfos /\ info.remoteEndpoint.ip = info.base.clusterIP
        /\ InfoOK(info.remoteEndpoint)
    BY <1>2, <1>6 DEF ServiceOK, ServiceInfos
  <2>2. /\ cleaned \in VipInfos /\ cleaned.ip = info.base.clusterIP /\ InfoOK(cleaned)
        /\ HnsOK' /\ endPointsRefCount' \in [EndpointIds -> Uint16] /\ UNCHANGED policies
        /\ undeleted' \subseteq PolicyIds \cup EndpointIds
        /\ \A id \in PolicyIds : policies[id] # None /\ id \in undeleted => id \in undeleted'
    BY <1>1, <1>6, <2>1, CleanupEffect DEF VipInfos
  <2> QED BY <1>4, <1>6, <2>2
<1> QED
  <2>1. \/ UNCHANGED <<serviceMap, endPointsRefCount, hnsEndpoints, policies, undeleted>>
        \/ /\ info # None /\ info.remoteEndpoint = None
           /\ serviceMap' = [serviceMap EXCEPT ![svc] = new(None)]
           /\ UNCHANGED <<endPointsRefCount, hnsEndpoints, policies, undeleted>>
        \/ /\ info # None /\ info.remoteEndpoint # None
           /\ \E cleaned : /\ Cleanup(info.remoteEndpoint, cleaned)
                           /\ serviceMap' = [serviceMap EXCEPT ![svc] = new(cleaned)]
    BY CleanupRemoteIs
  <2> QED BY <1>3, <1>5, <1>6, <2>1, Zenon

\* A service whose ids are forgotten has no load balancers, so that it may be
\* replaced, and its endpoints too.
LEMMA DoApplyChange ==
    ASSUME IInv, ApplyChange, UNCHANGED <<api, network, phase, plists, sinkVars>>
    PROVE  IInv'
<1> DEFINE svc == task.svc
           info == serviceMap[svc]
<1> USE DEF IInv
<1>1. /\ task # None /\ task.stage = "apply" /\ task' = None
      /\ UNCHANGED <<endPointsRefCount, hnsEndpoints, policies, undeleted>>
      /\ svc \in ServicePortNames
      /\ info # None => info.hnsID = None /\ info.nodePorthnsID = None
  BY TaskFacts DEF ApplyChange, At, TaskOK, svcInfo
<1>2. PhaseOK' /\ HnsOK' /\ SinkOK' /\ TaskOK' /\ endPointsRefCount' \in [EndpointIds -> Uint16]
  BY <1>1 DEF PhaseOK, HnsOK, SinkOK, TaskOK, MapsOK, sinkVars
<1>3. ASSUME MapsOK', NEW new, serviceMap'[svc] = new,
             new # None => new.hnsID = None /\ new.nodePorthnsID = None,
             \A other \in ServicePortNames \ {svc} :
                serviceMap'[other] = serviceMap[other] /\ endpointsMap'[other] = endpointsMap[other]
      PROVE  PoliciesOK' /\ LeftOK'
  <2>1. PoliciesOK'
    BY <1>1, <1>3 DEF PoliciesOK, Exists
  <2>2. \A s \in ServicePortNames : Owned(s)' = Owned(s)
    <3> SUFFICES ASSUME NEW s \in ServicePortNames PROVE Owned(s)' = Owned(s)
      OBVIOUS
    <3>1. CASE s = svc
      BY <1>1, <1>3, <3>1 DEF Owned
    <3>2. CASE s # svc
      BY <1>3, <3>2 DEF Owned
    <3> QED BY <3>1, <3>2
  <2>3. LeftOK'
    BY <1>1, <2>2 DEF LeftOK, Exists
  <2> QED BY <2>1, <2>3
<1>4. CASE task.op = "service"
  <2> DEFINE new == IF task.change = None THEN None ELSE newServiceInfo(task.change)
  <2>1. serviceMap' = [serviceMap EXCEPT ![svc] = new] /\ UNCHANGED endpointsMap
    BY <1>4 DEF ApplyChange
  <2>2. task.change \in BaseInfos \cup {None}
    BY <1>1, <1>4, TaskFacts DEF Tasks
  <2>3. ServiceOK(new) /\ (new # None => new.hnsID = None /\ new.nodePorthnsID = None)
    BY <2>2 DEF ServiceOK, newServiceInfo, ServiceInfos
  <2> HIDE DEF new
  <2>4. /\ MapsOK' /\ serviceMap'[svc] = new
        /\ \A other \in ServicePortNames \ {svc} : serviceMap'[other] = serviceMap[other]
    BY <1>1, <1>2, <2>1, <2>3, SetService1
  <2> QED BY <1>2, <1>3, <2>1, <2>3, <2>4
<1>5. CASE task.op = "endpoints"
  <2>0. PICK ready \in SUBSET task.change :
           endpointsMap' = [endpointsMap EXCEPT ![task.svc] =
              [ip \in task.change |-> newEndpointInfo(ip, ip \in ready)]]
    BY <1>5 DEF ApplyChange
  <2> DEFINE infos == [ip \in task.change |-> newEndpointInfo(ip, ip \in ready)]
  <2>1. endpointsMap' = [endpointsMap EXCEPT ![svc] = infos] /\ UNCHANGED serviceMap
    BY <1>5, <2>0 DEF ApplyChange
  <2>2. task.change \subseteq IPs
    BY <1>1, <1>5, TaskFacts DEF Tasks
  <2>3. EndpointsOK(infos)
    <3>1. Own \notin EndpointIds
      BY NoneAssumption DEF EndpointIds
    <3> QED BY <2>2, <3>1 DEF EndpointsOK, newEndpointInfo, endpointsInfos, InfoOK
  <2> HIDE DEF infos
  <2>4. /\ endpointsMap' = [s \in ServicePortNames |-> endpointsMap'[s]]
        /\ endpointsMap'[svc] = infos
        /\ \A other \in ServicePortNames \ {svc} : endpointsMap'[other] = endpointsMap[other]
    BY <1>1, <2>1 DEF MapsOK
  <2>5. \A s \in ServicePortNames : EndpointsOK(endpointsMap'[s])
    BY <2>3, <2>4 DEF MapsOK
  <2>6. MapsOK'
    BY <1>2, <2>1, <2>4, <2>5 DEF MapsOK
  <2>7. /\ serviceMap'[svc] = info
        /\ \A other \in ServicePortNames \ {svc} :
              serviceMap'[other] = serviceMap[other] /\ endpointsMap'[other] = endpointsMap[other]
    BY <2>1, <2>4
  <2> QED BY <1>1, <1>2, <1>3, <2>6, <2>7
<1> QED BY <1>4, <1>5 DEF ApplyChange

-----------------------------------------------------------------------------
(***************************************************************************)
(* The synchronization of a service.                                       *)
(***************************************************************************)
\* HNS refuses to create.
LEMMA CreateFails ==
    ASSUME NEW ip, createEndpoint(Remote(ip), None)
    PROVE  UNCHANGED hnsEndpoints
<1> QED BY DEF createEndpoint, V1!createEndpoint, V2!createEndpoint

LEMMA NewId ==
    ASSUME NEW ip, NEW id \in NewIds(ip), id # None
    PROVE  id \in RemoteIds /\ id \in EndpointIds /\ id = Least(Unused(ip)) /\ Unused(ip) # {}
<1>1. id = Least(Unused(ip)) /\ Unused(ip) # {}
  BY DEF NewIds
<1> QED BY <1>1, UnusedId DEF EndpointIds

\* A created endpoint is remote and in the network.
LEMMA CreatedOK ==
    ASSUME PhaseOK, HnsOK, NEW ip, NEW id \in RemoteIds, createEndpoint(Remote(ip), id)
    PROVE  /\ HnsOK'
           /\ CreatedEndpoint(Remote(ip), id) = [hnsID |-> id, ip |-> ip, isLocal |-> api = "V1"]
<1>1. /\ network # None
      /\ hnsEndpoints' = [hnsEndpoints EXCEPT ![id] =
            [ips |-> <<ip>>, remote |-> TRUE, network |-> network]]
      /\ CreatedEndpoint(Remote(ip), id) = [hnsID |-> id, ip |-> ip, isLocal |-> api = "V1"]
  BY Create, NotNone DEF EndpointIds
<1> DEFINE new == [ips |-> <<ip>>, remote |-> TRUE, network |-> network]
<1>2. new.network \in Networks /\ new.remote = TRUE
  BY <1>1 DEF PhaseOK
<1>3. id \in EndpointIds /\ hnsEndpoints' = [hnsEndpoints EXCEPT ![id] = new]
  BY <1>1 DEF EndpointIds
<1> HIDE DEF new
<1>4. /\ hnsEndpoints' = [i \in EndpointIds |-> hnsEndpoints'[i]]
      /\ hnsEndpoints'[id] = new
      /\ \A i \in EndpointIds \ {id} : hnsEndpoints'[i] = hnsEndpoints[i]
  BY <1>3 DEF HnsOK
<1>5. HnsOK'
  BY <1>2, <1>4 DEF HnsOK
<1> QED BY <1>1, <1>5

LEMMA CountedOK ==
    ASSUME endPointsRefCount \in [EndpointIds -> Uint16], NEW id \in EndpointIds, Counted(id)
    PROVE  endPointsRefCount' \in [EndpointIds -> Uint16]
<1>1. endPointsRefCount[id] \in Uint16
  OBVIOUS
<1>2. Incremented(endPointsRefCount[id]) \in Uint16
  BY <1>1, IncrementedIs
<1> QED BY <1>2 DEF Counted

\* The service of a synchronization keeps its identity.
LEMMA SyncFacts ==
    ASSUME MapsOK, TaskOK, task # None, task.stage \in {"vip", "acquire", "node port"}
    PROVE  /\ task.op = "sync" /\ task.svc \in ServicePortNames
           /\ svcInfo # None /\ svcInfo \in ServiceInfos /\ ServiceOK(svcInfo)
           /\ ~svcInfo.policyApplied /\ svcInfo.nodePorthnsID = None /\ svcInfo.base \in BaseInfos
           /\ task \in Tasks(BaseInfos \cup {None})
           /\ DOMAIN endpointsMap[task.svc] \subseteq IPs
<1>1. task.op = "sync"
  BY DEF TaskOK
<1>2. svcInfo # None /\ ~svcInfo.policyApplied
  BY <1>1 DEF TaskOK
<1>3. /\ task.svc \in ServicePortNames /\ svcInfo \in ServiceInfos
      /\ task \in Tasks(BaseInfos \cup {None}) /\ EndpointsOK(endpointsMap[task.svc])
  BY <1>1, <1>2, TaskFacts
<1>4. ServiceOK(svcInfo)
  BY <1>3 DEF MapsOK, svcInfo
<1>5. svcInfo.nodePorthnsID = None
  BY <1>2, <1>4 DEF ServiceOK
<1>6. svcInfo.base \in BaseInfos
  BY <1>3 DEF ServiceInfos
<1> QED BY <1>1, <1>2, <1>3, <1>4, <1>5, <1>6 DEF EndpointsOK

LEMMA AcquireServiceVipIs ==
    ASSUME PhaseOK, HnsOK, MapsOK, TaskOK, AcquireServiceVip
    PROVE  LET svc == task.svc
               info == serviceMap[svc]
               vip == info.base.clusterIP
               t == TaskOf(task.op, svc, task.change, task.passes, "acquire", task.todo, task.endpoints)
           IN  /\ task # None /\ task.stage = "vip"
               /\ UNCHANGED <<endpointsMap, policies, undeleted>>
               /\ \/ task' = None /\ UNCHANGED <<serviceMap, endPointsRefCount, hnsEndpoints>>
                  \/ task' = t /\ UNCHANGED <<serviceMap, endPointsRefCount, hnsEndpoints>>
                  \/ /\ task' = t
                     /\ \E id \in RemoteIds :
                        /\ id = Least(Unused(vip)) /\ Unused(vip) # {}
                        /\ createEndpoint(Remote(vip), id) /\ Counted(id) /\ HnsOK'
                        /\ serviceMap' = [serviceMap EXCEPT ![svc] =
                              ServiceInfo(info.base, info.hnsID, info.nodePorthnsID, info.policyApplied,
                                          EndpointInfo(vip, api = "V1", id, id, FALSE))]
<1> DEFINE svc == task.svc
           info == serviceMap[svc]
           vip == info.base.clusterIP
           goOn == task' = [task EXCEPT !.stage = "acquire"]
           t == TaskOf(task.op, svc, task.change, task.passes, "acquire", task.todo, task.endpoints)
<1>1. /\ task # None /\ task.stage = "vip"
      /\ UNCHANGED <<endpointsMap, policies, undeleted>>
  BY DEF AcquireServiceVip, At
<1>2. goOn => task' = t
  <2>1. task = TaskOf(task.op, svc, task.change, task.passes, task.stage, task.todo, task.endpoints)
    BY <1>1, TaskFacts
  <2> QED BY <1>1, <2>1 DEF TaskOf
<1>3. \/ goOn /\ UNCHANGED <<serviceMap, endPointsRefCount, hnsEndpoints>>
      \/ \E id \in NewIds(vip) :
            /\ createEndpoint(Remote(vip), id)
            /\ \/ /\ id = None /\ task' = None
                  /\ UNCHANGED <<serviceMap, endPointsRefCount>>
               \/ /\ id # None /\ goOn /\ Counted(id)
                  /\ serviceMap' = [serviceMap EXCEPT ![svc].remoteEndpoint =
                        [ip |-> vip, isLocal |-> CreatedEndpoint(Remote(vip), id).isLocal,
                         hnsID |-> id, refCount |-> id, ready |-> FALSE]]
  BY Zenon DEF AcquireServiceVip, svcInfo
<1> HIDE DEF goOn
<1>4. CASE goOn /\ UNCHANGED <<serviceMap, endPointsRefCount, hnsEndpoints>>
  BY <1>1, <1>2, <1>4
<1>5. ASSUME NEW id \in NewIds(vip), createEndpoint(Remote(vip), id), id = None, task' = None,
             UNCHANGED <<serviceMap, endPointsRefCount>>
      PROVE  UNCHANGED <<serviceMap, endPointsRefCount, hnsEndpoints>>
  BY <1>5, CreateFails
<1>6. ASSUME NEW id \in NewIds(vip), createEndpoint(Remote(vip), id), id # None,
             serviceMap' = [serviceMap EXCEPT ![svc].remoteEndpoint =
                [ip |-> vip, isLocal |-> CreatedEndpoint(Remote(vip), id).isLocal,
                 hnsID |-> id, refCount |-> id, ready |-> FALSE]]
      PROVE  /\ id \in RemoteIds /\ id = Least(Unused(vip)) /\ Unused(vip) # {} /\ HnsOK'
             /\ serviceMap' = [serviceMap EXCEPT ![svc] =
                   ServiceInfo(info.base, info.hnsID, info.nodePorthnsID, info.policyApplied,
                               EndpointInfo(vip, api = "V1", id, id, FALSE))]
  <2> DEFINE remote == EndpointInfo(vip, api = "V1", id, id, FALSE)
             new == ServiceInfo(info.base, info.hnsID, info.nodePorthnsID, info.policyApplied, remote)
  <2>1. id \in RemoteIds /\ id = Least(Unused(vip)) /\ Unused(vip) # {}
    BY <1>6, NewId
  <2>2. HnsOK' /\ CreatedEndpoint(Remote(vip), id) = [hnsID |-> id, ip |-> vip, isLocal |-> api = "V1"]
    BY <1>6, <2>1, CreatedOK
  <2>3. serviceMap' = [serviceMap EXCEPT ![svc].remoteEndpoint = remote]
    BY <1>6, <2>2 DEF EndpointInfo
  <2> HIDE DEF remote
  <2>4. svc \in ServicePortNames /\ info \in ServiceInfos
    BY <1>1, SyncFacts DEF svcInfo
  <2>5. serviceMap' = [serviceMap EXCEPT ![svc] = [info EXCEPT !.remoteEndpoint = remote]]
    BY <2>3, <2>4 DEF MapsOK
  <2>6. [info EXCEPT !.remoteEndpoint = remote] = new
    BY <2>4, ServiceFields, Zenon
  <2>7. serviceMap' = [serviceMap EXCEPT ![svc] = new]
    <3> HIDE DEF new
    <3> QED BY <2>5, <2>6
  <2> QED BY <2>1, <2>2, <2>7 DEF remote
<1>7. CASE \E id \in NewIds(vip) :
             /\ createEndpoint(Remote(vip), id)
             /\ \/ /\ id = None /\ task' = None
                   /\ UNCHANGED <<serviceMap, endPointsRefCount>>
                \/ /\ id # None /\ goOn /\ Counted(id)
                   /\ serviceMap' = [serviceMap EXCEPT ![svc].remoteEndpoint =
                         [ip |-> vip, isLocal |-> CreatedEndpoint(Remote(vip), id).isLocal,
                          hnsID |-> id, refCount |-> id, ready |-> FALSE]]
  <2>1. PICK id \in NewIds(vip) :
             /\ createEndpoint(Remote(vip), id)
             /\ \/ /\ id = None /\ task' = None
                   /\ UNCHANGED <<serviceMap, endPointsRefCount>>
                \/ /\ id # None /\ goOn /\ Counted(id)
                   /\ serviceMap' = [serviceMap EXCEPT ![svc].remoteEndpoint =
                         [ip |-> vip, isLocal |-> CreatedEndpoint(Remote(vip), id).isLocal,
                          hnsID |-> id, refCount |-> id, ready |-> FALSE]]
    BY <1>7
  <2>2. CASE id = None
    BY <1>1, <1>5, <2>1, <2>2
  <2>3. CASE id # None
    BY <1>1, <1>2, <1>6, <2>1, <2>3
  <2> QED BY <2>2, <2>3
<1> QED BY <1>3, <1>4, <1>7

LEMMA DoAcquireServiceVip ==
    ASSUME IInv, AcquireServiceVip, UNCHANGED <<api, network, phase, plists, sinkVars>>
    PROVE  IInv'
<1> DEFINE svc == task.svc
           info == serviceMap[svc]
           vip == info.base.clusterIP
           t == TaskOf(task.op, svc, task.change, task.passes, "acquire", task.todo, task.endpoints)
           remote(id) == EndpointInfo(vip, api = "V1", id, id, FALSE)
           new(id) == ServiceInfo(info.base, info.hnsID, info.nodePorthnsID, info.policyApplied, remote(id))
<1> USE DEF IInv
<1>1. /\ task # None /\ task.stage = "vip"
      /\ UNCHANGED <<endpointsMap, policies, undeleted>>
  BY AcquireServiceVipIs
<1>2. /\ task.op = "sync" /\ svc \in ServicePortNames
      /\ info # None /\ info \in ServiceInfos /\ ServiceOK(info)
      /\ ~info.policyApplied /\ info.nodePorthnsID = None /\ info.base \in BaseInfos
  BY <1>1, SyncFacts DEF svcInfo
<1>3. /\ t \in Tasks(BaseInfos \cup {None})
      /\ t.op = "sync" /\ t.svc = svc /\ t.stage = "acquire" /\ t.todo = task.todo
      /\ t.endpoints = task.endpoints
  <2>1. task \in Tasks(BaseInfos \cup {None})
    BY <1>1, SyncFacts
  <2>2. t \in Tasks(BaseInfos \cup {None})
    BY <2>1 DEF TaskOf, Tasks
  <2>3. /\ t.op = task.op /\ t.svc = svc /\ t.stage = "acquire" /\ t.todo = task.todo
        /\ t.endpoints = task.endpoints
    BY DEF TaskOf
  <2> HIDE DEF t
  <2> QED BY <1>2, <2>2, <2>3
<1> HIDE DEF t
<1>4. ASSUME task' = t, serviceMap'[svc] # None, ~serviceMap'[svc].policyApplied PROVE TaskOK'
  BY <1>1, <1>2, <1>3, <1>4 DEF TaskOK, svcInfo
<1>5. PhaseOK' /\ SinkOK'
  BY <1>1 DEF PhaseOK, SinkOK, sinkVars
<1>6. CASE task' = t /\ UNCHANGED <<serviceMap, endPointsRefCount, hnsEndpoints>>
  <2>1. TaskOK'
    BY <1>2, <1>4, <1>6
  <2> QED BY <1>1, <1>6, <2>1, OnlyTask
<1>7. ASSUME task' = t, NEW id \in RemoteIds, Counted(id), HnsOK',
             serviceMap' = [serviceMap EXCEPT ![svc] = new(id)]
      PROVE  IInv'
  <2> DEFINE r == remote(id)
             i == new(id)
  <2>1. id \in EndpointIds
    BY DEF EndpointIds
  <2>2. r \in VipInfos /\ r.ip = vip /\ InfoOK(r)
    BY <1>2, <2>1, NotNone DEF EndpointInfo, VipInfos, endpointsInfos, InfoOK
  <2> HIDE DEF remote
  <2>3. /\ i \in ServiceInfos /\ i.base = info.base /\ i.hnsID = info.hnsID
        /\ i.nodePorthnsID = None /\ i.policyApplied = FALSE
        /\ i.remoteEndpoint = r
    BY <1>2, <2>2 DEF ServiceInfo, ServiceInfos
  <2> HIDE DEF new
  <2>4. ServiceOK(i) /\ i # None
    <3> HIDE DEF i, r
    <3>1. info.hnsID # None => info.base.nodePort # 0
      BY <1>2 DEF ServiceOK
    <3> QED BY <2>2, <2>3, <3>1, NotNone DEF ServiceOK
  <2>5. endPointsRefCount' \in [EndpointIds -> Uint16]
    BY <1>7, <2>1, CountedOK DEF MapsOK
  <2>6. /\ MapsOK' /\ serviceMap'[svc] = i
        /\ \A other \in ServicePortNames \ {svc} : serviceMap'[other] = serviceMap[other]
    BY <1>1, <1>2, <1>7, <2>4, <2>5, SetService1
  <2> HIDE DEF i
  <2>7. TaskOK'
    BY <1>4, <1>7, <2>3, <2>4, <2>6
  <2>8. PoliciesOK' /\ LeftOK'
    <3>1. \A s \in ServicePortNames :
              /\ serviceMap'[s] = None <=> serviceMap[s] = None
              /\ serviceMap[s] # None =>
                    /\ serviceMap'[s].base = serviceMap[s].base
                    /\ serviceMap'[s].hnsID = serviceMap[s].hnsID
                    /\ serviceMap'[s].nodePorthnsID = serviceMap[s].nodePorthnsID
      BY <1>2, <2>3, <2>4, <2>6
    <3> QED BY <1>1, <3>1, KeepPolicies
  <2> QED BY <1>5, <1>7, <2>6, <2>7, <2>8
<1> QED
  <2>1. \/ task' = None /\ UNCHANGED <<serviceMap, endPointsRefCount, hnsEndpoints>>
        \/ task' = t /\ UNCHANGED <<serviceMap, endPointsRefCount, hnsEndpoints>>
        \/ /\ task' = t
           /\ \E id \in RemoteIds : /\ Counted(id) /\ HnsOK'
                                    /\ serviceMap' = [serviceMap EXCEPT ![svc] = new(id)]
    BY AcquireServiceVipIs DEF t
  <2>2. CASE task' = None /\ UNCHANGED <<serviceMap, endPointsRefCount, hnsEndpoints>>
    BY <1>1, <2>2, DoEndSync
  <2> QED BY <1>6, <1>7, <2>1, <2>2, Zenon

\* Take gives the info the id of the endpoint and counts a remote one.
LEMMA TakeIs ==
    ASSUME MapsOK, TaskOK, At("acquire"), NEW ip \in task.todo, NEW ep,
           ep.hnsID \in EndpointIds, ep.isLocal \in BOOLEAN, Take(ip, ep)
    PROVE  LET svc == task.svc
               info == endpointsMap[svc][ip]
               c == IF ep.isLocal THEN info.refCount ELSE ep.hnsID
           IN  /\ ip \in DOMAIN endpointsMap[svc]
               /\ info \in endpointsInfos({ip}) /\ InfoOK(info)
               /\ endpointsMap' = [endpointsMap EXCEPT ![svc][ip] =
                                      EndpointInfo(ip, info.isLocal, ep.hnsID, c, info.ready)]
               /\ IF ep.isLocal THEN UNCHANGED endPointsRefCount ELSE Counted(ep.hnsID)
               /\ task' = TaskOf(task.op, svc, task.change, task.passes, task.stage, task.todo \ {ip},
                                 task.endpoints \cup {[ip |-> ip, hnsID |-> ep.hnsID]})
<1> DEFINE svc == task.svc
           info == endpointsMap[svc][ip]
           c == IF ep.isLocal THEN info.refCount ELSE ep.hnsID
           i0 == [info EXCEPT !.hnsID = ep.hnsID]
           i1 == [i0 EXCEPT !.refCount = c]
           t1 == [task EXCEPT !.todo = task.todo \ {ip}]
           t2 == [t1 EXCEPT !.endpoints = t1.endpoints \cup {[ip |-> ip, hnsID |-> ep.hnsID]}]
<1>1. /\ task # None /\ svc \in ServicePortNames /\ ip \in DOMAIN endpointsMap[svc]
      /\ task = TaskOf(task.op, svc, task.change, task.passes, task.stage, task.todo, task.endpoints)
      /\ EndpointsOK(endpointsMap[svc])
  BY TaskFacts DEF At, TaskOK
<1>2. info \in endpointsInfos({ip}) /\ InfoOK(info) /\ info.ip = ip
      /\ c \in Counters
  BY <1>1 DEF EndpointsOK, endpointsInfos, Counters
<1>3. endpointsMap' = [endpointsMap EXCEPT ![svc][ip] = i1]
  <2> DEFINE f == [endpointsMap EXCEPT ![svc][ip].hnsID = ep.hnsID]
  <2>1. endpointsMap' = [f EXCEPT ![svc][ip].refCount = IF ep.isLocal THEN f[svc][ip].refCount ELSE ep.hnsID]
    BY DEF Take
  <2>2. f = [endpointsMap EXCEPT ![svc][ip] = i0] /\ f[svc][ip] = i0 /\ i0.refCount = info.refCount
    BY <1>1, <1>2 DEF MapsOK, EndpointsOK, endpointsInfos
  <2> HIDE DEF f, i0
  <2>3. endpointsMap' = [f EXCEPT ![svc][ip] = i1]
    BY <2>1, <2>2
  <2> HIDE DEF i1
  <2> QED BY <1>1, <2>2, <2>3 DEF MapsOK, EndpointsOK
<1>4. i1 = EndpointInfo(ip, info.isLocal, ep.hnsID, c, info.ready)
  <2> HIDE DEF c
  <2>1. i1 = EndpointInfo(info.ip, info.isLocal, ep.hnsID, c, info.ready)
    <3>1. i0 = EndpointInfo(info.ip, info.isLocal, ep.hnsID, info.refCount, info.ready)
      BY <1>2, EndpointFields, Zenon
    <3> HIDE DEF i0
    <3> QED BY <3>1 DEF EndpointInfo
  <2> HIDE DEF i1
  <2> QED BY <1>2, <2>1
<1>5. task' = t2
  BY Zenon DEF Take
<1>6. t1 = TaskOf(task.op, svc, task.change, task.passes, task.stage, task.todo \ {ip}, task.endpoints)
  BY <1>1 DEF TaskOf
<1> HIDE DEF t1
<1>7. t1.endpoints = task.endpoints
  BY <1>6 DEF TaskOf
<1>8. t2 = TaskOf(task.op, svc, task.change, task.passes, task.stage, task.todo \ {ip},
                  task.endpoints \cup {[ip |-> ip, hnsID |-> ep.hnsID]})
  BY <1>6, <1>7 DEF TaskOf
<1> HIDE DEF t2, i1
<1>9. IF ep.isLocal THEN UNCHANGED endPointsRefCount ELSE Counted(ep.hnsID)
  BY DEF Take
<1> QED BY <1>1, <1>2, <1>3, <1>4, <1>5, <1>8, <1>9

LEMMA TakeOK ==
    ASSUME IInv, At("acquire"), NEW ip \in task.todo, NEW ep,
           ep.hnsID \in EndpointIds, ep.isLocal \in BOOLEAN, Take(ip, ep),
           HnsOK', UNCHANGED <<serviceMap, policies, undeleted>>,
           UNCHANGED <<api, network, phase, plists, sinkVars>>
    PROVE  IInv'
<1> DEFINE svc == task.svc
           info == endpointsMap[svc][ip]
           c == IF ep.isLocal THEN info.refCount ELSE ep.hnsID
           new == EndpointInfo(ip, info.isLocal, ep.hnsID, c, info.ready)
           e0 == [ip |-> ip, hnsID |-> ep.hnsID]
           t == TaskOf(task.op, svc, task.change, task.passes, task.stage, task.todo \ {ip},
                       task.endpoints \cup {e0})
<1> USE DEF IInv
<1>1. /\ ip \in DOMAIN endpointsMap[svc] /\ info \in endpointsInfos({ip}) /\ InfoOK(info)
      /\ endpointsMap' = [endpointsMap EXCEPT ![svc][ip] = new]
      /\ IF ep.isLocal THEN UNCHANGED endPointsRefCount ELSE Counted(ep.hnsID)
      /\ task' = t
  BY TakeIs
<1>2. /\ task # None /\ task.stage = "acquire" /\ task.op = "sync" /\ svc \in ServicePortNames
      /\ svcInfo # None /\ ~svcInfo.policyApplied /\ task \in Tasks(BaseInfos \cup {None})
      /\ DOMAIN endpointsMap[svc] \subseteq IPs
  <2>1. task # None /\ task.stage = "acquire"
    BY DEF At
  <2> QED BY <2>1, SyncFacts
<1>3. new \in endpointsInfos({ip}) /\ InfoOK(new)
  BY <1>1, NotNone DEF endpointsInfos, EndpointInfo, InfoOK
<1>4. endPointsRefCount' \in [EndpointIds -> Uint16]
  BY <1>1, CountedOK DEF MapsOK
<1>5. MapsOK' /\ \A s \in ServicePortNames : DOMAIN endpointsMap'[s] = DOMAIN endpointsMap[s]
  <2> HIDE DEF new
  <2> QED BY <1>1, <1>2, <1>3, <1>4, SetEndpoint1
<1>6. /\ t \in Tasks(BaseInfos \cup {None})
      /\ t.op = "sync" /\ t.svc = svc /\ t.stage = "acquire" /\ t.todo = task.todo \ {ip}
      /\ t.endpoints = task.endpoints \cup {e0}
  <2>1. e0 \in [ip : IPs, hnsID : EndpointIds]
    BY <1>1, <1>2
  <2> HIDE DEF e0
  <2>2. t \in Tasks(BaseInfos \cup {None})
    <3>1. task \in Tasks(BaseInfos \cup {None})
      BY <1>2
    <3> QED BY <2>1, <3>1 DEF TaskOf, Tasks
  <2>3. /\ t.op = task.op /\ t.svc = svc /\ t.stage = task.stage /\ t.todo = task.todo \ {ip}
        /\ t.endpoints = task.endpoints \cup {e0}
    BY DEF TaskOf
  <2> HIDE DEF t
  <2> QED BY <1>2, <2>2, <2>3
<1> HIDE DEF t
<1>7. TaskOK'
  <2> DEFINE D == DOMAIN endpointsMap[svc]
  <2>1. /\ \A e \in task.endpoints : e.ip \in D \ task.todo
        /\ task.todo \subseteq D
    BY <1>2 DEF TaskOK
  <2>2. e0.ip = ip
    OBVIOUS
  <2> HIDE DEF e0
  <2>3. \A e \in t.endpoints : e.ip \in D \ t.todo
    BY <1>1, <1>6, <2>1, <2>2
  <2>4. t.todo \subseteq D
    BY <1>6, <2>1
  <2>5. DOMAIN endpointsMap'[svc] = D
    BY <1>2, <1>5
  <2> HIDE DEF D
  <2> QED BY <1>1, <1>2, <1>6, <2>3, <2>4, <2>5 DEF TaskOK, svcInfo
<1>8. PhaseOK' /\ SinkOK'
  BY DEF PhaseOK, SinkOK, sinkVars
<1>9. PoliciesOK' /\ LeftOK'
  BY <1>5, KeepPolicies
<1> QED BY <1>5, <1>7, <1>8, <1>9

\* Skip only handles the address.
LEMMA SkipIs ==
    ASSUME MapsOK, TaskOK, At("acquire"), NEW ip, Skip(ip)
    PROVE  /\ task' = TaskOf(task.op, task.svc, task.change, task.passes, task.stage,
                             task.todo \ {ip}, task.endpoints)
           /\ UNCHANGED <<endpointsMap, endPointsRefCount>>
<1>1. task = TaskOf(task.op, task.svc, task.change, task.passes, task.stage, task.todo, task.endpoints)
  BY TaskFacts DEF At
<1> QED BY <1>1 DEF Skip, TaskOf

LEMMA SkipOK ==
    ASSUME IInv, At("acquire"), NEW ip, Skip(ip),
           UNCHANGED <<serviceMap, hnsEndpoints, policies, undeleted>>,
           UNCHANGED <<api, network, phase, plists, sinkVars>>
    PROVE  IInv'
<1> DEFINE t == TaskOf(task.op, task.svc, task.change, task.passes, task.stage,
                       task.todo \ {ip}, task.endpoints)
<1> USE DEF IInv
<1>1. task' = t /\ UNCHANGED <<endpointsMap, endPointsRefCount>>
  BY SkipIs
<1>2. /\ task # None /\ task.stage = "acquire" /\ task.op = "sync"
      /\ task \in Tasks(BaseInfos \cup {None})
  <2>1. task # None /\ task.stage = "acquire"
    BY DEF At
  <2> QED BY <2>1, SyncFacts
<1>3. /\ t \in Tasks(BaseInfos \cup {None})
      /\ t.op = "sync" /\ t.svc = task.svc /\ t.stage = "acquire" /\ t.todo = task.todo \ {ip}
      /\ t.endpoints = task.endpoints
  <2>1. task \in Tasks(BaseInfos \cup {None})
    BY <1>2
  <2>2. t \in Tasks(BaseInfos \cup {None})
    BY <2>1 DEF TaskOf, Tasks
  <2>3. /\ t.op = task.op /\ t.svc = task.svc /\ t.stage = task.stage /\ t.todo = task.todo \ {ip}
        /\ t.endpoints = task.endpoints
    BY DEF TaskOf
  <2> HIDE DEF t
  <2> QED BY <1>2, <2>2, <2>3
<1> HIDE DEF t
<1>4. TaskOK'
  BY <1>1, <1>2, <1>3 DEF TaskOK, svcInfo
<1> QED BY <1>1, <1>4, OnlyTask

\* What a look-up finds is in HNS; it is what the id names, unless that may fail.
LEMMA LookedUpIs ==
    ASSUME HnsOK, NEW ip, NEW id \in EndpointIds \cup {None}, NEW ep \in LookedUp(id, ip), ep # None
    PROVE  /\ ep.hnsID \in EndpointIds /\ ep.isLocal \in BOOLEAN
           /\ hnsEndpoints[ep.hnsID] # None
           /\ ep.isLocal = (ep.hnsID \notin RemoteIds)
           /\ "get" \notin World /\ getEndpointByID(id) # None => ep.hnsID = id
<1> DEFINE known == getEndpointByID(id)
<1>1. CASE ep = known
  <2>1. /\ id \in EndpointIds /\ hnsEndpoints[id] # None
        /\ ep.hnsID = id /\ ep.isLocal = ~hnsEndpoints[id].remote
    BY <1>1, Adapters
  <2>2. hnsEndpoints[id].remote = (id \in RemoteIds)
    BY <2>1 DEF HnsOK
  <2> QED BY <2>1, <2>2
<1>2. CASE ep # known
  <2>1. ep \in getEndpointByIpAddress(ip) /\ ("get" \in World \/ known = None)
    BY <1>2 DEF LookedUp
  <2>2. PICK i \in EndpointIds :
          /\ hnsEndpoints[i] # None
          /\ ep = [hnsID |-> i, ip |-> ip, isLocal |-> ~hnsEndpoints[i].remote]
    BY <2>1, Found
  <2>3. hnsEndpoints[i].remote = (i \in RemoteIds)
    BY <2>2 DEF HnsOK
  <2> QED BY <2>1, <2>2, <2>3
<1> QED BY <1>1, <1>2

\* If nothing may be found by the id, it names nothing, or that may fail.
LEMMA LookedUpNone ==
    ASSUME NEW id, NEW ip, None \in LookedUp(id, ip), "get" \notin World
    PROVE  getEndpointByID(id) = None
<1> QED BY DEF LookedUp

\* What AcquireEndpoint takes, if anything: an endpoint HNS has, or a new
\* remote one.
LEMMA AcquireEndpointIs ==
    ASSUME PhaseOK, HnsOK, MapsOK, TaskOK, NEW ip, AcquireEndpoint(ip)
    PROVE  /\ At("acquire") /\ ip \in task.todo /\ UNCHANGED <<serviceMap, policies, undeleted>>
           /\ \/ Skip(ip) /\ UNCHANGED hnsEndpoints
              \/ \E ep :
                    /\ Take(ip, ep) /\ ep.hnsID \in EndpointIds /\ ep.isLocal \in BOOLEAN
                    /\ HnsOK'
                    /\ \/ /\ UNCHANGED hnsEndpoints
                          /\ hnsEndpoints[ep.hnsID] # None
                          /\ ep.isLocal = (ep.hnsID \notin RemoteIds)
                       \/ /\ ep.hnsID = Least(Unused(ip)) /\ ep.hnsID \in RemoteIds
                          /\ Unused(ip) # {}
                          /\ createEndpoint(Remote(ip), ep.hnsID)
                          /\ ep.isLocal = (api = "V1")
                    /\ LET id == endpointsMap[task.svc][ip].hnsID
                       IN  "get" \notin World /\ getEndpointByID(id) # None => ep.hnsID = id
<1> DEFINE info == endpointsMap[task.svc][ip]
<1>1. /\ At("acquire") /\ ip \in task.todo /\ UNCHANGED <<serviceMap, policies, undeleted>>
      /\ \/ Skip(ip) /\ UNCHANGED hnsEndpoints
         \/ \E ep \in LookedUp(info.hnsID, ip) \ {None} : Take(ip, ep) /\ UNCHANGED hnsEndpoints
         \/ /\ None \in LookedUp(info.hnsID, ip)
            /\ \E id \in NewIds(ip) :
                  /\ createEndpoint(Remote(ip), id)
                  /\ IF id = None THEN Skip(ip) ELSE Take(ip, CreatedEndpoint(Remote(ip), id))
  BY DEF AcquireEndpoint
<1>2. info \in endpointsInfos({ip}) /\ info.hnsID \in EndpointIds \cup {None}
  BY <1>1, TaskFacts DEF At, TaskOK, EndpointsOK, endpointsInfos
<1> HIDE DEF info
<1>3. CASE \E ep \in LookedUp(info.hnsID, ip) \ {None} : Take(ip, ep) /\ UNCHANGED hnsEndpoints
  <2>1. PICK ep \in LookedUp(info.hnsID, ip) \ {None} : Take(ip, ep) /\ UNCHANGED hnsEndpoints
    BY <1>3
  <2>2. HnsOK'
    BY <2>1 DEF HnsOK
  <2>3. /\ ep.hnsID \in EndpointIds /\ ep.isLocal \in BOOLEAN
        /\ hnsEndpoints[ep.hnsID] # None
        /\ ep.isLocal = (ep.hnsID \notin RemoteIds)
        /\ "get" \notin World /\ getEndpointByID(info.hnsID) # None => ep.hnsID = info.hnsID
    BY <1>2, <2>1, LookedUpIs
  <2> QED BY <1>1, <2>1, <2>2, <2>3 DEF info
<1>4. CASE /\ None \in LookedUp(info.hnsID, ip)
           /\ \E id \in NewIds(ip) :
                 /\ createEndpoint(Remote(ip), id)
                 /\ IF id = None THEN Skip(ip) ELSE Take(ip, CreatedEndpoint(Remote(ip), id))
  <2>1. PICK id \in NewIds(ip) :
           /\ createEndpoint(Remote(ip), id)
           /\ IF id = None THEN Skip(ip) ELSE Take(ip, CreatedEndpoint(Remote(ip), id))
    BY <1>4
  <2>2. CASE id = None
    BY <1>1, <2>1, <2>2, CreateFails
  <2>3. CASE id # None
    <3> DEFINE ep == CreatedEndpoint(Remote(ip), id)
    <3>1. id \in RemoteIds /\ id \in EndpointIds /\ id = Least(Unused(ip)) /\ Unused(ip) # {}
      BY <2>3, NewId
    <3>2. HnsOK' /\ ep = [hnsID |-> id, ip |-> ip, isLocal |-> api = "V1"]
      BY <2>1, <3>1, CreatedOK
    <3>3. Take(ip, ep)
      BY <2>1, <2>3
    <3> HIDE DEF ep
    <3>4. ep.hnsID = id /\ ep.isLocal = (api = "V1") /\ ep.isLocal \in BOOLEAN
      BY <3>2
    <3>5. "get" \notin World => getEndpointByID(info.hnsID) = None
      BY <1>4, LookedUpNone
    <3> QED BY <1>1, <2>1, <3>1, <3>2, <3>3, <3>4, <3>5 DEF info
  <2> QED BY <2>2, <2>3
<1> QED BY <1>1, <1>3, <1>4

LEMMA DoAcquireEndpoint ==
    ASSUME IInv, NEW ip, AcquireEndpoint(ip), UNCHANGED <<api, network, phase, plists, sinkVars>>
    PROVE  IInv'
<1>1. /\ At("acquire") /\ ip \in task.todo /\ UNCHANGED <<serviceMap, policies, undeleted>>
      /\ \/ Skip(ip) /\ UNCHANGED hnsEndpoints
         \/ \E ep : Take(ip, ep) /\ ep.hnsID \in EndpointIds /\ ep.isLocal \in BOOLEAN /\ HnsOK'
  BY AcquireEndpointIs DEF IInv
<1> QED BY <1>1, TakeOK, SkipOK

\* The load balancer that a synchronization gets for one field of the service.
LEMMA AcquirePolicyIs ==
    ASSUME MapsOK, TaskOK, PoliciesOK, NEW field \in {"hnsID", "nodePorthnsID"},
           AcquirePolicy(field)
    PROVE  LET svc == task.svc
               info == serviceMap[svc]
               frontend == Frontend(info.base, field)
           IN  /\ task # None /\ task.stage \in {"acquire", "node port"} /\ task.todo = {}
               /\ field = "hnsID" <=> task.stage = "acquire"
               /\ \E id \in PolicyIds :
                     /\ serviceMap' = [serviceMap EXCEPT ![svc] =
                           IF field = "hnsID"
                           THEN ServiceInfo(info.base, id, None, Done(field), info.remoteEndpoint)
                           ELSE ServiceInfo(info.base, info.hnsID, id, TRUE, info.remoteEndpoint)]
                     /\ \/ /\ policies[id] # None
                           /\ policies[id].frontend = frontend
                           /\ Cardinality(policies[id].endpoints) = Cardinality(task.endpoints)
                           /\ UNCHANGED policies
                        \/ /\ \A other \in PolicyIds : policies[other] # None =>
                                 \/ policies[other].frontend # frontend
                                 \/ Cardinality(policies[other].endpoints) # Cardinality(task.endpoints)
                           /\ id \in UnusedPolicies(frontend)
                           /\ policies' = [policies EXCEPT ![id] =
                                              [frontend |-> frontend, endpoints |-> task.endpoints]]
                           /\ \A e \in task.endpoints : getEndpointByID(e.hnsID) # None
               /\ task' = IF Done(field) THEN None ELSE [task EXCEPT !.stage = "node port"]
               /\ UNCHANGED <<endpointsMap, endPointsRefCount, hnsEndpoints, undeleted>>
<1> DEFINE svc == task.svc
           info == serviceMap[svc]
           frontend == Frontend(info.base, field)
           unused == UnusedPolicies(frontend)
<1>1. /\ task # None /\ task.stage \in {"acquire", "node port"} /\ task.todo = {}
      /\ field = "hnsID" <=> task.stage = "acquire"
  <2>1. WantsPolicy(field)
    BY DEF AcquirePolicy
  <2>2. CASE field = "hnsID"
    BY <2>1, <2>2 DEF WantsPolicy, At
  <2>3. CASE field = "nodePorthnsID"
    <3>1. task # None /\ task.stage = "node port"
      BY <2>1, <2>3 DEF WantsPolicy, At
    <3>2. task.todo = {}
      BY <3>1 DEF TaskOK
    <3> QED BY <2>3, <3>1, <3>2
  <2> QED BY <2>2, <2>3
<1>2. PICK id \in {p \in PolicyIds : policies[p] # None} \cup
                     (IF unused = {} THEN {} ELSE {Least(unused)}) :
         /\ getLoadBalancer(task.endpoints, frontend, id)
         /\ serviceMap' = [serviceMap EXCEPT ![svc][field] = id, ![svc].policyApplied = Done(field)]
  BY DEF AcquirePolicy, svcInfo
<1>3. id \in PolicyIds /\ id # None /\ (policies[id] = None => id \in unused)
  <2>1. unused # {} => Least(unused) \in unused
    BY UnusedPolicyId
  <2>2. unused \subseteq PolicyIds
    BY DEF UnusedPolicies
  <2> HIDE DEF unused
  <2> QED BY <1>2, <2>1, <2>2, NotNone
<1>4. /\ svc \in ServicePortNames /\ info # None /\ info \in ServiceInfos
      /\ info.nodePorthnsID = None
  BY <1>1, SyncFacts DEF svcInfo
<1>5. serviceMap' = [serviceMap EXCEPT ![svc] =
         IF field = "hnsID"
         THEN ServiceInfo(info.base, id, None, Done(field), info.remoteEndpoint)
         ELSE ServiceInfo(info.base, info.hnsID, id, TRUE, info.remoteEndpoint)]
  <2> DEFINE i1 == [info EXCEPT ![field] = id]
             i2 == [i1 EXCEPT !.policyApplied = Done(field)]
  <2>1. serviceMap' = [serviceMap EXCEPT ![svc] = i2]
    BY <1>2, <1>4 DEF MapsOK
  <2>2. Done(field) \in BOOLEAN
    BY DEF Done
  <2>3. CASE field = "hnsID"
    <3>1. i1 = [info EXCEPT !.hnsID = id]
      BY <2>3
    <3>2. i1 = ServiceInfo(info.base, id, info.nodePorthnsID, info.policyApplied, info.remoteEndpoint)
      BY <1>4, <3>1, ServiceFields, Zenon
    <3> HIDE DEF i1
    <3>3. /\ i1 \in ServiceInfos /\ i1.base = info.base /\ i1.hnsID = id
          /\ i1.nodePorthnsID = None /\ i1.remoteEndpoint = info.remoteEndpoint
      BY <1>3, <1>4, <3>2 DEF ServiceInfo, ServiceInfos
    <3>4. i2 = ServiceInfo(i1.base, i1.hnsID, i1.nodePorthnsID, Done(field), i1.remoteEndpoint)
      BY <3>3, ServiceFields, Zenon
    <3> HIDE DEF i2
    <3> QED BY <2>1, <2>3, <3>3, <3>4
  <2>4. CASE field = "nodePorthnsID"
    <3>1. i1 = [info EXCEPT !.nodePorthnsID = id]
      BY <2>4
    <3>2. i1 = ServiceInfo(info.base, info.hnsID, id, info.policyApplied, info.remoteEndpoint)
      BY <1>4, <3>1, ServiceFields, Zenon
    <3> HIDE DEF i1
    <3>3. /\ i1 \in ServiceInfos /\ i1.base = info.base /\ i1.hnsID = info.hnsID
          /\ i1.nodePorthnsID = id /\ i1.remoteEndpoint = info.remoteEndpoint
      BY <1>3, <1>4, <3>2 DEF ServiceInfo, ServiceInfos
    <3>4. i2 = ServiceInfo(i1.base, i1.hnsID, i1.nodePorthnsID, Done(field), i1.remoteEndpoint)
      BY <3>3, ServiceFields, Zenon
    <3>5. Done(field) = TRUE
      BY <2>4 DEF Done
    <3> HIDE DEF i2
    <3> QED BY <2>1, <2>4, <3>3, <3>4, <3>5
  <2> QED BY <2>3, <2>4
<1>6. \/ /\ policies[id] # None
         /\ policies[id].frontend = frontend
         /\ Cardinality(policies[id].endpoints) = Cardinality(task.endpoints)
         /\ UNCHANGED policies
      \/ /\ \A other \in PolicyIds : policies[other] # None =>
               \/ policies[other].frontend # frontend
               \/ Cardinality(policies[other].endpoints) # Cardinality(task.endpoints)
         /\ id \in unused
         /\ policies' = [policies EXCEPT ![id] =
                            [frontend |-> frontend, endpoints |-> task.endpoints]]
         /\ \A e \in task.endpoints : getEndpointByID(e.hnsID) # None
  <2> HIDE DEF frontend, unused
  <2> QED BY <1>2, <1>3, GetLoadBalancer
<1>7. /\ task' = IF Done(field) THEN None ELSE [task EXCEPT !.stage = "node port"]
      /\ UNCHANGED <<endpointsMap, endPointsRefCount, hnsEndpoints, undeleted>>
  BY DEF AcquirePolicy
<1> QED BY <1>1, <1>3, <1>5, <1>6, <1>7

LEMMA DoAcquirePolicy ==
    ASSUME IInv, phase = "running", NEW field \in {"hnsID", "nodePorthnsID"}, AcquirePolicy(field),
           UNCHANGED <<api, network, phase, plists, sinkVars>>
    PROVE  IInv'
<1> DEFINE svc == task.svc
           info == serviceMap[svc]
           frontend == Frontend(info.base, field)
<1> USE DEF IInv
<1>1. /\ task # None /\ task.stage \in {"acquire", "node port"} /\ task.todo = {}
      /\ field = "hnsID" <=> task.stage = "acquire"
      /\ task' = IF Done(field) THEN None ELSE [task EXCEPT !.stage = "node port"]
      /\ UNCHANGED <<endpointsMap, endPointsRefCount, hnsEndpoints, undeleted>>
  BY AcquirePolicyIs
<1> DEFINE new(id) == IF field = "hnsID"
                      THEN ServiceInfo(info.base, id, None, Done(field), info.remoteEndpoint)
                      ELSE ServiceInfo(info.base, info.hnsID, id, TRUE, info.remoteEndpoint)
           policy == [frontend |-> frontend, endpoints |-> task.endpoints]
<1>2. PICK id \in PolicyIds :
         /\ serviceMap' = [serviceMap EXCEPT ![svc] = new(id)]
         /\ \/ /\ policies[id] # None
               /\ policies[id].frontend = frontend
               /\ Cardinality(policies[id].endpoints) = Cardinality(task.endpoints)
               /\ UNCHANGED policies
            \/ /\ \A other \in PolicyIds : policies[other] # None =>
                     \/ policies[other].frontend # frontend
                     \/ Cardinality(policies[other].endpoints) # Cardinality(task.endpoints)
               /\ id \in UnusedPolicies(frontend)
               /\ policies' = [policies EXCEPT ![id] = policy]
  BY AcquirePolicyIs
<1>3. /\ task.op = "sync" /\ svc \in ServicePortNames
      /\ info # None /\ info \in ServiceInfos /\ ServiceOK(info)
      /\ ~info.policyApplied /\ info.nodePorthnsID = None /\ info.base \in BaseInfos
      /\ task \in Tasks(BaseInfos \cup {None})
  BY <1>1, SyncFacts DEF svcInfo
<1>4. task.endpoints \subseteq [ip : IPs, hnsID : EndpointIds]
  BY <1>3 DEF Tasks
<1>5. policy.frontend = frontend /\ policy.endpoints = task.endpoints
  OBVIOUS
<1>6. ~Done(field) => info.base.nodePort # 0 /\ field = "hnsID"
  BY DEF Done, svcInfo
<1> HIDE DEF policy, frontend
<1>7. /\ new(id) \in ServiceInfos /\ new(id).base = info.base
      /\ field = "hnsID" => new(id).hnsID = id /\ new(id).nodePorthnsID = None
      /\ field # "hnsID" => new(id).hnsID = info.hnsID /\ new(id).nodePorthnsID = id
      /\ new(id).policyApplied = Done(field)
      /\ new(id).remoteEndpoint = info.remoteEndpoint
  <2>1. Done(field) \in BOOLEAN /\ (field # "hnsID" => Done(field) = TRUE)
    BY DEF Done
  <2>2. CASE field = "hnsID"
    BY <1>3, <2>1, <2>2 DEF ServiceInfo, ServiceInfos
  <2>3. CASE field # "hnsID"
    BY <1>3, <2>1, <2>3 DEF ServiceInfo, ServiceInfos
  <2> QED BY <2>2, <2>3
<1> HIDE DEF new
<1>8. ServiceOK(new(id)) /\ new(id) # None
  <2>1. ~Done(field) => field = "hnsID"
    BY DEF Done
  <2> QED BY <1>3, <1>6, <1>7, <2>1, NotNone DEF ServiceOK
<1>9. /\ MapsOK' /\ serviceMap'[svc] = new(id)
      /\ \A other \in ServicePortNames \ {svc} : serviceMap'[other] = serviceMap[other]
  <2>1. endPointsRefCount' \in [EndpointIds -> Uint16] /\ UNCHANGED endpointsMap
    BY <1>1 DEF MapsOK
  <2> QED BY <1>2, <1>3, <1>8, <2>1, SetService1
<1>10. TaskOK'
  <2>1. CASE Done(field)
    BY <1>1, <2>1 DEF TaskOK
  <2>2. CASE ~Done(field)
    <3> DEFINE t == TaskOf(task.op, svc, task.change, task.passes, "node port", task.todo, task.endpoints)
    <3>1. task' = t
      <4>1. task = TaskOf(task.op, svc, task.change, task.passes, task.stage, task.todo, task.endpoints)
        BY <1>1, TaskFacts
      <4>2. task' = [task EXCEPT !.stage = "node port"]
        BY <1>1, <2>2
      <4> QED BY <4>1, <4>2 DEF TaskOf
    <3>2. t \in Tasks(BaseInfos \cup {None})
      <4>1. task \in Tasks(BaseInfos \cup {None})
        BY <1>3
      <4> QED BY <4>1 DEF TaskOf, Tasks
    <3>3. /\ t.op = task.op /\ t.svc = svc /\ t.stage = "node port" /\ t.todo = task.todo
          /\ t.endpoints = task.endpoints
      BY DEF TaskOf
    <3> HIDE DEF t
    <3>4. /\ \A e \in task.endpoints : e.ip \in DOMAIN endpointsMap[svc] \ task.todo
      BY <1>1, <1>3 DEF TaskOK
    <3>5. serviceMap'[svc] # None /\ ~serviceMap'[svc].policyApplied /\ UNCHANGED endpointsMap
      BY <1>1, <1>7, <1>8, <1>9, <2>2
    <3>6. /\ t.todo \subseteq DOMAIN endpointsMap'[svc] /\ t.todo = {} /\ t.op = "sync"
          /\ \A e \in t.endpoints : e.ip \in DOMAIN endpointsMap'[svc] \ t.todo
      BY <1>1, <1>3, <3>3, <3>4, <3>5
    <3> QED BY <3>1, <3>2, <3>3, <3>5, <3>6 DEF TaskOK, svcInfo
  <2> QED BY <2>1, <2>2
<1>11. PhaseOK' /\ HnsOK' /\ SinkOK'
  BY <1>1 DEF PhaseOK, HnsOK, SinkOK, sinkVars
<1>12. \/ UNCHANGED policies
       \/ /\ policies' = [p \in PolicyIds |-> policies'[p]] /\ policies'[id] = policy
          /\ \A other \in PolicyIds \ {id} : policies'[other] = policies[other]
          /\ policies[id] = None
          /\ \A s \in ServicePortNames : serviceMap[s] # None =>
                id \notin {serviceMap[s].hnsID, serviceMap[s].nodePorthnsID}
  BY <1>2 DEF PoliciesOK, UnusedPolicies
<1>13. policies'[id] # None => policies'[id].frontend = frontend
  <2>1. CASE UNCHANGED policies
    <3>1. id \in UnusedPolicies(frontend) => policies[id] = None
      BY DEF UnusedPolicies
    <3> QED BY <1>2, <2>1, <3>1
  <2>2. CASE ~UNCHANGED policies
    <3>1. policies'[id] = policy
      BY <1>12, <2>2
    <3> QED BY <1>5, <3>1
  <2> QED BY <2>1, <2>2
\* What the service had of an earlier, failed synchronization is a Retried one.
<1>14. info.hnsID # None /\ policies[info.hnsID] # None => policies[info.hnsID].frontend \in Retried
  <2>1. info.hnsID # None => info.base.nodePort # 0
    BY <1>3 DEF ServiceOK
  <2>2. info.hnsID # None /\ policies[info.hnsID] # None =>
           policies[info.hnsID].frontend = Frontend(info.base, "hnsID")
    BY <1>3 DEF PoliciesOK, Exists
  <2> QED BY <1>3, <2>1, <2>2 DEF Retried
<1>15. PoliciesOK'
  <2>1. policies' = [p \in PolicyIds |-> policies'[p]]
    BY <1>12 DEF PoliciesOK
  <2>2. \A p \in PolicyIds : policies'[p] # None =>
           policies'[p].endpoints \subseteq [ip : IPs, hnsID : EndpointIds]
    BY <1>4, <1>5, <1>12 DEF PoliciesOK, Exists
  <2>3. ASSUME NEW s \in ServicePortNames, serviceMap'[s] # None, serviceMap'[s].hnsID # None,
               policies'[serviceMap'[s].hnsID] # None
        PROVE  policies'[serviceMap'[s].hnsID].frontend = Frontend(serviceMap'[s].base, "hnsID")
    <3>1. CASE s = svc /\ field = "hnsID"
      BY <1>1, <1>7, <1>9, <1>13, <2>3, <3>1 DEF frontend
    <3>2. CASE s # svc \/ field # "hnsID"
      <4>1. /\ serviceMap[s] # None
            /\ serviceMap'[s].hnsID = serviceMap[s].hnsID /\ serviceMap'[s].base = serviceMap[s].base
        BY <1>3, <1>7, <1>9, <2>3, <3>2
      <4>2. serviceMap[s].hnsID \in PolicyIds
        BY <2>3, <4>1 DEF MapsOK, ServiceOK, ServiceInfos
      <4>3. policies'[serviceMap[s].hnsID] = policies[serviceMap[s].hnsID]
        BY <1>12, <4>1, <4>2
      <4> QED BY <1>1, <2>3, <4>1, <4>3 DEF PoliciesOK, Exists
    <3> QED BY <3>1, <3>2
  <2> QED BY <2>1, <2>2, <2>3 DEF PoliciesOK, Exists
<1>16. LeftOK'
  <2> SUFFICES ASSUME NEW p \in PolicyIds, policies'[p] # None, p \notin undeleted',
                      policies'[p].frontend \notin Retried
               PROVE  \E s \in ServicePortNames : p \in Owned(s)'
    BY DEF LeftOK, Exists
  <2>0. PICK mine \in ServicePortNames : mine = svc
    BY <1>3
  <2>1. id \in Owned(mine)'
    <3>1. serviceMap'[mine] # None /\ id \in {serviceMap'[mine].hnsID, serviceMap'[mine].nodePorthnsID}
      BY <1>7, <1>8, <1>9, <2>0
    <3> QED BY <3>1, NotNone DEF Owned
  <2>2. CASE p = id
    BY <2>1, <2>2
  <2>3. CASE p # id
    <3>1. policies[p] # None /\ p \notin undeleted /\ policies[p].frontend \notin Retried
      BY <1>1, <1>12, <2>3
    <3>2. PICK s \in ServicePortNames : p \in Owned(s)
      BY <3>1 DEF LeftOK, Exists
    <3>3. CASE s # svc
      BY <1>9, <3>2, <3>3 DEF Owned
    <3>4. CASE s = svc
      <4>1. p = info.hnsID /\ p # None
        BY <1>3, <3>2, <3>4 DEF Owned
      <4> QED BY <1>14, <3>1, <4>1
    <3> QED BY <3>3, <3>4
  <2> QED BY <2>2, <2>3
<1> QED BY <1>9, <1>10, <1>11, <1>15, <1>16

-----------------------------------------------------------------------------
(***************************************************************************)
(* Start-up, the sink, CNI and the end of the agent.                       *)
(***************************************************************************)
\* The handlers' part is left alone.
LEMMA KeepRules ==
    ASSUME MapsOK, TaskOK, UNCHANGED ruleVars
    PROVE  MapsOK' /\ TaskOK'
<1>1. MapsOK'
  BY DEF MapsOK, ruleVars
<1>2. TaskOK'
  BY DEF TaskOK, ruleVars, svcInfo
<1> QED BY <1>1, <1>2

\* So are the load balancers.
LEMMA KeepHns ==
    ASSUME IInv, UNCHANGED <<policies, ruleVars>>, PhaseOK', HnsOK', SinkOK',
           UNCHANGED <<phase, plists>>,
           \A id \in PolicyIds : policies[id] # None /\ id \in undeleted => id \in undeleted'
    PROVE  IInv'
<1>1. MapsOK' /\ TaskOK'
  BY KeepRules DEF IInv
<1>2. PoliciesOK' /\ LeftOK'
  BY KeepPolicies DEF IInv, ruleVars
<1> QED BY <1>1, <1>2 DEF IInv

LEMMA DoStart ==
    ASSUME IInv, Start
    PROVE  IInv'
<1> DEFINE present == {id \in PolicyIds : policies[id] # None}
<1> USE DEF IInv
<1>1. PICK refused \in {{}, present} : plists' = present \ refused /\ Refuses(refused)
  BY DEF Start
<1>2. /\ phase' = "policies" /\ UNCHANGED <<hnsEndpoints, policies>>
      /\ UNCHANGED <<api, network, ruleVars, sinkVars>>
  BY DEF Start
<1>3. /\ undeleted' \subseteq PolicyIds \cup EndpointIds
      /\ \A id \in PolicyIds : policies'[id] # None /\ id \in undeleted \cup refused => id \in undeleted'
  BY <1>1, RefusesKeeps
<1>4. PhaseOK' /\ HnsOK' /\ SinkOK'
  BY <1>1, <1>2, <1>3 DEF PhaseOK, HnsOK, SinkOK, sinkVars
<1>5. MapsOK' /\ TaskOK'
  BY <1>2, KeepRules
<1>6. PoliciesOK'
  BY <1>2 DEF PoliciesOK, Exists, ruleVars
<1>7. LeftOK'
  BY <1>1, <1>2, <1>3 DEF LeftOK, Exists
<1> QED BY <1>4, <1>5, <1>6, <1>7

LEMMA DoDeletePolicyList ==
    ASSUME IInv, NEW id \in PolicyIds, DeletePolicyList(id)
    PROVE  IInv'
<1> USE DEF IInv
<1>1. PICK refused \in SUBSET {id} :
         /\ policies' = [p \in PolicyIds |-> IF p \in {id} \ refused THEN None ELSE policies[p]]
         /\ Refuses(refused)
  BY Adapters DEF DeletePolicyList
<1>2. /\ phase = "policies" /\ id \in plists /\ plists' = plists \ {id}
      /\ UNCHANGED hnsEndpoints /\ UNCHANGED <<api, network, ruleVars, phase, sinkVars>>
  BY DEF DeletePolicyList
<1>3. /\ undeleted' \subseteq PolicyIds \cup EndpointIds
      /\ \A p \in PolicyIds : policies'[p] # None /\ p \in undeleted \cup refused => p \in undeleted'
  BY <1>1, RefusesKeeps
<1>4. PhaseOK' /\ HnsOK' /\ SinkOK'
  BY <1>2, <1>3 DEF PhaseOK, HnsOK, SinkOK, sinkVars
<1>5. MapsOK' /\ TaskOK'
  BY <1>2, KeepRules
<1>6. /\ policies' = [p \in PolicyIds |-> policies'[p]]
      /\ \A p \in PolicyIds : policies'[p] # None =>
            policies'[p] = policies[p] /\ policies[p] # None /\ p \notin {id} \ refused
  BY <1>1
<1>7. PoliciesOK'
  BY <1>2, <1>6, FewerPolicies DEF ruleVars
<1>8. LeftOK'
  BY <1>1, <1>2, <1>3, <1>6 DEF LeftOK, Exists
<1> QED BY <1>4, <1>5, <1>7, <1>8

LEMMA DoStartSteps ==
    ASSUME IInv, getNetworkInfo \/ NewProxier \/ NewProxierFails
    PROVE  IInv'
<1> USE DEF IInv
<1>1. UNCHANGED <<api, hnsVars, ruleVars, undeleted, plists, sinkVars>>
  BY DEF getNetworkInfo, NewProxier, NewProxierFails
<1>2. /\ phase' \in {"overlay", "running", "exited"}
      /\ phase' = "overlay" => phase = "policies" /\ plists = {}
      /\ phase' = "running" => network # None
      /\ phase' = "running" => phase = "overlay" \/ (phase = "policies" /\ plists = {})
  BY Adapters DEF getNetworkInfo, NewProxier, NewProxierFails
<1>3. PhaseOK' /\ HnsOK' /\ SinkOK'
  BY <1>1, <1>2 DEF PhaseOK, HnsOK, SinkOK, sinkVars, hnsVars
<1>4. MapsOK' /\ TaskOK'
  BY <1>1, KeepRules
<1>5. PoliciesOK'
  BY <1>1 DEF PoliciesOK, Exists, ruleVars, hnsVars
<1>6. LeftOK'
  BY <1>1, <1>2 DEF LeftOK, Exists, hnsVars
<1> QED BY <1>3, <1>4, <1>5, <1>6

LEMMA DoKill ==
    ASSUME IInv, Kill
    PROVE  IInv'
<1> USE DEF IInv
<1>1. UNCHANGED <<api, network, hnsEndpoints, policies, undeleted>>
  BY DEF Kill, hnsVars
<1>2. PhaseOK' /\ HnsOK'
  BY <1>1 DEF PhaseOK, HnsOK, Kill
<1>3. SinkOK'
  BY DEF SinkOK, Kill
<1>4. TaskOK'
  BY DEF TaskOK, Kill
<1>5. MapsOK'
  <2>1. \A id \in EndpointIds : 0 \in Uint16
    BY Uint16Is
  <2>2. endPointsRefCount' \in [EndpointIds -> Uint16]
    BY <2>1 DEF Kill
  <2> QED BY <2>2 DEF MapsOK, ServiceOK, EndpointsOK, Kill
<1>6. \A svc \in ServicePortNames : serviceMap'[svc] = None
  BY DEF Kill
<1>7. PoliciesOK'
  BY <1>1, <1>6 DEF PoliciesOK, Exists
<1>8. LeftOK'
  BY DEF LeftOK, Kill
<1> QED BY <1>2, <1>3, <1>4, <1>5, <1>7, <1>8

LEMMA DoSink ==
    ASSUME IInv, SinkStep
    PROVE  IInv'
<1> USE DEF IInv
<1>1. UNCHANGED <<api, hnsVars, ruleVars, undeleted, phase, plists>>
  BY DEF SinkStep, SetService, DeleteService
<1>2. PhaseOK' /\ HnsOK'
  BY <1>1 DEF PhaseOK, HnsOK, hnsVars
<1>3. SinkOK'
  <2>1. ASSUME NEW service \in Services, SetService(service) PROVE SinkOK'
    <3>1. PersistentServices' = [PersistentServices EXCEPT ![service.name] = service]
      BY <2>1, SinkAssumption
      DEF SetService, OnServiceUpdate, Tracker!Update, Tracker!Recorded, Tracker!Subject
    <3> QED BY <3>1 DEF SinkOK
  <2>2. ASSUME NEW name \in Names, DeleteService(name) PROVE SinkOK'
    <3> DEFINE old == PersistentServices[name]
               recorded == Tracker!Recorded(old, None)
    <3>1. old \in Services \cup {None}
      BY DEF SinkOK
    <3>2. recorded \in [Names -> Services \cup {None}]
      BY <3>1 DEF SinkOK, Tracker!Recorded, Tracker!Subject
    <3>3. PersistentServices' = [recorded EXCEPT ![name] = None]
      BY <2>2 DEF DeleteService
    <3> HIDE DEF recorded
    <3> QED BY <3>2, <3>3 DEF SinkOK
  <2> QED BY <2>1, <2>2 DEF SinkStep
<1>4. UNCHANGED <<policies, ruleVars>> /\ UNCHANGED <<phase, plists>> /\ UNCHANGED undeleted
  BY <1>1 DEF hnsVars
<1> QED BY <1>2, <1>3, <1>4, KeepHns

LEMMA DoCni ==
    ASSUME IInv, CniStep
    PROVE  IInv'
<1> USE DEF IInv
<1>1. UNCHANGED <<api, policies, ruleVars, phase, plists, sinkVars>>
  BY DEF CniStep, NetworkChanges, CniCreates, CniDeletes
<1>2. ASSUME NEW n \in Networks \cup {None}, NetworkChanges(n) PROVE IInv'
  <2>1. /\ phase # "running" /\ network' = n
        /\ hnsEndpoints' = [id \in EndpointIds |->
              IF hnsEndpoints[id] # None /\ hnsEndpoints[id].network = network THEN None
                                                                               ELSE hnsEndpoints[id]]
        /\ Refuses({})
    BY <1>2 DEF NetworkChanges
  <2>2. HnsOK'
    <3>1. /\ hnsEndpoints' = [id \in EndpointIds |-> hnsEndpoints'[id]]
          /\ \A id \in EndpointIds : hnsEndpoints'[id] # None => hnsEndpoints'[id] = hnsEndpoints[id]
      BY <2>1
    <3> QED BY <3>1 DEF HnsOK
  <2>3. /\ undeleted' \subseteq PolicyIds \cup EndpointIds
        /\ \A id \in PolicyIds : policies'[id] # None /\ id \in undeleted \cup {} => id \in undeleted'
    BY <2>1, RefusesKeeps
  <2>4. PhaseOK' /\ SinkOK'
    BY <1>1, <1>2, <2>1, <2>3 DEF PhaseOK, SinkOK, sinkVars
  <2> QED BY <1>1, <2>2, <2>3, <2>4, KeepHns
<1>3. ASSUME NEW id \in LocalIds, UNCHANGED <<network, undeleted>>, NEW new,
             new # None => new.network \in Networks /\ new.remote = FALSE,
             hnsEndpoints' = [hnsEndpoints EXCEPT ![id] = new]
      PROVE  IInv'
  <2>1. id \in EndpointIds /\ id \notin RemoteIds
    BY RulesAssumption DEF EndpointIds
  <2>2. /\ hnsEndpoints' = [i \in EndpointIds |-> hnsEndpoints'[i]] /\ hnsEndpoints'[id] = new
        /\ \A i \in EndpointIds \ {id} : hnsEndpoints'[i] = hnsEndpoints[i]
    BY <1>3, <2>1 DEF HnsOK
  <2>3. HnsOK'
    <3>1. ASSUME NEW i \in EndpointIds, hnsEndpoints'[i] # None
          PROVE  hnsEndpoints'[i].network \in Networks /\ hnsEndpoints'[i].remote = (i \in RemoteIds)
      <4>1. CASE i = id
        <5>1. hnsEndpoints'[i] = new /\ (i \in RemoteIds) = FALSE
          BY <2>1, <2>2, <4>1
        <5> QED BY <1>3, <3>1, <5>1
      <4>2. CASE i # id
        <5>1. hnsEndpoints'[i] = hnsEndpoints[i]
          BY <2>2, <4>2
        <5> QED BY <3>1, <5>1 DEF HnsOK
      <4> QED BY <4>1, <4>2
    <3> QED BY <2>2, <3>1 DEF HnsOK
  <2>4. PhaseOK' /\ SinkOK'
    BY <1>1, <1>3 DEF PhaseOK, SinkOK, sinkVars
  <2> QED BY <1>1, <1>3, <2>3, <2>4, KeepHns
<1>4. ASSUME NEW id \in LocalIds, NEW ep \in CniEndpoints, CniCreates(id, ep) PROVE IInv'
  <2> DEFINE new == [ips |-> ep.ips, remote |-> FALSE, network |-> ep.network]
  <2>1. new.network \in Networks /\ new.remote = FALSE
    BY ObjectAssumption
  <2>2. hnsEndpoints' = [hnsEndpoints EXCEPT ![id] = new] /\ UNCHANGED <<network, undeleted>>
    BY <1>4 DEF CniCreates
  <2> HIDE DEF new
  <2> QED BY <1>3, <2>1, <2>2
<1>5. ASSUME NEW id \in LocalIds, CniDeletes(id) PROVE IInv'
  <2>1. hnsEndpoints' = [hnsEndpoints EXCEPT ![id] = None] /\ UNCHANGED <<network, undeleted>>
    BY <1>5 DEF CniDeletes
  <2> QED BY <1>3, <2>1
<1> QED BY <1>2, <1>4, <1>5 DEF CniStep

-----------------------------------------------------------------------------
LEMMA Initially == Init => IInv
<1> SUFFICES ASSUME Init PROVE IInv
  OBVIOUS
<1>1. PhaseOK
  BY DEF Init, PhaseOK
<1>2. HnsOK
  BY DEF Init, HnsOK
<1>3. MapsOK
  <2>1. \A id \in EndpointIds : 0 \in Uint16
    BY Uint16Is
  <2>2. endPointsRefCount \in [EndpointIds -> Uint16]
    BY <2>1 DEF Init, RulesInit
  <2> QED BY <2>2 DEF Init, RulesInit, MapsOK, ServiceOK, EndpointsOK
<1>4. TaskOK
  BY DEF Init, RulesInit, TaskOK
<1>5. PoliciesOK /\ LeftOK
  BY DEF Init, RulesInit, PoliciesOK, LeftOK, Exists
<1>6. SinkOK
  BY DEF Init, Tracker!Init, SinkOK
<1> QED BY <1>1, <1>2, <1>3, <1>4, <1>5, <1>6 DEF IInv

LEMMA RulesPreserve ==
    ASSUME IInv, RulesStep
    PROVE  IInv'
<1>1. phase = "running" /\ UNCHANGED <<api, network, phase, plists, sinkVars>>
  BY DEF RulesStep
<1>2. CASE CleanupStep
  BY <1>1, <1>2, DoDeletePolicies, DoCleanupRemoteEndpoint, DoCleanupEndpoint DEF CleanupStep
<1>3. CASE SyncStep
  BY <1>1, <1>3, DoBeginSync, DoAcquireServiceVip, DoAcquireEndpoint, DoAcquirePolicy, DoPolicyRefused,
     DoNothingAcquired
  DEF SyncStep
<1>4. CASE ChangeStep
  <2>1. \A base \in BaseInfos : base.name \in ServicePortNames
    BY ObjectAssumption
  <2>2. \A e \in Endpoints : e.name \in ServicePortNames /\ e.ips \in SUBSET IPs
    BY ObjectAssumption
  <2> QED BY <1>1, <1>4, <2>1, <2>2, DoServiceMapChange, DoEndpointsMapChange, DoApplyChange
    DEF ChangeStep
<1> QED BY <1>2, <1>3, <1>4 DEF RulesStep

LEMMA Preserved ==
    ASSUME IInv, [Next]_vars
    PROVE  IInv'
<1>1. CASE UNCHANGED vars
  <2>1. UNCHANGED <<policies, ruleVars>> /\ UNCHANGED <<phase, plists>> /\ UNCHANGED undeleted
    BY <1>1 DEF vars, ruleVars
  <2>2. PhaseOK' /\ HnsOK' /\ SinkOK'
    BY <1>1 DEF IInv, PhaseOK, HnsOK, SinkOK, vars
  <2> QED BY <2>1, <2>2, KeepHns
<1>2. CASE Next
  BY <1>2, DoStart, DoDeletePolicyList, DoStartSteps, RulesPreserve, DoSink, DoCni, DoKill
  DEF Next, StartStep
<1> QED BY <1>1, <1>2

\* What HNS and the Proxier have, in every state.
THEOREM Invariance == Spec => []IInv
<1> QED BY Initially, Preserved, PTL DEF Spec

\* Every counter is a uint16, a Proxier has its network, and what refers to HNS
\* has ids of the right kind (winkernel/proxier.go:121, endpoints.go).
THEOREM TypeCorrect == Spec => []TypeOK
<1>1. ASSUME IInv PROVE TypeOK
  <2> USE <1>1 DEF IInv
  <2>1. \A id \in EndpointIds :
          /\ hnsEndpoints[id] # None => hnsEndpoints[id].network \in Networks
          /\ endPointsRefCount[id] \in Uint16
    BY DEF HnsOK, MapsOK
  <2>2. \A id \in PolicyIds : policies[id] # None =>
          \A e \in policies[id].endpoints : e.ip \in IPs /\ e.hnsID \in EndpointIds
    BY DEF PoliciesOK, Exists
  <2>3. ASSUME NEW svc \in ServicePortNames, serviceMap[svc] # None
        PROVE  /\ serviceMap[svc].hnsID \in PolicyIds \cup {None}
               /\ serviceMap[svc].nodePorthnsID \in PolicyIds \cup {None}
               /\ serviceMap[svc].policyApplied \in BOOLEAN
               /\ serviceMap[svc].remoteEndpoint \in
                      endpointsInfos({serviceMap[svc].base.clusterIP}) \cup {None}
    <3>1. serviceMap[svc] \in ServiceInfos /\ ServiceOK(serviceMap[svc])
      BY <2>3 DEF MapsOK, ServiceOK
    <3>2. serviceMap[svc].remoteEndpoint # None =>
             /\ serviceMap[svc].remoteEndpoint \in VipInfos
             /\ serviceMap[svc].remoteEndpoint.ip = serviceMap[svc].base.clusterIP
      BY <2>3, <3>1 DEF ServiceOK, ServiceInfos
    <3>3. serviceMap[svc].remoteEndpoint # None =>
             serviceMap[svc].remoteEndpoint \in endpointsInfos({serviceMap[svc].base.clusterIP})
      BY <3>2 DEF VipInfos, endpointsInfos
    <3> QED BY <3>1, <3>3 DEF ServiceInfos
  <2>4. \A svc \in ServicePortNames :
           \A ip \in DOMAIN endpointsMap[svc] : endpointsMap[svc][ip] \in endpointsInfos({ip})
    BY DEF MapsOK, EndpointsOK
  <2>5. /\ api \in {"V1", "V2"} /\ network \in Networks \cup {None}
        /\ phase = "running" => network # None
        /\ phase \in {"down", "exited", "policies", "overlay", "running"}
        /\ plists \subseteq PolicyIds
        /\ undeleted \subseteq PolicyIds \cup EndpointIds
        /\ PersistentServices \in [Names -> Services \cup {None}]
    BY DEF PhaseOK, SinkOK
  <2> QED BY <2>1, <2>2, <2>3, <2>4, <2>5 DEF TypeOK
<1> QED BY <1>1, Invariance, PTL

\* However often the agent is killed and started, and whatever HNS refuses to
\* create or to list, the load balancers in HNS are those of the Proxier's
\* services, but for the ones HNS did not delete and those of a cluster IP whose
\* node port's load balancer failed (hns.go:77, 120; proxier.go:564).
THEOREM NoPolicyLeft == Spec => []NoLeftoverPolicies
<1>1. IInv => NoLeftoverPolicies
  BY DEF IInv, LeftOK, NoLeftoverPolicies, Exists
<1> QED BY <1>1, Invariance, PTL
=============================================================================
