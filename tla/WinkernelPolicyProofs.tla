----------------------- MODULE WinkernelPolicyProofs ------------------------
(***************************************************************************)
(* Proofs about the load balancers of a service port: whose they are and   *)
(* where they send traffic, for any services, endpoints and ids.  The      *)
(* adapter recognizes a load balancer by its frontend and its number of    *)
(* endpoints, so nothing of this holds for two service ports of one        *)
(* frontend; OwnFrontends is the hypothesis that there are none.           *)
(***************************************************************************)
EXTENDS WinkernelCounterProofs

\* The frontends of a service port: with a node port it has two.
Fields(base) == {"hnsID"} \cup (IF base.nodePort = 0 THEN {} ELSE {"nodePorthnsID"})

Frontends(base) == {Frontend(base, f) : f \in Fields(base)}

OwnFrontends ==
    \A x, y \in BaseInfos : x.name # y.name => Frontends(x) \cap Frontends(y) = {}

\* Infos are kept, and changes applied, under the name of their service port.
NamedOK ==
    /\ \A svc \in ServicePortNames : serviceMap[svc] # None => serviceMap[svc].base.name = svc
    /\ task # None /\ task.op = "service" /\ task.change # None => task.change.name = task.svc

\* The load balancer's remote endpoints are those the service has, which on the
\* V2 API it counts.
Taken(e, info) ==
    info.hnsID = e.hnsID /\ (api = "V2" /\ e.hnsID \in RemoteIds => info.refCount = e.hnsID)

Serves(svc, id) ==
    \A e \in policies[id].endpoints : e.hnsID \in RemoteIds =>
        e.ip \in DOMAIN endpointsMap[svc] /\ Taken(e, endpointsMap[svc][e.ip])

\* A failed synchronization may have left the load balancer.
Exempt(id) == id \in undeleted \/ policies[id].frontend \in Retried

\* A service port's load balancers, at every step of every handler: a
\* clean-up forgets their ids before it touches an endpoint, and before a
\* synchronization has ended there is none but the cluster IP's.
OwnedOK(svc) ==
    \A id \in Owned(svc) :
        /\ Exists(id) /\ policies[id].frontend \in Frontends(serviceMap[svc].base)
        /\ Exempt(id) \/ Serves(svc, id)

\* What a synchronization hands to getLoadBalancer are the service's infos.
SyncOK ==
    task # None /\ task.op = "sync" =>
        /\ \A e \in task.endpoints : Taken(e, endpointsMap[task.svc][e.ip])
        /\ task.stage = "node port" => svcInfo.base.nodePort # 0

PInv == NamedOK /\ SyncOK /\ \A svc \in ServicePortNames : OwnedOK(svc)

-----------------------------------------------------------------------------
(***************************************************************************)
(* What a service port owns.                                               *)
(***************************************************************************)
LEMMA OwnedTyped ==
    ASSUME MapsOK, NEW svc \in ServicePortNames
    PROVE  /\ Owned(svc) \subseteq PolicyIds
           /\ serviceMap[svc] # None =>
                 serviceMap[svc] \in ServiceInfos /\ serviceMap[svc].base \in BaseInfos
<1>1. ServiceOK(serviceMap[svc])
  BY DEF MapsOK
<1>2. serviceMap[svc] # None =>
         /\ serviceMap[svc] \in ServiceInfos /\ serviceMap[svc].base \in BaseInfos
         /\ serviceMap[svc].hnsID \in PolicyIds \cup {None}
         /\ serviceMap[svc].nodePorthnsID \in PolicyIds \cup {None}
  BY <1>1 DEF ServiceOK, ServiceInfos
<1> QED BY <1>2 DEF Owned

\* A load balancer with a frontend of one service port is no other's.
LEMMA OneOwner ==
    ASSUME MapsOK, NamedOK, OwnFrontends, NEW svc \in ServicePortNames, NEW other \in ServicePortNames,
           serviceMap[svc] # None, OwnedOK(other), NEW id \in Owned(other),
           policies[id].frontend \in Frontends(serviceMap[svc].base)
    PROVE  svc = other
<1>1. serviceMap[other] # None
  BY DEF Owned
<1>2. policies[id].frontend \in Frontends(serviceMap[other].base)
  BY DEF OwnedOK
<1>3. /\ serviceMap[svc].base \in BaseInfos /\ serviceMap[other].base \in BaseInfos
      /\ serviceMap[svc].base.name = svc /\ serviceMap[other].base.name = other
  BY <1>1, OwnedTyped DEF NamedOK
<1> QED BY <1>2, <1>3 DEF OwnFrontends

LEMMA OwnNothing ==
    ASSUME NEW svc, Owned(svc)' = {}
    PROVE  OwnedOK(svc)'
<1> QED BY DEF OwnedOK

\* Nothing happens to the service port and its load balancers.
LEMMA OwnedKept ==
    ASSUME NEW svc \in ServicePortNames, OwnedOK(svc), UNCHANGED api,
           endpointsMap'[svc] = endpointsMap[svc],
           serviceMap'[svc] = None <=> serviceMap[svc] = None,
           serviceMap[svc] # None =>
              /\ serviceMap'[svc].base = serviceMap[svc].base
              /\ serviceMap'[svc].hnsID = serviceMap[svc].hnsID
              /\ serviceMap'[svc].nodePorthnsID = serviceMap[svc].nodePorthnsID,
           \A id \in Owned(svc) : policies'[id] = policies[id] /\ (id \in undeleted => id \in undeleted')
    PROVE  OwnedOK(svc)'
<1>1. Owned(svc)' = Owned(svc)
  BY DEF Owned
<1>2. \A id \in Owned(svc) : serviceMap[svc] # None
  BY DEF Owned
<1>3. ASSUME NEW id \in Owned(svc) PROVE Exempt(id)' \/ Serves(svc, id)'
  <2>1. Exempt(id) => Exempt(id)'
    BY DEF Exempt, Retried, Frontend
  <2>2. Serves(svc, id) => Serves(svc, id)'
    BY DEF Serves, Taken
  <2> QED BY <2>1, <2>2 DEF OwnedOK
<1>4. \A id \in Owned(svc)' :
         Exists(id)' /\ policies'[id].frontend \in Frontends(serviceMap'[svc].base)
  BY <1>1, <1>2 DEF OwnedOK, Exists
<1> QED BY <1>1, <1>3, <1>4 DEF OwnedOK

\* The same of every service port but one.
LEMMA OthersKept ==
    ASSUME MapsOK, NEW svc, UNCHANGED <<api, policies>>,
           \A s \in ServicePortNames : OwnedOK(s),
           \A id \in PolicyIds : policies[id] # None /\ id \in undeleted => id \in undeleted',
           \A s \in ServicePortNames \ {svc} :
              serviceMap'[s] = serviceMap[s] /\ endpointsMap'[s] = endpointsMap[s]
    PROVE  \A s \in ServicePortNames \ {svc} : OwnedOK(s)'
<1> SUFFICES ASSUME NEW s \in ServicePortNames \ {svc}
             PROVE  OwnedOK(s)'
  OBVIOUS
<1>1. \A id \in Owned(s) : policies'[id] = policies[id] /\ (id \in undeleted => id \in undeleted')
  BY OwnedTyped DEF OwnedOK, Exists
<1>2. /\ serviceMap'[s] = serviceMap[s] /\ endpointsMap'[s] = endpointsMap[s]
      /\ OwnedOK(s) /\ s \in ServicePortNames
  OBVIOUS
<1> QED BY <1>1, <1>2, OwnedKept

\* Steps that leave all infos and load balancers alone.
LEMMA AllKept ==
    ASSUME MapsOK, UNCHANGED <<api, policies, serviceMap, endpointsMap>>,
           \A s \in ServicePortNames : OwnedOK(s),
           \A id \in PolicyIds : policies[id] # None /\ id \in undeleted => id \in undeleted'
    PROVE  \A s \in ServicePortNames : OwnedOK(s)'
<1>1. ASSUME NEW s \in ServicePortNames PROVE OwnedOK(s)'
  <2>1. \A id \in Owned(s) : policies'[id] = policies[id] /\ (id \in undeleted => id \in undeleted')
    BY OwnedTyped DEF OwnedOK, Exists
  <2> QED BY <2>1, OwnedKept
<1> QED BY <1>1

LEMMA NothingOwned ==
    ASSUME \A svc \in ServicePortNames : serviceMap'[svc] = None
    PROVE  \A svc \in ServicePortNames : OwnedOK(svc)'
<1>1. \A svc \in ServicePortNames : Owned(svc)' = {}
  BY DEF Owned
<1> QED BY <1>1, OwnNothing

\* A handler goes on, or ends.
LEMMA NamedKept ==
    ASSUME NamedOK,
           \A svc \in ServicePortNames : serviceMap'[svc] # None =>
              serviceMap[svc] # None /\ serviceMap'[svc].base = serviceMap[svc].base,
           \/ task' = None
           \/ /\ task # None /\ task'.op = task.op
              /\ task'.svc = task.svc /\ task'.change = task.change
           \/ task' # None /\ task'.op # "service"
    PROVE  NamedOK'
<1> QED BY DEF NamedOK

\* What a service port has before its policy is applied: at most the load
\* balancer of its cluster IP, and that only if a node port was refused.
LEMMA Unapplied ==
    ASSUME IInv, NEW svc \in ServicePortNames, serviceMap[svc] # None, ~serviceMap[svc].policyApplied,
           NEW id \in Owned(svc), Exists(id)
    PROVE  policies[id].frontend \in Retried
<1> DEFINE info == serviceMap[svc]
<1>1. ServiceOK(info) /\ info.base \in BaseInfos
  BY OwnedTyped DEF IInv, MapsOK
<1>2. id = info.hnsID /\ info.base.nodePort # 0 /\ info.hnsID # None
  BY <1>1 DEF ServiceOK, Owned
<1>3. policies[id].frontend = Frontend(info.base, "hnsID")
  BY <1>2 DEF IInv, PoliciesOK
<1> QED BY <1>1, <1>2, <1>3 DEF Retried

-----------------------------------------------------------------------------
(***************************************************************************)
(* The handlers.                                                           *)
(***************************************************************************)
LEMMA BeginPolicies ==
    ASSUME IInv, PInv, UNCHANGED api, NEW svc \in ServicePortNames,
           \/ serviceMapChange(svc, None)
           \/ \E base \in BaseInfos : base.name = svc /\ serviceMapChange(svc, base)
           \/ \E ips \in SUBSET IPs : endpointsMapChange(svc, ips)
           \/ BeginSync(svc)
    PROVE  PInv'
<1> USE DEF IInv, PInv
<1>1. UNCHANGED <<serviceMap, endpointsMap, policies, undeleted>>
  BY DEF serviceMapChange, endpointsMapChange, BeginSync
<1>2. \A s \in ServicePortNames : OwnedOK(s)'
  BY <1>1, AllKept
<1>3. /\ task'.svc = svc
      /\ task'.op = "service" /\ task'.change # None => task'.change.name = svc
      /\ task'.op = "sync" => task'.endpoints = {} /\ task'.stage # "node port"
  BY ServiceMapChangeIs, EndpointsMapChangeIs, BeginSyncIs
<1>4. NamedOK'
  BY <1>1, <1>3 DEF NamedOK
<1>5. SyncOK'
  BY <1>3 DEF SyncOK
<1> QED BY <1>2, <1>4, <1>5

\* deleteAllHnsLoadBalancerPolicy deletes load balancers of its own service
\* only.
LEMMA DeleteOwnPolicies ==
    ASSUME IInv, PInv, OwnFrontends, UNCHANGED api, deleteAllHnsLoadBalancerPolicy
    PROVE  PInv'
<1> USE DEF IInv, PInv
<1> PICK svc : svc = task.svc
  OBVIOUS
<1> DEFINE info == serviceMap[svc]
           new == ServiceInfo(info.base, None, None, info.policyApplied, info.remoteEndpoint)
           ids == {info.hnsID, info.nodePorthnsID} \ {None}
<1>1. /\ task # None /\ task.stage = "policies" /\ svc \in ServicePortNames
      /\ info # None /\ ids \subseteq PolicyIds
      /\ serviceMap' = WithService(svc, new)
      /\ task' = TaskOf(task.op, svc, task.change, task.passes, "endpoints", task.todo, task.endpoints)
      /\ UNCHANGED endpointsMap
  BY DeletePoliciesIs DEF WithService
<1>2. PICK refused \in SUBSET ids :
        /\ policies' = [id \in PolicyIds |-> IF id \in ids \ refused THEN None ELSE policies[id]]
        /\ Refuses(refused)
  BY Adapters DEF deleteAllHnsLoadBalancerPolicy, svcInfo
<1>3. new.base = info.base /\ new.hnsID = None /\ new.nodePorthnsID = None
  BY DEF ServiceInfo
<1> HIDE DEF new
<1>4. /\ serviceMap'[svc] = new
      /\ \A other \in ServicePortNames \ {svc} : serviceMap'[other] = serviceMap[other]
  BY <1>1, SetServiceSlot
<1>5. OwnedOK(svc)'
  BY <1>3, <1>4, OwnNothing DEF Owned
<1>6. ASSUME NEW s \in ServicePortNames \ {svc} PROVE OwnedOK(s)'
  <2>1. \A id \in Owned(s) : id \notin ids
    <3>1. ids = Owned(svc)
      BY <1>1 DEF Owned
    <3>2. ASSUME NEW id \in Owned(s), id \in Owned(svc) PROVE FALSE
      <4>1. policies[id].frontend \in Frontends(serviceMap[svc].base)
        BY <1>1, <3>2 DEF OwnedOK
      <4>2. svc = s
        BY <1>1, <4>1, OneOwner
      <4> QED BY <4>2
    <3> QED BY <3>1, <3>2
  <2>2. ASSUME NEW id \in Owned(s)
        PROVE  policies'[id] = policies[id] /\ (id \in undeleted => id \in undeleted')
    <3>1. id \in PolicyIds /\ policies[id] # None /\ id \notin ids
      BY <2>1, OwnedTyped DEF OwnedOK, Exists
    <3>2. policies'[id] = policies[id]
      BY <1>2, <3>1
    <3>3. refused \subseteq PolicyIds \cup EndpointIds
      BY <1>1
    <3> QED BY <1>2, <3>1, <3>2, <3>3, RefusesKeeps
  <2>3. /\ serviceMap'[s] = serviceMap[s] /\ endpointsMap'[s] = endpointsMap[s]
        /\ OwnedOK(s) /\ s \in ServicePortNames
    BY <1>1, <1>4
  <2> QED BY <2>2, <2>3, OwnedKept
<1>7. task.op # "sync"
  BY <1>1 DEF TaskOK
<1>8. task'.op = task.op /\ task'.svc = task.svc /\ task'.change = task.change
  BY <1>1 DEF TaskOf
<1>9. NamedOK'
  BY <1>1, <1>3, <1>4, <1>8, NamedKept
<1>10. SyncOK'
  BY <1>7, <1>8 DEF SyncOK
<1> QED BY <1>5, <1>6, <1>9, <1>10

\* A clean-up has forgotten the ids of the service when it comes to the
\* endpoints.
LEMMA CleanupEndpointPolicies ==
    ASSUME IInv, PInv, UNCHANGED api, NEW ip, CleanupEndpoint(ip)
    PROVE  PInv'
<1> USE DEF IInv, PInv
<1> PICK svc : svc = task.svc
  OBVIOUS
<1> DEFINE info == endpointsMap[svc][ip]
<1>1. PICK cleaned : /\ Cleanup(info, cleaned)
                     /\ endpointsMap' = WithEndpoint(svc, ip, cleaned)
  BY Zenon DEF CleanupEndpoint, WithEndpoint
<1>2. /\ task # None /\ task.stage = "endpoints" /\ ip \in task.todo
      /\ task' = [task EXCEPT !.todo = task.todo \ {ip}] /\ UNCHANGED serviceMap
  BY DEF CleanupEndpoint, At
<1>3. /\ svc \in ServicePortNames /\ ip \in DOMAIN endpointsMap[svc]
      /\ info \in endpointsInfos({ip}) /\ InfoOK(info)
      /\ serviceMap[svc] # None => serviceMap[svc].hnsID = None /\ serviceMap[svc].nodePorthnsID = None
  BY <1>2, TaskFacts DEF TaskOK, EndpointsOK, svcInfo
<1>4. /\ UNCHANGED policies
      /\ \A id \in PolicyIds : policies[id] # None /\ id \in undeleted => id \in undeleted'
  <2>1. endPointsRefCount \in [EndpointIds -> Uint16]
    BY DEF MapsOK
  <2> QED BY <1>1, <1>3, <2>1, CleanupEffect
<1>5. \A other \in ServicePortNames \ {svc} : endpointsMap'[other] = endpointsMap[other]
  BY <1>1, <1>2, <1>3, SetEndpointSlot
<1>6. \A s \in ServicePortNames \ {svc} : OwnedOK(s)'
  BY <1>2, <1>4, <1>5, OthersKept
<1>7. OwnedOK(svc)'
  BY <1>2, <1>3, OwnNothing DEF Owned
<1>8. task'.op = task.op /\ task'.svc = task.svc /\ task'.change = task.change
  <2>1. task = TaskOf(task.op, task.svc, task.change, task.passes, task.stage, task.todo, task.endpoints)
    BY <1>2, TaskFacts
  <2> QED BY <1>2, <2>1 DEF TaskOf
<1>9. NamedOK'
  BY <1>2, <1>8, NamedKept
<1>10. SyncOK'
  BY <1>2, <1>8 DEF SyncOK, TaskOK
<1> QED BY <1>6, <1>7, <1>9, <1>10

LEMMA CleanupRemotePolicies ==
    ASSUME IInv, PInv, UNCHANGED api, CleanupRemoteEndpoint
    PROVE  PInv'
<1> USE DEF IInv, PInv
<1> PICK svc : svc = task.svc
  OBVIOUS
<1> DEFINE info == serviceMap[svc]
           new(remote) == ServiceInfo(info.base, None, None, FALSE, remote)
<1>1. /\ At("endpoints") /\ task # None /\ task' = NextPass(task) /\ UNCHANGED endpointsMap
      /\ svc \in ServicePortNames
      /\ info # None => info \in ServiceInfos /\ ServiceOK(info)
  BY CleanupRemoteIs
<1>2. \A remote : /\ new(remote).base = info.base
                  /\ new(remote).hnsID = None /\ new(remote).nodePorthnsID = None
  BY DEF ServiceInfo
<1>3. \/ info = None /\ UNCHANGED <<serviceMap, policies, undeleted>>
      \/ /\ info # None
         /\ serviceMap' = WithService(svc, new(None))
         /\ UNCHANGED <<policies, undeleted>>
      \/ /\ info # None /\ info.remoteEndpoint # None
         /\ \E cleaned : /\ Cleanup(info.remoteEndpoint, cleaned)
                         /\ serviceMap' = WithService(svc, new(cleaned))
  BY CleanupRemoteIs DEF WithService
<1> HIDE DEF new
<1>4. /\ UNCHANGED policies
      /\ \A id \in PolicyIds : policies[id] # None /\ id \in undeleted => id \in undeleted'
  <2>1. ASSUME info # None, info.remoteEndpoint # None, NEW cleaned, Cleanup(info.remoteEndpoint, cleaned)
        PROVE  /\ UNCHANGED policies
               /\ \A id \in PolicyIds : policies[id] # None /\ id \in undeleted => id \in undeleted'
    <3>1. info.remoteEndpoint \in VipInfos /\ InfoOK(info.remoteEndpoint)
      BY <1>1, <2>1 DEF ServiceOK, ServiceInfos
    <3>2. endPointsRefCount \in [EndpointIds -> Uint16]
      BY DEF MapsOK
    <3> QED BY <2>1, <3>1, <3>2, CleanupEffect DEF VipInfos
  <2> QED BY <1>3, <2>1
<1>5. /\ \A other \in ServicePortNames \ {svc} : serviceMap'[other] = serviceMap[other]
      /\ \/ info = None /\ serviceMap'[svc] = None
         \/ info # None /\ \E remote : serviceMap'[svc] = new(remote)
  <2>1. ASSUME NEW remote, serviceMap' = WithService(svc, new(remote))
        PROVE  /\ \A other \in ServicePortNames \ {svc} : serviceMap'[other] = serviceMap[other]
               /\ serviceMap'[svc] = new(remote)
    BY <1>1, <2>1, SetServiceSlot
  <2> QED BY <1>3, <2>1
<1>6. \A s \in ServicePortNames \ {svc} : OwnedOK(s)'
  BY <1>1, <1>4, <1>5, OthersKept
<1>7. OwnedOK(svc)'
  BY <1>2, <1>5, OwnNothing DEF Owned
<1>8. task'.op = task.op /\ task'.svc = task.svc /\ task'.change = task.change
  <2>1. task \in Tasks(IF task.op = "endpoints" THEN SUBSET IPs ELSE BaseInfos \cup {None})
    BY <1>1, TaskFacts
  <2> QED BY <1>1, <2>1, NextPassIs DEF TaskOf
<1>9. NamedOK'
  BY <1>1, <1>2, <1>5, <1>8, NamedKept
<1>10. SyncOK'
  BY <1>1, <1>8 DEF SyncOK, TaskOK, At
<1> QED BY <1>6, <1>7, <1>9, <1>10

LEMMA ApplyPolicies ==
    ASSUME IInv, PInv, UNCHANGED api, ApplyChange
    PROVE  PInv'
<1> USE DEF IInv, PInv
<1> PICK svc : svc = task.svc
  OBVIOUS
<1> DEFINE new == IF task.change = None THEN None ELSE newServiceInfo(task.change)
<1>1. /\ task # None /\ task.stage = "apply" /\ task' = None
      /\ UNCHANGED <<policies, undeleted>>
      /\ svc \in ServicePortNames
      /\ serviceMap[svc] # None => serviceMap[svc].hnsID = None /\ serviceMap[svc].nodePorthnsID = None
  BY TaskFacts DEF ApplyChange, At, TaskOK, svcInfo
<1>2. SyncOK'
  BY <1>1 DEF SyncOK
<1>3. CASE task.op = "service"
  <2>1. serviceMap' = WithService(svc, new) /\ UNCHANGED endpointsMap
    BY <1>3 DEF ApplyChange, WithService
  <2>2. new # None => /\ task.change # None /\ new.base = task.change
                      /\ new.hnsID = None /\ new.nodePorthnsID = None
    BY DEF newServiceInfo
  <2> HIDE DEF new
  <2>3. /\ serviceMap'[svc] = new
        /\ \A other \in ServicePortNames \ {svc} : serviceMap'[other] = serviceMap[other]
    BY <1>1, <2>1, SetServiceSlot
  <2>4. \A s \in ServicePortNames \ {svc} : OwnedOK(s)'
    BY <1>1, <2>1, <2>3, OthersKept
  <2>5. OwnedOK(svc)'
    BY <2>2, <2>3, OwnNothing DEF Owned
  <2>6. NamedOK'
    BY <1>1, <1>3, <2>2, <2>3 DEF NamedOK
  <2> QED BY <1>2, <2>4, <2>5, <2>6
<1>4. CASE task.op = "endpoints"
  <2>1. PICK infos : endpointsMap' = [endpointsMap EXCEPT ![svc] = infos] /\ UNCHANGED serviceMap
    BY <1>4 DEF ApplyChange
  <2>2. \A other \in ServicePortNames \ {svc} : endpointsMap'[other] = endpointsMap[other]
    BY <1>1, <2>1 DEF MapsOK
  <2>3. \A s \in ServicePortNames \ {svc} : OwnedOK(s)'
    BY <1>1, <2>1, <2>2, OthersKept
  <2>4. OwnedOK(svc)'
    BY <1>1, <2>1, OwnNothing DEF Owned
  <2>5. NamedOK'
    BY <1>1, <2>1, NamedKept
  <2> QED BY <1>2, <2>3, <2>4, <2>5
<1> QED BY <1>3, <1>4 DEF ApplyChange

-----------------------------------------------------------------------------
(***************************************************************************)
(* The synchronization of a service.                                       *)
(***************************************************************************)
LEMMA VipPolicies ==
    ASSUME IInv, PInv, UNCHANGED api, AcquireServiceVip
    PROVE  PInv'
<1> USE DEF IInv, PInv
<1> PICK svc : svc = task.svc
  OBVIOUS
<1> DEFINE info == serviceMap[svc]
           new(remote) ==
              ServiceInfo(info.base, info.hnsID, info.nodePorthnsID, info.policyApplied, remote)
<1>1. /\ task # None /\ task.stage = "vip" /\ UNCHANGED <<endpointsMap, policies, undeleted>>
      /\ \/ task' = None
         \/ task' = TaskOf(task.op, svc, task.change, task.passes, "acquire", task.todo, task.endpoints)
  BY AcquireServiceVipIs
<1>2. task.op = "sync" /\ svc \in ServicePortNames /\ info # None /\ info \in ServiceInfos
  BY <1>1, SyncFacts DEF svcInfo
<1>3. task' # None =>
      /\ task'.op = task.op /\ task'.svc = task.svc /\ task'.change = task.change
      /\ task'.stage = "acquire" /\ task'.endpoints = task.endpoints
  BY <1>1 DEF TaskOf
<1>4. \A remote : /\ new(remote).base = info.base
                  /\ new(remote).hnsID = info.hnsID
                  /\ new(remote).nodePorthnsID = info.nodePorthnsID
  BY DEF ServiceInfo
<1>5. \/ UNCHANGED serviceMap
      \/ \E remote \in VipInfos : serviceMap' = WithService(svc, new(remote))
  <2> DEFINE remote(id) == EndpointInfo(info.base.clusterIP, api = "V1", id, id, FALSE)
  <2>1. \A id \in RemoteIds : remote(id) \in VipInfos
    BY <1>2 DEF EndpointInfo, VipInfos, endpointsInfos, EndpointIds, ServiceInfos
  <2>2. \/ UNCHANGED serviceMap
        \/ \E id \in RemoteIds : serviceMap' = WithService(svc, new(remote(id)))
    BY AcquireServiceVipIs DEF WithService
  <2> QED BY <2>1, <2>2, Zenon
<1>6. ASSUME NEW remote \in VipInfos, serviceMap' = WithService(svc, new(remote))
      PROVE  /\ serviceMap'[svc] = new(remote) /\ new(remote) # None
             /\ \A other \in ServicePortNames \ {svc} : serviceMap'[other] = serviceMap[other]
  <2>1. new(remote) \in ServiceInfos
    BY <1>2 DEF ServiceInfo, ServiceInfos
  <2> HIDE DEF new
  <2> QED BY <1>1, <1>2, <1>6, <2>1, SetServiceSlot, NotNone
<1> HIDE DEF new
<1>7. /\ \A other \in ServicePortNames \ {svc} : serviceMap'[other] = serviceMap[other]
      /\ serviceMap'[svc] # None
      /\ serviceMap'[svc].base = info.base
      /\ serviceMap'[svc].hnsID = info.hnsID /\ serviceMap'[svc].nodePorthnsID = info.nodePorthnsID
  <2>1. serviceMap'[svc] # None
    BY <1>2, <1>5, <1>6
  <2> QED BY <1>2, <1>4, <1>5, <1>6, <2>1
<1>8. \A s \in ServicePortNames \ {svc} : OwnedOK(s)'
  BY <1>1, <1>7, OthersKept
<1>9. OwnedOK(svc)'
  BY <1>1, <1>2, <1>7, OwnedKept
<1>10. NamedOK'
  BY <1>1, <1>2, <1>3, <1>7, NamedKept
<1>11. SyncOK'
  BY <1>1, <1>2, <1>3 DEF SyncOK, Taken
<1> QED BY <1>8, <1>9, <1>10, <1>11

\* The service has no load balancer yet that must serve its endpoints.
LEMMA AcquireEndpointPolicies ==
    ASSUME IInv, PInv, UNCHANGED api, NEW ip, AcquireEndpoint(ip)
    PROVE  PInv'
<1> USE DEF IInv, PInv
<1> PICK svc : svc = task.svc
  OBVIOUS
<1> DEFINE info == endpointsMap[svc][ip]
<1>1. At("acquire") /\ ip \in task.todo /\ UNCHANGED <<serviceMap, policies, undeleted>>
  BY AcquireEndpointIs
<1>2. /\ svc \in ServicePortNames /\ task # None /\ task.stage = "acquire" /\ task.op = "sync"
      /\ serviceMap[svc] # None /\ ~serviceMap[svc].policyApplied
  BY <1>1, SyncFacts DEF At, svcInfo
<1>3. ASSUME Skip(ip) PROVE PInv'
  <2>1. /\ UNCHANGED endpointsMap
        /\ task' = TaskOf(task.op, svc, task.change, task.passes, task.stage, task.todo \ {ip},
                          task.endpoints)
    BY <1>1, <1>3, SkipIs
  <2>2. /\ task'.op = task.op /\ task'.svc = svc /\ task'.change = task.change
        /\ task'.stage = task.stage /\ task'.endpoints = task.endpoints
    BY <2>1 DEF TaskOf
  <2>3. \A s \in ServicePortNames : OwnedOK(s)'
    BY <1>1, <2>1, AllKept
  <2>4. NamedOK'
    BY <1>1, <1>2, <2>2, NamedKept
  <2>5. SyncOK'
    BY <1>1, <1>2, <2>1, <2>2 DEF SyncOK, Taken
  <2> QED BY <2>3, <2>4, <2>5
<1>4. ASSUME NEW ep, Take(ip, ep), ep.hnsID \in EndpointIds, ep.isLocal \in BOOLEAN,
             ep.isLocal = (ep.hnsID \notin RemoteIds) \/ ep.isLocal = (api = "V1")
      PROVE  PInv'
  <2> DEFINE c == IF ep.isLocal THEN info.refCount ELSE ep.hnsID
             new == EndpointInfo(ip, info.isLocal, ep.hnsID, c, info.ready)
             added == [ip |-> ip, hnsID |-> ep.hnsID]
  <2>1. /\ ip \in DOMAIN endpointsMap[svc]
        /\ endpointsMap' = WithEndpoint(svc, ip, new)
        /\ task' = TaskOf(task.op, svc, task.change, task.passes, task.stage, task.todo \ {ip},
                          task.endpoints \cup {added})
    BY <1>1, <1>4, TakeIs DEF WithEndpoint
  <2>2. /\ new.hnsID = ep.hnsID
        /\ api = "V2" /\ ep.hnsID \in RemoteIds => new.refCount = ep.hnsID
    BY <1>4 DEF EndpointInfo
  <2> HIDE DEF new
  <2>3. /\ endpointsMap'[svc][ip] = new
        /\ \A other \in ServicePortNames \ {svc} : endpointsMap'[other] = endpointsMap[other]
        /\ \A other \in DOMAIN endpointsMap[svc] \ {ip} :
              endpointsMap'[svc][other] = endpointsMap[svc][other]
    <3>1. MapsOK /\ UNCHANGED serviceMap /\ svc \in ServicePortNames
      BY <1>1, <1>2
    <3>2. ip \in DOMAIN endpointsMap[svc] /\ endpointsMap' = WithEndpoint(svc, ip, new)
      BY <2>1
    <3>3. /\ InfoAt(<<svc, ip>>)' = new
          /\ endpointsMap'[svc][ip] = new
      BY <3>1, <3>2, SetEndpointSlot
    <3>4. /\ \A other \in ServicePortNames \ {svc} : endpointsMap'[other] = endpointsMap[other]
      BY <3>1, <3>2, SetEndpointSlot
    <3>5. \A other \in DOMAIN endpointsMap[svc] \ {ip} :
              endpointsMap'[svc][other] = endpointsMap[svc][other]
      BY <3>1, <3>2, SetEndpointSlot
    <3> QED BY <3>3, <3>4, <3>5
  <2>4. \A s \in ServicePortNames \ {svc} : OwnedOK(s)'
    BY <1>1, <2>3, OthersKept
  <2>5. OwnedOK(svc)'
    <3>1. Owned(svc)' = Owned(svc)
      BY <1>1 DEF Owned
    <3>2. \A id \in Owned(svc) : Exists(id) /\ policies[id].frontend \in Retried
      BY <1>2, Unapplied DEF OwnedOK
    <3>3. \A id \in Owned(svc) : Exists(id)' /\ Exempt(id)'
      BY <1>1, <3>2 DEF Exempt, Exists, Retried, Frontend
    <3> QED BY <1>1, <1>2, <3>1, <3>3 DEF OwnedOK
  <2>6. /\ task'.op = task.op /\ task'.svc = svc /\ task'.change = task.change
        /\ task'.stage = "acquire" /\ task'.endpoints = task.endpoints \cup {added}
    BY <1>2, <2>1 DEF TaskOf
  <2>7. NamedOK'
    BY <1>1, <1>2, <2>6, NamedKept
  <2>8. SyncOK'
    <3>1. ASSUME NEW e \in task.endpoints
          PROVE  Taken(e, endpointsMap'[svc][e.ip])
      <4>1. e.ip \in DOMAIN endpointsMap[svc] \ {ip}
        BY <1>1, <1>2 DEF TaskOK
      <4>2. endpointsMap'[svc][e.ip] = endpointsMap[svc][e.ip]
        BY <2>3, <4>1
      <4> QED BY <1>2, <4>2 DEF SyncOK
    <3>2. Taken(added, endpointsMap'[svc][added.ip])
      BY <2>2, <2>3 DEF Taken
    <3> HIDE DEF added
    <3> QED BY <2>6, <3>1, <3>2 DEF SyncOK, Taken
  <2> QED BY <2>4, <2>5, <2>7, <2>8
<1> QED BY <1>3, <1>4, AcquireEndpointIs

\* The service is left.
LEMMA EndPolicies ==
    ASSUME IInv, PInv, task' = None, UNCHANGED <<api, serviceMap, endpointsMap, policies, undeleted>>
    PROVE  PInv'
<1> USE DEF IInv, PInv
<1>1. \A s \in ServicePortNames : OwnedOK(s)'
  BY AllKept
<1>2. NamedOK' /\ SyncOK'
  BY NamedKept DEF SyncOK
<1> QED BY <1>1, <1>2

LEMMA PolicyNotNone ==
    ASSUME NEW base \in BaseInfos, NEW field,
           NEW endpoints \in SUBSET [ip : IPs, hnsID : EndpointIds]
    PROVE  [frontend |-> Frontend(base, field), endpoints |-> endpoints] # None
<1> DEFINE own == [vip : {base.clusterIP, None}, port : {base.port, base.nodePort},
                   protocol : {base.protocol}]
           all == UNION {[vip : {b.clusterIP, None}, port : {b.port, b.nodePort},
                          protocol : {b.protocol}] : b \in BaseInfos}
<1>1. Frontend(base, field) \in own
  BY DEF Frontend
<1>2. own \subseteq all
  OBVIOUS
<1>3. None \notin [frontend : all, endpoints : SUBSET [ip : IPs, hnsID : EndpointIds]]
  BY NoneAssumption DEF EndpointIds
<1> HIDE DEF own, all
<1>4. [frontend |-> Frontend(base, field), endpoints |-> endpoints]
         \in [frontend : all, endpoints : SUBSET [ip : IPs, hnsID : EndpointIds]]
  BY <1>1, <1>2
<1> QED BY <1>3, <1>4

\* A load balancer that getLoadBalancer finds is one of this service's own that
\* a failed synchronization left, or one that HNS refused to delete; a new one
\* gets the endpoints the service has just acquired.
LEMMA AcquireOwnPolicy ==
    ASSUME IInv, PInv, OwnFrontends, phase = "running", UNCHANGED api,
           NEW field \in {"hnsID", "nodePorthnsID"}, AcquirePolicy(field)
    PROVE  PInv'
<1> USE DEF IInv, PInv
<1> PICK svc : svc = task.svc
  OBVIOUS
<1> DEFINE info == serviceMap[svc]
           frontend == Frontend(info.base, field)
           cluster(id) == ServiceInfo(info.base, id, None, Done(field), info.remoteEndpoint)
           node(id) == ServiceInfo(info.base, info.hnsID, id, TRUE, info.remoteEndpoint)
<1>1. /\ task # None /\ task.stage \in {"acquire", "node port"} /\ task.todo = {}
      /\ field = "hnsID" <=> task.stage = "acquire"
      /\ task' = IF Done(field) THEN None ELSE [task EXCEPT !.stage = "node port"]
      /\ UNCHANGED <<endpointsMap, undeleted>>
  BY AcquirePolicyIs
<1>2. /\ task.op = "sync" /\ svc \in ServicePortNames /\ info # None /\ info \in ServiceInfos
      /\ info.base \in BaseInfos /\ ~info.policyApplied
  BY <1>1, SyncFacts DEF svcInfo
<1>3. PICK id \in PolicyIds :
         /\ serviceMap' = WithService(svc, IF field = "hnsID" THEN cluster(id) ELSE node(id))
         /\ \/ policies[id] # None /\ policies[id].frontend = frontend /\ UNCHANGED policies
            \/ /\ id \in UnusedPolicies(frontend)
               /\ policies' = [policies EXCEPT ![id] =
                                  [frontend |-> frontend, endpoints |-> task.endpoints]]
  BY AcquirePolicyIs DEF WithService
<1>4. frontend \in Frontends(info.base)
  <2>1. field \in Fields(info.base)
    <3>1. CASE field = "hnsID"
      BY <3>1 DEF Fields
    <3>2. CASE field # "hnsID"
      <4>1. info.base.nodePort # 0
        BY <1>1, <1>2, <3>2 DEF SyncOK, svcInfo
      <4> QED BY <3>2, <4>1 DEF Fields
    <3> QED BY <3>1, <3>2
  <2> QED BY <2>1 DEF Frontends
<1>5. /\ cluster(id).base = info.base /\ cluster(id).hnsID = id /\ cluster(id).nodePorthnsID = None
      /\ node(id).base = info.base /\ node(id).hnsID = info.hnsID /\ node(id).nodePorthnsID = id
      /\ cluster(id) \in ServiceInfos /\ node(id) \in ServiceInfos
  <2>1. Done(field) \in BOOLEAN
    BY DEF Done
  <2> QED BY <1>2, <2>1 DEF ServiceInfo, ServiceInfos
<1>6. cluster(id) # None /\ node(id) # None
  BY <1>5, NotNone
<1> HIDE DEF cluster, node, frontend
<1>7. /\ serviceMap'[svc] = IF field = "hnsID" THEN cluster(id) ELSE node(id)
      /\ \A other \in ServicePortNames \ {svc} : serviceMap'[other] = serviceMap[other]
  <2> DEFINE new == IF field = "hnsID" THEN cluster(id) ELSE node(id)
  <2>1. serviceMap' = WithService(svc, new) /\ UNCHANGED endpointsMap
    BY <1>1, <1>3
  <2> HIDE DEF new
  <2>2. /\ serviceMap'[svc] = new
        /\ \A other \in ServicePortNames \ {svc} : serviceMap'[other] = serviceMap[other]
    BY <1>2, <2>1, SetServiceSlot
  <2> QED BY <2>2 DEF new
<1>8. serviceMap'[svc] # None /\ serviceMap'[svc].base = info.base
  BY <1>5, <1>6, <1>7
<1>9. \A x \in Owned(svc)' : x = id \/ x \in Owned(svc)
  BY <1>2, <1>5, <1>6, <1>7 DEF Owned
<1>10. /\ \A s \in ServicePortNames : \A x \in Owned(s) : policies'[x] = policies[x]
       /\ policies'[id].frontend = frontend /\ policies'[id] # None
  <2>1. CASE policies[id] # None /\ policies[id].frontend = frontend /\ UNCHANGED policies
    BY <2>1
  <2>2. CASE /\ id \in UnusedPolicies(frontend)
             /\ policies' = [policies EXCEPT ![id] =
                                [frontend |-> frontend, endpoints |-> task.endpoints]]
    <3>1. policies'[id] = [frontend |-> frontend, endpoints |-> task.endpoints]
      BY <2>2 DEF PoliciesOK
    <3>2. \A s \in ServicePortNames : id \notin Owned(s)
      BY <2>2 DEF UnusedPolicies, Owned
    <3>3. \A x \in PolicyIds \ {id} : policies'[x] = policies[x]
      BY <2>2 DEF PoliciesOK
    <3>4. policies'[id] # None
      <4>1. task.endpoints \in SUBSET [ip : IPs, hnsID : EndpointIds]
        BY <1>1, SyncFacts DEF Tasks
      <4> QED BY <1>2, <3>1, <4>1, PolicyNotNone DEF frontend
    <3> QED BY <3>1, <3>2, <3>3, <3>4, OwnedTyped
  <2> QED BY <1>3, <2>1, <2>2
<1>11. ASSUME NEW s \in ServicePortNames \ {svc} PROVE OwnedOK(s)'
  <2>1. /\ serviceMap'[s] = serviceMap[s] /\ endpointsMap'[s] = endpointsMap[s]
        /\ OwnedOK(s) /\ s \in ServicePortNames
        /\ \A x \in Owned(s) : policies'[x] = policies[x]
    BY <1>1, <1>7, <1>10
  <2> QED BY <1>1, <2>1, OwnedKept
<1>12. \A x \in Owned(svc)' :
          Exists(x)' /\ policies'[x].frontend \in Frontends(serviceMap'[svc].base)
  BY <1>2, <1>4, <1>8, <1>9, <1>10 DEF OwnedOK, Exists
<1>13. ASSUME NEW x \in Owned(svc) PROVE Exempt(x)'
  <2>1. policies[x].frontend \in Retried
    BY <1>2, <1>13, Unapplied DEF OwnedOK
  <2> QED BY <1>2, <1>10, <1>13, <2>1 DEF Exempt, Retried, Frontend
<1>14. ASSUME id \notin Owned(svc) PROVE Exempt(id)' \/ Serves(svc, id)'
  <2>1. CASE policies[id] # None /\ policies[id].frontend = frontend /\ UNCHANGED policies
    <3>1. Exempt(id)
      <4> SUFFICES ASSUME ~Exempt(id) PROVE FALSE
        OBVIOUS
      <4>1. PICK s \in ServicePortNames : id \in Owned(s)
        BY <2>1 DEF LeftOK, Exists, Exempt
      <4>2. svc = s
        BY <1>2, <1>4, <2>1, <4>1, OneOwner
      <4> QED BY <1>14, <4>1, <4>2
    <3> QED BY <1>1, <2>1, <3>1 DEF Exempt, Retried, Frontend
  <2>2. CASE policies' = [policies EXCEPT ![id] =
                             [frontend |-> frontend, endpoints |-> task.endpoints]]
    <3>1. policies'[id].endpoints = task.endpoints
      BY <2>2 DEF PoliciesOK
    <3>2. ASSUME NEW e \in task.endpoints, e.hnsID \in RemoteIds
          PROVE  e.ip \in DOMAIN endpointsMap[svc] /\ Taken(e, endpointsMap[svc][e.ip])
      <4>1. e.ip \in DOMAIN endpointsMap[svc]
        BY <1>1, <1>2 DEF TaskOK
      <4> QED BY <1>1, <1>2, <3>2, <4>1 DEF SyncOK
    <3> QED BY <1>1, <3>1, <3>2 DEF Serves, Taken
  <2> QED BY <1>3, <2>1, <2>2
<1>15. OwnedOK(svc)'
  BY <1>9, <1>12, <1>13, <1>14 DEF OwnedOK
<1>16. task' # None =>
          /\ task'.op = task.op /\ task'.svc = svc /\ task'.change = task.change
          /\ task'.endpoints = task.endpoints /\ info.base.nodePort # 0
  <2>1. task = TaskOf(task.op, task.svc, task.change, task.passes, task.stage, task.todo, task.endpoints)
    BY <1>1, TaskFacts
  <2>2. task' # None => task' = [task EXCEPT !.stage = "node port"] /\ ~Done(field)
    BY <1>1
  <2> QED BY <2>1, <2>2 DEF TaskOf, Done, svcInfo
<1>17. NamedOK'
  BY <1>1, <1>2, <1>7, <1>8, <1>16, NamedKept
<1>18. SyncOK'
  <2> SUFFICES ASSUME task' # None
               PROVE  /\ \A e \in task'.endpoints : Taken(e, endpointsMap'[task'.svc][e.ip])
                      /\ svcInfo'.base.nodePort # 0
    BY DEF SyncOK, Taken
  <2> QED BY <1>1, <1>2, <1>8, <1>16 DEF SyncOK, Taken, svcInfo
<1> QED BY <1>11, <1>15, <1>17, <1>18

-----------------------------------------------------------------------------
LEMMA RulesPolicies ==
    ASSUME IInv, PInv, OwnFrontends, RulesStep
    PROVE  PInv'
<1>1. phase = "running" /\ UNCHANGED api
  BY DEF RulesStep
<1>2. CASE CleanupStep
  BY <1>1, <1>2, DeleteOwnPolicies, CleanupRemotePolicies, CleanupEndpointPolicies DEF CleanupStep
<1>3. CASE SyncStep
  <2>1. ASSUME NEW field, PolicyRefused(field) PROVE PInv'
    BY <1>1, <2>1, PolicyRefusedIs, EndPolicies
  <2>2. ASSUME NothingAcquired PROVE PInv'
    BY <1>1, <2>2, EndPolicies DEF NothingAcquired
  <2>3. ASSUME NEW svc \in ServicePortNames, BeginSync(svc) PROVE PInv'
    BY <1>1, <2>3, BeginPolicies
  <2> QED BY <1>1, <1>3, <2>1, <2>2, <2>3, VipPolicies, AcquireEndpointPolicies, AcquireOwnPolicy
          DEF SyncStep
<1>4. CASE ChangeStep
  <2>1. ASSUME NEW base \in BaseInfos, serviceMapChange(base.name, base) PROVE PInv'
    <3>1. base.name \in ServicePortNames
      BY ObjectAssumption
    <3> QED BY <1>1, <2>1, <3>1, BeginPolicies
  <2>2. ASSUME NEW svc \in ServicePortNames, serviceMapChange(svc, None) PROVE PInv'
    BY <1>1, <2>2, BeginPolicies
  <2>3. ASSUME NEW e \in Endpoints, endpointsMapChange(e.name, e.ips) PROVE PInv'
    <3>1. e.name \in ServicePortNames /\ e.ips \in SUBSET IPs
      BY ObjectAssumption
    <3> QED BY <1>1, <2>3, <3>1, BeginPolicies
  <2>4. ASSUME ApplyChange PROVE PInv'
    BY <1>1, <2>4, ApplyPolicies
  <2> QED BY <1>4, <2>1, <2>2, <2>3, <2>4 DEF ChangeStep
<1> QED BY <1>2, <1>3, <1>4 DEF RulesStep

\* Steps that change no info: load balancers change during start-up only,
\* when the Proxier has none.
LEMMA OthersPolicies ==
    ASSUME IInv, CInv, PInv, UNCHANGED <<api, ruleVars>>,
           phase # "running" \/ UNCHANGED <<policies, undeleted>>
    PROVE  PInv'
<1> USE DEF IInv, PInv, ruleVars
<1>1. NamedOK' /\ SyncOK'
  BY DEF NamedOK, SyncOK, Taken, svcInfo
<1>2. CASE phase # "running"
  <2>1. \A svc \in ServicePortNames : serviceMap'[svc] = None
    BY <1>2 DEF CInv, IdleOK
  <2> QED BY <1>1, <2>1, NothingOwned
<1>3. CASE UNCHANGED <<policies, undeleted>>
  <2>1. \A s \in ServicePortNames : OwnedOK(s)'
    BY <1>3, AllKept
  <2> QED BY <1>1, <2>1
<1> QED BY <1>2, <1>3

LEMMA PoliciesPreserved ==
    ASSUME IInv, CInv, PInv, OwnFrontends, [Next]_vars
    PROVE  PInv'
<1>1. CASE RulesStep
  BY <1>1, RulesPolicies
<1>2. CASE Kill
  <2>1. (\A svc \in ServicePortNames : serviceMap'[svc] = None) /\ task' = None
    BY <1>2 DEF Kill
  <2>2. NamedOK' /\ SyncOK'
    BY <2>1 DEF NamedOK, SyncOK
  <2> QED BY <2>1, <2>2, NothingOwned DEF PInv
<1>3. CASE Start \/ StartStep
  <2>1. UNCHANGED <<api, ruleVars>> /\ phase # "running"
    BY <1>3 DEF Start, StartStep, DeletePolicyList, getNetworkInfo, NewProxier, NewProxierFails
  <2> QED BY <2>1, OthersPolicies
<1>4. CASE SinkStep
  <2>1. UNCHANGED <<api, ruleVars>> /\ UNCHANGED <<policies, undeleted>>
    BY <1>4 DEF SinkStep, SetService, DeleteService, hnsVars
  <2> QED BY <2>1, OthersPolicies
<1>5. CASE CniStep
  <2>1. /\ UNCHANGED <<api, ruleVars>>
        /\ phase # "running" \/ UNCHANGED <<policies, undeleted>>
    BY <1>5 DEF CniStep, NetworkChanges, CniCreates, CniDeletes
  <2> QED BY <2>1, OthersPolicies
<1>6. CASE UNCHANGED vars
  <2>1. UNCHANGED <<api, ruleVars>> /\ UNCHANGED <<policies, undeleted>>
    BY <1>6 DEF vars, ruleVars
  <2> QED BY <2>1, OthersPolicies
<1> QED BY <1>1, <1>2, <1>3, <1>4, <1>5, <1>6 DEF Next

\* As long as no counter overflows and no two service ports share a frontend,
\* a settled service's load balancers are in HNS under one of its frontends and
\* send traffic to its present remote endpoints only, which on the V2 API are
\* in HNS: whichever endpoints are ready, whatever HNS refuses to create, list
\* or delete, however CNI deletes endpoints and the agent is killed
\* (getLoadBalancer compares the number of endpoints only, hnsV2.go:191).  The
\* ones that a failed synchronization may have left, and those HNS refused to
\* delete, are excepted.
THEOREM PoliciesAreOwn == Spec /\ []NoOverflow => [](OwnFrontends => PoliciesMatch)
<1>1. Init => PInv
  <2> SUFFICES ASSUME Init PROVE PInv
    OBVIOUS
  <2>1. (\A svc \in ServicePortNames : serviceMap[svc] = None) /\ task = None
    BY DEF Init, RulesInit
  <2>2. \A svc \in ServicePortNames : Owned(svc) = {}
    BY <2>1 DEF Owned
  <2> QED BY <2>1, <2>2 DEF PInv, NamedOK, SyncOK, OwnedOK
<1>2. IInv /\ CInv /\ (OwnFrontends => PInv) /\ [Next]_vars => (OwnFrontends => PInv)'
  <2>1. OwnFrontends' <=> OwnFrontends
    BY DEF OwnFrontends, Frontends, Fields, Frontend
  <2> QED BY <2>1, PoliciesPreserved
<1>3. IInv /\ CInv /\ (OwnFrontends => PInv) => (OwnFrontends => PoliciesMatch)
  <2> SUFFICES ASSUME IInv, CInv, PInv, NEW svc \in ServicePortNames, NEW id \in Owned(svc)
               PROVE  /\ policies[id] # None
                      /\ policies[id].frontend \in
                            {Frontend(serviceMap[svc].base, f) : f \in {"hnsID", "nodePorthnsID"}}
                      /\ id \in undeleted \/ policies[id].frontend \in Retried \/
                         \A e \in policies[id].endpoints : e.hnsID \in RemoteIds =>
                            /\ e.ip \in DOMAIN endpointsMap[svc]
                            /\ endpointsMap[svc][e.ip].hnsID = e.hnsID
                            /\ api = "V2" => hnsEndpoints[e.hnsID] # None
    BY DEF PoliciesMatch
  <2>1. OwnedOK(svc)
    BY DEF PInv
  <2>2. policies[id] # None /\ policies[id].frontend \in Frontends(serviceMap[svc].base)
    BY <2>1 DEF OwnedOK, Exists
  <2>3. id \in undeleted \/ policies[id].frontend \in Retried \/ Serves(svc, id)
    BY <2>1 DEF OwnedOK, Exempt
  <2>4. ASSUME api = "V2", NEW ip \in DOMAIN endpointsMap[svc],
               endpointsMap[svc][ip].refCount \in RemoteIds
        PROVE  hnsEndpoints[endpointsMap[svc][ip].refCount] # None
    <3> DEFINE info == endpointsMap[svc][ip]
               slot == <<svc, ip>>
    <3>1. ip \in IPs /\ info \in endpointsInfos({ip})
      BY DEF IInv, MapsOK, EndpointsOK
    <3>2. slot \in ServicePortNames \X IPs /\ slot \notin ServicePortNames
      BY <3>1, RulesAssumption
    <3>3. slot \in Slots /\ InfoAt(slot) = info /\ info # None
      BY <3>1, <3>2, NotNone DEF Slots, InfoAt, EndpointAt
    <3>4. Shared(InfoAt(slot))
      BY <2>4, <3>3 DEF Shared, EndpointIds
    <3> QED BY <2>4, <3>3, <3>4 DEF CInv, SharedOK, InfoShares, Reliable
  <2>5. Fields(serviceMap[svc].base) \subseteq {"hnsID", "nodePorthnsID"}
    BY DEF Fields
  <2> QED BY <2>2, <2>3, <2>4, <2>5 DEF Serves, Taken, Frontends
<1> QED BY <1>1, <1>2, <1>3, Invariance, CountsInvariance, PTL DEF Spec
=============================================================================
