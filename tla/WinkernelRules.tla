--------------------------- MODULE WinkernelRules ---------------------------
(***************************************************************************)
(* The rules of the winkernel Proxier: its service and endpoint infos      *)
(* (winkernel/service.go, endpoints.go), the counters of endpoints they    *)
(* share, and the clean-up of what they have in HNS (hns.go), over the two *)
(* adapters.                                                               *)
(*                                                                         *)
(* A handler runs under proxier.mu and calls HNS many times; it is split   *)
(* at those calls, so that CNI may change HNS and the agent may be killed  *)
(* between any two.  The clean-up is the code's.  Its counterpart, which   *)
(* acquires endpoints and load balancers, is syncProxyRules; its body is   *)
(* commented out in this repository (proxier.go:284-652), as is the        *)
(* function that applies changes to the maps.  The actions called external *)
(* below do what that text does, because the infos were written for it.    *)
(*                                                                         *)
(* World is what HNS may do: refuse to create an endpoint or a load        *)
(* balancer ("create"), fail to list them ("list") or to find one by its   *)
(* id ("get") although it has it.  Deletes are refused up to MaxUndeleted. *)
(***************************************************************************)
EXTENDS Integers, FiniteSets, Functions

CONSTANTS ServicePortNames, IPs, None,
          Own,                  \* the counter of an endpointsInfo that is its own
          World,                \* which calls of HNS may fail
          RemoteIds, LocalIds,  \* ids of HNS endpoints: created by the Proxier ([ip, n]), by CNI
          PolicyIds,            \* ids of load balancers, [port, n]
          BaseInfos,            \* [name, clusterIP, port, nodePort, protocol]: service ports
          Endpoints,            \* [name, ips]: the addresses a service port may have
          CniEndpoints,         \* [ips, network]: endpoints CNI creates and deletes
          Networks, Overlay,    \* HNS networks, and the ones of type overlay
          MaxUndeleted,         \* bound: what HNS has refused to delete and still has
          MaxRefCount           \* bound: counters at which no synchronization begins

ASSUME RulesAssumption ==
    /\ Overlay \subseteq Networks
    /\ World \subseteq {"create", "list", "get"}
    /\ MaxUndeleted \in Nat /\ MaxRefCount \in Nat
    /\ RemoteIds \cap LocalIds = {}
    /\ PolicyIds \cap (RemoteIds \cup LocalIds) = {}
    /\ \A id \in RemoteIds \cup PolicyIds : id.n \in Nat
    /\ IsFiniteSet(ServicePortNames) /\ IsFiniteSet(IPs)
    /\ ServicePortNames \cap (ServicePortNames \X IPs) = {}

\* What the API and CNI send.
ASSUME ObjectAssumption ==
    /\ \A base \in BaseInfos : base.name \in ServicePortNames
    /\ \A e \in Endpoints : e.name \in ServicePortNames /\ e.ips \subseteq IPs
    /\ \A ep \in CniEndpoints : ep.network \in Networks

\* None is no id, no endpoint or load balancer of HNS, no info and no handler.
ASSUME NoneAssumption ==
    LET ids == RemoteIds \cup LocalIds
        addresses == IPs \cup {base.clusterIP : base \in BaseInfos}
        endpointsInfos == [ip : addresses, isLocal : BOOLEAN, hnsID : ids \cup {None},
                           refCount : ids \cup {Own, None}, ready : BOOLEAN]
        frontends == UNION {[vip : {base.clusterIP, None}, port : {base.port, base.nodePort},
                             protocol : {base.protocol}] : base \in BaseInfos}
    IN  /\ None \notin ids \cup PolicyIds \cup {Own} /\ Own \notin ids
        /\ None \notin [frontend : frontends, endpoints : SUBSET [ip : IPs, hnsID : ids]]
        /\ None \notin [ips : {<<ip>> : ip \in addresses}, remote : BOOLEAN, network : Networks]
        /\ None \notin [hnsID : ids, ip : addresses, isLocal : BOOLEAN]
        /\ None \notin endpointsInfos
        /\ None \notin [base : BaseInfos, hnsID : PolicyIds \cup {None},
                        nodePorthnsID : PolicyIds \cup {None}, policyApplied : BOOLEAN,
                        remoteEndpoint : endpointsInfos \cup {None}]
        /\ None \notin [op : {"service", "endpoints", "sync"}, svc : ServicePortNames,
                        change : BaseInfos \cup {None} \cup SUBSET IPs, passes : Nat,
                        stage : {"policies", "endpoints", "apply", "vip", "acquire", "node port"},
                        todo : SUBSET IPs, endpoints : SUBSET [ip : IPs, hnsID : ids]]

VARIABLES api,                \* "V1" or "V2": what newHostNetworkService found
          network,            \* the HNS network of the configured name, or None
          hnsEndpoints,       \* HNS: id -> [ips, remote, network], or None
          policies,           \* HNS: id -> [frontend, endpoints], or None
          serviceMap,         \* Proxier.serviceMap: name -> serviceInfo, or None
          endpointsMap,       \* Proxier.endpointsMap: name -> ip -> endpointsInfo
          endPointsRefCount,  \* Proxier.endPointsRefCount: id -> counter
          task,               \* the handler in progress, or None
          undeleted           \* what HNS refused to delete and still has (ids)

hnsVars == <<network, hnsEndpoints, policies>>
ruleVars == <<serviceMap, endpointsMap, endPointsRefCount, task>>

EndpointIds == RemoteIds \cup LocalIds

V1 == INSTANCE HnsV1
V2 == INSTANCE HnsV2

\* The HostNetworkService of the Windows version.
getNetworkByName == IF api = "V1" THEN V1!getNetworkByName ELSE V2!getNetworkByName
getEndpointByID(id) == IF api = "V1" THEN V1!getEndpointByID(id) ELSE V2!getEndpointByID(id)
getEndpointByIpAddress(ip) ==
    IF api = "V1" THEN V1!getEndpointByIpAddress(ip) ELSE V2!getEndpointByIpAddress(ip)
createEndpoint(ep, id) ==
    IF api = "V1" THEN V1!createEndpoint(ep, id) ELSE V2!createEndpoint(ep, id)
CreatedEndpoint(ep, id) ==
    IF api = "V1" THEN V1!CreatedEndpoint(ep, id) ELSE V2!CreatedEndpoint(ep, id)
deleteEndpoint(id) == IF api = "V1" THEN V1!deleteEndpoint(id) ELSE V2!deleteEndpoint(id)
getLoadBalancer(endpoints, frontend, id) ==
    IF api = "V1" THEN V1!getLoadBalancer(endpoints, frontend, id)
                  ELSE V2!getLoadBalancer(endpoints, frontend, id)
deleteLoadBalancers(ids) ==
    IF api = "V1" THEN V1!deleteLoadBalancers(ids) ELSE V2!deleteLoadBalancers(ids)

\* External: HNS refuses to delete `ids`, up to the bound.
Refuses(ids) ==
    /\ undeleted' = {id \in undeleted \cup ids :
                        IF id \in EndpointIds THEN hnsEndpoints'[id] # None ELSE policies'[id] # None}
    /\ ids # {} => Cardinality(undeleted') <= MaxUndeleted

-----------------------------------------------------------------------------
(***************************************************************************)
(* Infos.  refCount is the pointer of an endpointsInfo: to its own counter *)
(* (Own, zero since new(uint16)), to the counter that the infos of one HNS *)
(* endpoint share (its id, an index of endPointsRefCount), or nil (None).  *)
(***************************************************************************)
\* Setup passes no hostname, so no endpoint of the API is local.
newEndpointInfo(ip, ready) ==
    [ip |-> ip, isLocal |-> FALSE, hnsID |-> None, refCount |-> Own, ready |-> ready]

newServiceInfo(baseInfo) ==
    [base |-> baseInfo, hnsID |-> None, nodePorthnsID |-> None,
     policyApplied |-> FALSE, remoteEndpoint |-> None]

\* Mistakes: a counter that stops at zero; the last reference is not awaited.
DecrementedSaturating(count) == IF count = 0 THEN 0 ELSE count - 1
DecrementedToZero(count) == 0

\* uint16 arithmetic: one less than zero is 65535.
Decremented(count) == (count - 1) % 65536

\* Mistake: the counter's pointer is kept, so the next pass counts down again.
CleanupKeepsPointer(info, cleaned) ==
    LET counted == {info.refCount} \cap EndpointIds
    IN  /\ cleaned = info
        /\ endPointsRefCount' = [id \in EndpointIds |->
              IF id \in counted THEN Decremented(endPointsRefCount[id]) ELSE endPointsRefCount[id]]
        /\ UNCHANGED policies
        /\ \/ UNCHANGED <<hnsEndpoints, undeleted>>
           \/ /\ \E id \in counted : endPointsRefCount'[id] = 0
              /\ deleteEndpoint(info.hnsID)
              /\ Refuses({})

\* endpointsInfo.Cleanup; `cleaned` is what it leaves of the info.
Cleanup(info, cleaned) ==
    LET shared == info.refCount \in EndpointIds
        count == Decremented(IF shared THEN endPointsRefCount[info.refCount] ELSE 0)
        forgotten == [info EXCEPT !.refCount = None]
        known == {info.hnsID} \cap {id \in EndpointIds : getEndpointByID(id) # None}
    IN  /\ UNCHANGED policies
        /\ \/ /\ info.isLocal \/ info.refCount = None
              /\ cleaned = info
              /\ UNCHANGED <<endPointsRefCount, hnsEndpoints, undeleted>>
           \/ /\ ~info.isLocal /\ info.refCount # None
              /\ endPointsRefCount' =
                    IF shared THEN [endPointsRefCount EXCEPT ![info.refCount] = count]
                              ELSE endPointsRefCount
              /\ \/ /\ count > 0
                    /\ cleaned = forgotten
                    /\ UNCHANGED <<hnsEndpoints, undeleted>>
                 \/ /\ count = 0
                    /\ deleteEndpoint(info.hnsID)
                    /\ Refuses({})
                    /\ cleaned = [forgotten EXCEPT !.hnsID = None]
                 \/ /\ count = 0
                    /\ UNCHANGED hnsEndpoints
                    /\ Refuses(known)
                    /\ cleaned = forgotten

\* What Cleanup may leave of an info.
Cleaned(info) == {info, [info EXCEPT !.refCount = None],
                  [info EXCEPT !.refCount = None, !.hnsID = None]}

-----------------------------------------------------------------------------
RulesInit ==
    /\ serviceMap = [svc \in ServicePortNames |-> None]
    /\ endpointsMap = [svc \in ServicePortNames |-> [ip \in {} |-> None]]
    /\ endPointsRefCount = [id \in EndpointIds |-> 0]
    /\ task = None

\* The handler in progress: it works on svc and has reached `stage`, `todo`
\* are the endpoints still to be handled, `passes` the calls of the clean-up
\* still to be made, and `change` what is put in the map in the end.
Task(op, svc, change, passes) ==
    [op |-> op, svc |-> svc, change |-> change, passes |-> passes,
     stage |-> "apply", todo |-> {}, endpoints |-> {}]

At(stage) == task # None /\ task.stage = stage

svcInfo == serviceMap[task.svc]

\* onServiceMapChange and onEndpointsMapChange: clean up the service's
\* policies, or only its endpoints ("Endpoints are orphaned"), once more.
NextPass(t) ==
    IF t.passes = 0 THEN [t EXCEPT !.stage = "apply"]
    ELSE [t EXCEPT !.passes = @ - 1,
                   !.stage = IF serviceMap[t.svc] # None THEN "policies"
                             ELSE IF t.op = "endpoints" THEN "endpoints" ELSE "apply",
                   !.todo = DOMAIN endpointsMap[t.svc]]

\* serviceMapChange: the change of one service port, to baseInfo or to None.
serviceMapChange(svc, baseInfo) ==
    /\ task = None
    /\ serviceMap[svc] # None \/ baseInfo # None
    /\ task' = NextPass(Task("service", svc, baseInfo, 1))
    /\ UNCHANGED <<serviceMap, endpointsMap, endPointsRefCount, hnsEndpoints, policies, undeleted>>

\* endpointsMapChange: the handler is called for the keys of the old map and
\* then for the keys of the new one, so twice for a key of both.
endpointsMapChange(svc, ips) ==
    LET old == IF DOMAIN endpointsMap[svc] = {} THEN 0 ELSE 1
        new == IF ips = {} THEN 0 ELSE 1
    IN  /\ task = None
        /\ old + new > 0
        /\ task' = NextPass(Task("endpoints", svc, ips, old + new))
        /\ UNCHANGED <<serviceMap, endpointsMap, endPointsRefCount, hnsEndpoints, policies, undeleted>>

\* Mistake: the ids are forgotten before they are used.
ForgetAllHnsLoadBalancerPolicy ==
    /\ At("policies")
    /\ serviceMap' = [serviceMap EXCEPT ![task.svc].hnsID = None,
                                        ![task.svc].nodePorthnsID = None]
    /\ task' = [task EXCEPT !.stage = "endpoints"]
    /\ UNCHANGED <<endpointsMap, endPointsRefCount, hnsEndpoints, policies, undeleted>>

\* deleteAllHnsLoadBalancerPolicy of a service: HNS may refuse to delete,
\* which is not looked at; the ids are forgotten in any case.
deleteAllHnsLoadBalancerPolicy ==
    LET ids == {svcInfo.hnsID, svcInfo.nodePorthnsID} \ {None}
    IN  /\ At("policies")
        /\ UNCHANGED hnsEndpoints
        /\ \E refused \in SUBSET ids : deleteLoadBalancers(ids \ refused) /\ Refuses(refused)
        /\ serviceMap' = [serviceMap EXCEPT ![task.svc].hnsID = None,
                                            ![task.svc].nodePorthnsID = None]
        /\ task' = [task EXCEPT !.stage = "endpoints"]
        /\ UNCHANGED <<endpointsMap, endPointsRefCount>>

\* cleanupAllPolicies and onEndpointsMapChange: one endpoint of the list.
CleanupEndpoint(ip) ==
    /\ At("endpoints")
    /\ ip \in task.todo
    /\ \E cleaned \in Cleaned(endpointsMap[task.svc][ip]) :
          /\ Cleanup(endpointsMap[task.svc][ip], cleaned)
          /\ endpointsMap' = [endpointsMap EXCEPT ![task.svc][ip] = cleaned]
    /\ task' = [task EXCEPT !.todo = @ \ {ip}]
    /\ UNCHANGED serviceMap

\* cleanupAllPolicies: the service's own endpoint, and the end of a pass.
CleanupRemoteEndpoint ==
    /\ At("endpoints")
    /\ task.todo = {}
    /\ \/ /\ svcInfo = None
          /\ UNCHANGED <<serviceMap, endPointsRefCount, hnsEndpoints, policies, undeleted>>
       \/ /\ svcInfo # None
          /\ svcInfo.remoteEndpoint = None
          /\ serviceMap' = [serviceMap EXCEPT ![task.svc].policyApplied = FALSE]
          /\ UNCHANGED <<endPointsRefCount, hnsEndpoints, policies, undeleted>>
       \/ /\ svcInfo # None
          /\ svcInfo.remoteEndpoint # None
          /\ \E cleaned \in Cleaned(svcInfo.remoteEndpoint) :
                /\ Cleanup(svcInfo.remoteEndpoint, cleaned)
                /\ serviceMap' = [serviceMap EXCEPT
                      ![task.svc].remoteEndpoint = cleaned, ![task.svc].policyApplied = FALSE]
    /\ task' = NextPass(task)
    /\ UNCHANGED endpointsMap

\* External: the apply function puts the change in the map.
ApplyChange ==
    /\ At("apply")
    /\ \/ /\ task.op = "service"
          /\ serviceMap' = [serviceMap EXCEPT ![task.svc] =
                IF task.change = None THEN None ELSE newServiceInfo(task.change)]
          /\ UNCHANGED endpointsMap
       \/ /\ task.op = "endpoints"
          /\ \E ready \in SUBSET task.change :
                endpointsMap' = [endpointsMap EXCEPT ![task.svc] =
                   [ip \in task.change |-> newEndpointInfo(ip, ip \in ready)]]
          /\ UNCHANGED serviceMap
    /\ task' = None
    /\ UNCHANGED <<endPointsRefCount, hnsEndpoints, policies, undeleted>>

-----------------------------------------------------------------------------
(***************************************************************************)
(* External: syncProxyRules for one service whose policy is not applied.   *)
(* `continue` in its text ends the work on an endpoint, or on the service, *)
(* which is then left as it is for the next synchronization.               *)
(***************************************************************************)
Remembered(id) ==
    \/ endPointsRefCount[id] > 0
    \/ \E svc \in ServicePortNames :
          \/ \E ip \in DOMAIN endpointsMap[svc] : endpointsMap[svc][ip].hnsID = id
          \/ /\ serviceMap[svc] # None /\ serviceMap[svc].remoteEndpoint # None
             /\ serviceMap[svc].remoteEndpoint.hnsID = id
    \/ \E p \in PolicyIds : policies[p] # None /\ \E e \in policies[p].endpoints : e.hnsID = id

\* The id of a new endpoint: HNS's are never used again, the model's not
\* while anyone knows them.
Unused(ip) == {id \in RemoteIds : id.ip = ip /\ hnsEndpoints[id] = None /\ ~Remembered(id)}

Least(S) == CHOOSE id \in S : \A other \in S : id.n <= other.n

\* What creating an endpoint may return: the id, or None for an error.
NewIds(ip) ==
    (IF Unused(ip) = {} THEN {} ELSE {Least(Unused(ip))})
        \cup (IF "create" \in World THEN {None} ELSE {})

\* What looking an endpoint up by its id, if it has one, and else by its
\* address may return; None for neither.
LookedUp(id, ip) ==
    LET known == {getEndpointByID(id)} \ {None}
        listed == getEndpointByIpAddress(ip)
    IN  IF known # {} /\ "get" \notin World THEN known
        ELSE IF listed # {} /\ "list" \notin World THEN known \cup listed
        ELSE known \cup listed \cup {None}

Remote(ip) == [ip |-> ip, isLocal |-> FALSE]

Incremented(count) == (count + 1) % 65536

Counted(id) == endPointsRefCount' = [endPointsRefCount EXCEPT ![id] = Incremented(@)]

BeginSync(svc) ==
    /\ task = None
    /\ serviceMap[svc] # None
    /\ ~serviceMap[svc].policyApplied
    /\ \A id \in EndpointIds : endPointsRefCount[id] < MaxRefCount
    /\ task' = [Task("sync", svc, None, 0) EXCEPT
          !.stage = IF network \in Overlay THEN "vip" ELSE "acquire",
          !.todo = DOMAIN endpointsMap[svc]]
    /\ UNCHANGED <<serviceMap, endpointsMap, endPointsRefCount, hnsEndpoints, policies, undeleted>>

\* On an overlay network the service's address gets an endpoint of its own;
\* if HNS refuses, the service is left.
AcquireServiceVip ==
    LET vip == svcInfo.base.clusterIP
        goOn == task' = [task EXCEPT !.stage = "acquire"]
    IN  /\ At("vip")
        /\ \/ /\ LookedUp(None, vip) # {None}
              /\ goOn
              /\ UNCHANGED <<serviceMap, endPointsRefCount, hnsEndpoints>>
           \/ /\ None \in LookedUp(None, vip)
              /\ \E id \in NewIds(vip) :
                    /\ createEndpoint(Remote(vip), id)
                    /\ \/ /\ id = None
                          /\ task' = None
                          /\ UNCHANGED <<serviceMap, endPointsRefCount>>
                       \/ /\ id # None
                          /\ serviceMap' = [serviceMap EXCEPT ![task.svc].remoteEndpoint =
                                [ip |-> vip, isLocal |-> CreatedEndpoint(Remote(vip), id).isLocal,
                                 hnsID |-> id, refCount |-> id, ready |-> FALSE]]
                          /\ Counted(id)
                          /\ goOn
        /\ UNCHANGED <<endpointsMap, policies, undeleted>>

\* "We only share the refCounts for remote endpoints."
Take(ip, ep) ==
    /\ endpointsMap' = [endpointsMap EXCEPT
          ![task.svc][ip].hnsID = ep.hnsID,
          ![task.svc][ip].refCount = IF ep.isLocal THEN @ ELSE ep.hnsID]
    /\ IF ep.isLocal THEN UNCHANGED endPointsRefCount ELSE Counted(ep.hnsID)
    /\ task' = [task EXCEPT !.todo = @ \ {ip}, !.endpoints = @ \cup {[ip |-> ip, hnsID |-> ep.hnsID]}]

\* The service does without the endpoint.
Skip(ip) ==
    /\ task' = [task EXCEPT !.todo = @ \ {ip}]
    /\ UNCHANGED <<endpointsMap, endPointsRefCount>>

\* Only of an endpoint that is ready: by id, by address, else a new remote
\* endpoint.
AcquireEndpoint(ip) ==
    LET info == endpointsMap[task.svc][ip]
    IN  /\ At("acquire")
        /\ ip \in task.todo
        /\ \/ ~info.ready /\ Skip(ip) /\ UNCHANGED hnsEndpoints
           \/ /\ info.ready
              /\ \E ep \in LookedUp(info.hnsID, ip) \ {None} : Take(ip, ep) /\ UNCHANGED hnsEndpoints
           \/ /\ info.ready
              /\ None \in LookedUp(info.hnsID, ip)
              /\ \E id \in NewIds(ip) :
                    /\ createEndpoint(Remote(ip), id)
                    /\ IF id = None THEN Skip(ip) ELSE Take(ip, CreatedEndpoint(Remote(ip), id))
        /\ UNCHANGED <<serviceMap, policies, undeleted>>

\* "Endpoint information not available for service".
NothingAcquired ==
    /\ At("acquire")
    /\ task.todo = {}
    /\ task.endpoints = {}
    /\ task' = None
    /\ UNCHANGED <<serviceMap, endpointsMap, endPointsRefCount, hnsEndpoints, policies, undeleted>>

\* The cluster IP with the port, and every address with the node port.
Frontend(base, field) ==
    IF field = "hnsID" THEN [vip |-> base.clusterIP, port |-> base.port, protocol |-> base.protocol]
    ELSE [vip |-> None, port |-> base.nodePort, protocol |-> base.protocol]

UnusedPolicies(frontend) ==
    {id \in PolicyIds : /\ id.port = frontend.port
                        /\ policies[id] = None
                        /\ \A svc \in ServicePortNames : serviceMap[svc] # None =>
                              id \notin {serviceMap[svc].hnsID, serviceMap[svc].nodePorthnsID}}

\* Every endpoint was tried; the load balancer of the cluster IP comes first.
WantsPolicy(field) ==
    IF field = "hnsID" THEN At("acquire") /\ task.todo = {} /\ task.endpoints # {}
                       ELSE At("node port")

Done(field) == field = "nodePorthnsID" \/ svcInfo.base.nodePort = 0

AcquirePolicy(field) ==
    /\ WantsPolicy(field)
    /\ LET frontend == Frontend(svcInfo.base, field)
           unused == UnusedPolicies(frontend)
       IN  \E id \in {p \in PolicyIds : policies[p] # None} \cup
                      (IF unused = {} THEN {} ELSE {Least(unused)}) :
              /\ getLoadBalancer(task.endpoints, frontend, id)
              /\ serviceMap' = [serviceMap EXCEPT ![task.svc][field] = id,
                                                  ![task.svc].policyApplied = Done(field)]
    /\ task' = IF Done(field) THEN None ELSE [task EXCEPT !.stage = "node port"]
    /\ UNCHANGED <<endpointsMap, endPointsRefCount, hnsEndpoints, undeleted>>

\* getLoadBalancer fails, for whatever reason: the service is left, with the
\* load balancer of its cluster IP if it was its node port's that failed.
PolicyRefused(field) ==
    LET frontend == Frontend(svcInfo.base, field)
    IN  /\ WantsPolicy(field)
        /\ \/ World # {}
           \/ /\ \E e \in task.endpoints : getEndpointByID(e.hnsID) = None
              /\ V2!ExistingLoadBalancers(task.endpoints, frontend) = {}
        /\ getLoadBalancer(task.endpoints, frontend, None)
        /\ task' = None
        /\ UNCHANGED <<serviceMap, endpointsMap, endPointsRefCount, hnsEndpoints, undeleted>>
=============================================================================
