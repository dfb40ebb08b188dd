-------------------------- MODULE WinkernelProxier --------------------------
(***************************************************************************)
(* The winkernel agent: start-up (Setup, NewProxier), the kpng sink        *)
(* (winkernel/sink.go) with the ServiceChangeTracker as an instance, and   *)
(* the rules of WinkernelRules.  The agent may be killed between any two   *)
(* steps and started again; HNS and what CNI does to it go on.             *)
(***************************************************************************)
EXTENDS WinkernelRules

CONSTANTS Names,     \* services
          Services   \* service objects of the API

ASSUME SinkAssumption == None \notin Services /\ \A s \in Services : s.name \in Names

VARIABLES phase,               \* "down", "exited", "policies" or "overlay"
                               \* (starting), "running"
          plists,              \* policy lists still to be deleted at start-up
          items,               \* ServiceChangeTracker.items
          PersistentServices   \* ServiceChangeTracker.PersistentServices

vars == <<api, network, hnsEndpoints, policies, serviceMap, endpointsMap,
          endPointsRefCount, task, undeleted, phase, plists, items,
          PersistentServices>>

sinkVars == <<items, PersistentServices>>

Tracker == INSTANCE ServiceChangeTracker WITH makeServiceInfo <- newServiceInfo

-----------------------------------------------------------------------------
Init ==
    /\ api \in {"V1", "V2"}
    /\ network \in Networks \cup {None}
    /\ hnsEndpoints = [id \in EndpointIds |-> None]
    /\ policies = [id \in PolicyIds |-> None]
    /\ undeleted = {}
    /\ RulesInit
    /\ Tracker!Init
    /\ phase = "down"
    /\ plists = {}

\* Mistake: a restarted agent leaves the policy lists of the last one.
StartKeepsPolicies ==
    /\ phase \in {"down", "exited"}
    /\ phase' = "policies"
    /\ plists' = {}
    /\ UNCHANGED <<api, hnsVars, undeleted, ruleVars, sinkVars>>

\* deleteAllHnsLoadBalancerPolicy: the policy lists HNS has, or none if it
\* cannot list them.
Start ==
    /\ phase \in {"down", "exited"}
    /\ phase' = "policies"
    /\ UNCHANGED <<hnsEndpoints, policies>>
    /\ LET present == {id \in PolicyIds : policies[id] # None}
       IN  \E refused \in {{}, present} : plists' = present \ refused /\ Refuses(refused)
    /\ UNCHANGED <<api, network, ruleVars, sinkVars>>

\* One policy list; "Failed to delete policy list" is only logged.
DeletePolicyList(id) ==
    /\ phase = "policies"
    /\ id \in plists
    /\ plists' = plists \ {id}
    /\ UNCHANGED hnsEndpoints
    /\ \E refused \in SUBSET {id} : deleteLoadBalancers({id} \ refused) /\ Refuses(refused)
    /\ UNCHANGED <<api, network, ruleVars, phase, sinkVars>>

\* getNetworkInfo polls until HNS has the network; of an overlay network
\* NewProxier then asks again.
isOverlay(n) == n \in Overlay

getNetworkInfo ==
    /\ phase = "policies"
    /\ plists = {}
    /\ getNetworkByName # None
    /\ phase' = IF isOverlay(getNetworkByName) THEN "overlay" ELSE "running"
    /\ UNCHANGED <<api, hnsVars, ruleVars, undeleted, plists, sinkVars>>

\* "could not find HNS network", no support of remote subnets or no host MAC
\* address: NewProxier returns an error and Setup exits.
NewProxierFails ==
    /\ phase = "overlay"
    /\ getNetworkByName = None \/ isOverlay(getNetworkByName)
    /\ phase' = "exited"
    /\ UNCHANGED <<api, hnsVars, ruleVars, undeleted, plists, sinkVars>>

\* Mistake: the error of asking again is not looked at.
NewProxierUnchecked ==
    /\ phase = "overlay"
    /\ phase' = "running"
    /\ UNCHANGED <<api, hnsVars, ruleVars, undeleted, plists, sinkVars>>

NewProxier ==
    /\ phase = "overlay"
    /\ getNetworkByName # None
    /\ phase' = "running"
    /\ UNCHANGED <<api, hnsVars, ruleVars, undeleted, plists, sinkVars>>

\* The agent is killed: only HNS remembers.  kpng sends everything again.
Kill ==
    /\ phase # "down"
    /\ phase' = "down"
    /\ plists' = {}
    /\ serviceMap' = [svc \in ServicePortNames |-> None]
    /\ endpointsMap' = [svc \in ServicePortNames |-> [ip \in {} |-> None]]
    /\ endPointsRefCount' = [id \in EndpointIds |-> 0]
    /\ task' = None
    /\ items' = [n \in Names |-> None]
    /\ PersistentServices' = [n \in Names |-> None]
    /\ UNCHANGED <<api, hnsVars, undeleted>>

-----------------------------------------------------------------------------
\* OnServiceUpdate: Sync does nothing yet, and initialized is never set.
OnServiceUpdate(oldService, service) == Tracker!Update(oldService, service)

SetService(service) ==
    /\ phase = "running"
    /\ OnServiceUpdate(PersistentServices[service.name], service)
    /\ UNCHANGED <<api, hnsVars, ruleVars, undeleted, phase, plists>>

\* OnServiceDelete, which records the service once more, and then the removal
\* of what it recorded.
DeleteService(name) ==
    /\ phase = "running"
    /\ items' = Tracker!UpdatedItems(PersistentServices[name], None)
    /\ PersistentServices' = [Tracker!Recorded(PersistentServices[name], None) EXCEPT ![name] = None]
    /\ UNCHANGED <<api, hnsVars, ruleVars, undeleted, phase, plists>>

-----------------------------------------------------------------------------
\* External: CNI makes the network, before the agent runs, and endpoints.
NetworkChanges(n) ==
    /\ phase # "running"
    /\ n # network
    /\ network' = n
    /\ hnsEndpoints' = [id \in EndpointIds |->
          IF hnsEndpoints[id] # None /\ hnsEndpoints[id].network = network THEN None
                                                                           ELSE hnsEndpoints[id]]
    /\ UNCHANGED policies
    /\ Refuses({})
    /\ UNCHANGED <<api, ruleVars, phase, plists, sinkVars>>

CniCreates(id, ep) ==
    /\ hnsEndpoints[id] = None
    /\ ~Remembered(id)
    /\ hnsEndpoints' = [hnsEndpoints EXCEPT ![id] =
          [ips |-> ep.ips, remote |-> FALSE, network |-> ep.network]]
    /\ UNCHANGED <<api, network, policies, ruleVars, undeleted, phase, plists, sinkVars>>

CniDeletes(id) ==
    /\ hnsEndpoints[id] # None
    /\ hnsEndpoints' = [hnsEndpoints EXCEPT ![id] = None]
    /\ UNCHANGED <<api, network, policies, ruleVars, undeleted, phase, plists, sinkVars>>

-----------------------------------------------------------------------------
CleanupStep ==
    \/ deleteAllHnsLoadBalancerPolicy \/ CleanupRemoteEndpoint
    \/ \E ip \in IPs : CleanupEndpoint(ip)

SyncStep ==
    \/ \E svc \in ServicePortNames : BeginSync(svc)
    \/ AcquireServiceVip \/ NothingAcquired
    \/ \E ip \in IPs : AcquireEndpoint(ip)
    \/ \E field \in {"hnsID", "nodePorthnsID"} : AcquirePolicy(field) \/ PolicyRefused(field)

ChangeStep ==
    \/ \E base \in BaseInfos : serviceMapChange(base.name, base)
    \/ \E svc \in ServicePortNames : serviceMapChange(svc, None)
    \/ \E e \in Endpoints : endpointsMapChange(e.name, e.ips)
    \/ ApplyChange

RulesStep ==
    /\ phase = "running"
    /\ CleanupStep \/ SyncStep \/ ChangeStep
    /\ UNCHANGED <<api, network, phase, plists, sinkVars>>

StartStep ==
    \/ \E id \in PolicyIds : DeletePolicyList(id)
    \/ getNetworkInfo \/ NewProxier \/ NewProxierFails

SinkStep ==
    \/ \E service \in Services : SetService(service)
    \/ \E name \in Names : DeleteService(name)

CniStep ==
    \/ \E n \in Networks \cup {None} : NetworkChanges(n)
    \/ \E id \in LocalIds, ep \in CniEndpoints : CniCreates(id, ep)
    \/ \E id \in LocalIds : CniDeletes(id)

Next == Start \/ StartStep \/ RulesStep \/ SinkStep \/ CniStep \/ Kill

Spec == Init /\ [][Next]_vars

-----------------------------------------------------------------------------
MaxUint16 == 65535

Uint16 == 0..MaxUint16

endpointsInfos(ips) ==
    [ip : ips, isLocal : BOOLEAN, hnsID : EndpointIds \cup {None},
     refCount : EndpointIds \cup {Own, None}, ready : BOOLEAN]

\* The types of what HNS, the Proxier and the tracker keep: a counter is a
\* uint16, and a Proxier has a network (winkernel/proxier.go:121).
TypeOK ==
    /\ api \in {"V1", "V2"}
    /\ network \in Networks \cup {None}
    /\ phase = "running" => network # None
    /\ \A id \in EndpointIds :
          /\ hnsEndpoints[id] # None => hnsEndpoints[id].network \in Networks
          /\ endPointsRefCount[id] \in Uint16
    /\ \A id \in PolicyIds : policies[id] # None =>
          \A e \in policies[id].endpoints : e.ip \in IPs /\ e.hnsID \in EndpointIds
    /\ \A svc \in ServicePortNames :
          /\ serviceMap[svc] # None =>
                /\ serviceMap[svc].hnsID \in PolicyIds \cup {None}
                /\ serviceMap[svc].nodePorthnsID \in PolicyIds \cup {None}
                /\ serviceMap[svc].policyApplied \in BOOLEAN
                /\ serviceMap[svc].remoteEndpoint \in
                      endpointsInfos({serviceMap[svc].base.clusterIP}) \cup {None}
          /\ \A ip \in DOMAIN endpointsMap[svc] : endpointsMap[svc][ip] \in endpointsInfos({ip})
    /\ phase \in {"down", "exited", "policies", "overlay", "running"}
    /\ plists \subseteq PolicyIds
    /\ undeleted \subseteq PolicyIds \cup EndpointIds
    /\ PersistentServices \in [Names -> Services \cup {None}]

\* "Never delete a Local Endpoint": no handler of the Proxier removes an
\* endpoint that CNI made.  Its infos look remote, because no hostname is
\* configured, and what protects it is that Cleanup counts their own, never
\* incremented counter down to 65535 (winkernel/endpoints.go:128).
LocalUntouched ==
    [][task' # task => \A id \in LocalIds : hnsEndpoints'[id] = hnsEndpoints[id]]_vars

\* The infos that refer to the shared counter of an HNS endpoint.
References(id) ==
    LET vips == {svc \in ServicePortNames :
                    /\ serviceMap[svc] # None
                    /\ serviceMap[svc].remoteEndpoint # None
                    /\ serviceMap[svc].remoteEndpoint.refCount = id}
    IN  vips \cup {p \in ServicePortNames \X IPs :
                      p[2] \in DOMAIN endpointsMap[p[1]] /\ endpointsMap[p[1]][p[2]].refCount = id}

\* A counter never falls below the number of infos that refer to it, however
\* the passes of the clean-up, failed synchronizations and deletes that HNS
\* refused follow each other (winkernel/endpoints.go:128).  It may be larger:
\* a synchronization that fails and is repeated counts an info again.
RefCountsCover ==
    \A id \in EndpointIds : endPointsRefCount[id] >= Cardinality(References(id))

\* A remote endpoint that some info counts is in HNS, although the clean-up of
\* every other info that shares it, of a former life of its id or of an info
\* whose delete was refused, may delete it ("if no service is referring it",
\* winkernel/endpoints.go:133).  On V1 who creates an endpoint does not count
\* it: an info that looks its endpoint up by id in vain and makes another keeps
\* the first one's counter, and deletes the second when that one is zero.
EndpointsInUse ==
    api = "V2" \/ "get" \notin World =>
    \A id \in EndpointIds : References(id) # {} => id \in RemoteIds /\ hnsEndpoints[id] # None

\* A service is settled when its policy is applied and no handler works on it.
Settled(svc) ==
    /\ serviceMap[svc] # None
    /\ serviceMap[svc].policyApplied
    /\ task = None \/ task.svc # svc

\* The load balancers a service has.
Owned(svc) ==
    IF serviceMap[svc] = None THEN {}
    ELSE {serviceMap[svc].hnsID, serviceMap[svc].nodePorthnsID} \ {None}

\* The frontends of which a failed synchronization may leave a load balancer
\* behind: a cluster IP's, when the node port's was refused.  The next one takes
\* it back whatever endpoints it has acquired itself, or, if their number is
\* another, makes a second one and forgets the first.
Retried == {Frontend(base, "hnsID") : base \in {b \in BaseInfos : b.nodePort # 0}}

\* The load balancers of a service are in HNS under its own frontends, and send
\* traffic to no other remote endpoints than those the service has now, which
\* on the V2 API are in HNS: although getLoadBalancer takes any with the
\* frontend and the number of endpoints (hnsV2.go:191), whatever endpoints are
\* ready and calls of HNS fail, the clean-up leaves none behind that it could
\* take (hns.go:120).  Except for Retried ones, and for those HNS refused to
\* delete.
PoliciesMatch ==
    \A svc \in ServicePortNames : Settled(svc) =>
        \A id \in Owned(svc) :
            /\ policies[id] # None
            /\ policies[id].frontend \in
                  {Frontend(serviceMap[svc].base, f) : f \in {"hnsID", "nodePorthnsID"}}
            /\ id \in undeleted \/ policies[id].frontend \in Retried \/
               \A e \in policies[id].endpoints : e.hnsID \in RemoteIds =>
                  /\ e.ip \in DOMAIN endpointsMap[svc]
                  /\ endpointsMap[svc][e.ip].hnsID = e.hnsID
                  /\ api = "V2" => hnsEndpoints[e.hnsID] # None

\* No load balancer of an earlier agent, killed at any point, or of a service
\* that is gone or failed to synchronize stays in HNS:
\* deleteAllHnsLoadBalancerPolicy deletes every one before the Proxier runs and
\* the clean-up the others (hns.go:77, 120), unless HNS refuses or it is a
\* Retried one.
NoLeftoverPolicies ==
    phase = "running" =>
    \A id \in PolicyIds : policies[id] # None =>
        \/ id \in undeleted
        \/ policies[id].frontend \in Retried
        \/ \E svc \in ServicePortNames : id \in Owned(svc)
=============================================================================
