# TLA+ verification of kpng-win

kpng-win is the Windows backend of KPNG: one agent per Windows node that is
told about Kubernetes services and endpoints by the KPNG core (over gRPC) and
makes the node forward their traffic. It has two modes, `userspace` (a proxy
process that accepts connections and copies bytes) and `winkernel` (rules of
the Windows Host Network Service, HNS; mostly still to be ported).

The project models the userspace mode completely enough to follow a service
from the API to a client's connection, the cache of EndpointSlices and the tracker of
service changes that the backends share, and of the winkernel mode what has been ported:
start-up, sink, handlers, clean-up and the two HNS adapters.

## Inventory

| Component | State | Operations | Hard because |
|---|---|---|---|
| Load balancer (`userspace/roundrobin.go`, `buildPortsToEndpointsMap` in `utils.go`) | `services`: service port -> list of addresses and an index | `NewService`, `DeleteService`, `OnEndpointsAdd/Update/Delete`, `NextEndpoint` | lists are replaced by the sink while loops walk through them |
| kpng sink (`userspace/sink.go`) | `servicesEndpoints`: last service object and *first* endpoint object of each service | `SetService`, `DeleteService`, `SetEndpoint`, `DeleteEndpoint` | the order of events; several endpoint objects per service; remembered objects go stale |
| Proxier (`userspace/proxier.go`) | `serviceMap`: portal -> `serviceInfo` (alive flag, socket, loop) | `mergeService`, `unmergeService`, `addServicePortPortal`, `closeServicePortPortal`, `stopProxy` | one callback is many netsh and socket calls, each of which may fail; no roll-back |
| netsh runner (`userspace/netsh.go`) | addresses on a network interface, kept by Windows | `EnsureIPAddress` (polls), `DeleteIPAddress` | survives the agent; shared by all portals of an address |
| TCP sockets (`userspace/utils.go`) | listener, accepted connections, two copiers per connection | `ProxyLoop`, `tryConnect`, `proxyTCP`, `copyBytes` | goroutines that close each other's sockets; stop during a dial |
| UDP sockets (`userspace/utils.go`) | socket, client cache (never created) | `ProxyLoop`, `getBackendConn`, `proxyClient` | the cache is shared by a loop and one goroutine per client |
| ServiceChangeTracker (`proxy/service.go`, `util/utils.go`) | `items`: pending changes per service, `PersistentServices`: the last object of each | `Update`; the sink reads and deletes `PersistentServices` itself | changes are merged before they are applied; deleting is two steps |
| EndpointSliceCache (`proxy/endpointslicecache.go`) | pending and applied slices per service | `updatePending`, `checkoutChanges`, `addEndpoints` | a slice may be updated, deleted and restored before a checkout |
| winkernel sink and Proxier (`winkernel/*.go`) | `serviceMap`, `endpointsMap`, `endPointsRefCount`, the tracker | `NewProxier`, sink callbacks, `serviceMapChange`, `endpointsMapChange`, `cleanupAllPolicies`, `Cleanup` | HNS outlives the agent and is changed by CNI; endpoints are shared between services and counted; errors are ignored |
| HNS adapters (`winkernel/hns*.go`) | endpoints, networks and load balancers, kept by HNS | look-up, create, delete, on the V1 and the V2 API | external state found again by its attributes |
| Command line (`main.go`, `cmd/`) | none | start-up | - |

Components interact by direct calls. KPNG's client calls the sink from one
goroutine; the sink calls the Proxier; the Proxier calls netsh, the network
stack and the balancer, and starts one goroutine per portal (`ProxyLoop`).
Loops call the balancer, dial backends and start two copiers per connection.
Shared state: `serviceMap` (under `proxier.mu`), the balancer (under `lb.lock`),
the alive flag (atomic), sockets (closed by one goroutine while another blocks
in them), and the interface's addresses (outside of the process). In winkernel mode the
sink calls the tracker and the Proxier, the Proxier's infos call HNS through one of the
two adapters; HNS is shared with the CNI plugin and with the agent's former lives.

What correctness means, per component: the balancer never indexes outside of
its list and treats every address alike; the sink's cache, the Proxier's map and
the balancer agree whenever no callback is in progress, whatever failed; no
listener or address is lost or taken away under a portal that needs it; no
accepted client is abandoned and no socket of a finished connection stays open;
callbacks return, clients are answered and stopped loops end; the slice cache loses
no update and reports the endpoints the API has; the winkernel clean-up deletes what
nobody uses any more, and never an endpoint that another service uses or that CNI made.

## Modules

| Module | Models |
|---|---|
| `LoadBalancerRR` | the balancer; every operation holds `lb.lock`, so it is one step |
| `FairBalancer` | what the balancer promises, without order or index: pools and rounds |
| `LoadBalancerRRProofs` | theorems about `LoadBalancerRR`, including that it implements `FairBalancer` |
| `UserspaceProxier` | sink, Proxier and netsh, with the balancer as an instance |
| `UserspaceProofs` | theorems about `UserspaceProxier`: the map, its objects and the interface |
| `UserspaceBalancerProofs` | theorems about the balancer's entries in `UserspaceProxier`, on top of `UserspaceProofs` |
| `TcpProxy` | the loops, connections and copiers of one service port, with the balancer as an instance |
| `TcpProxyProofs` | theorems about `TcpProxy` |
| `EndpointSliceCache` | the cache of EndpointSlices and the merge of slices into endpoints |
| `EndpointSliceCacheProofs` | theorems about `EndpointSliceCache` |
| `ServiceChangeTracker` | the tracker; `Update` holds its lock and is one step |
| `HnsV1`, `HnsV2` | the two implementations of `HostNetworkService`, over the same state of HNS |
| `WinkernelRules` | service and endpoint infos, their counters and clean-up, with both adapters as instances |
| `WinkernelProxier` | start-up, sink, restarts and CNI, with `WinkernelRules` and the tracker |
| `WinkernelProofs` | theorems about `WinkernelProxier`: types, and no load balancer left behind |
| `WinkernelCounterProofs` | theorems about the shared counters of HNS endpoints, on top of `WinkernelProofs` |
| `WinkernelPolicyProofs` | whose load balancers are whose, on top of `WinkernelCounterProofs` |
| `MCLoadBalancerRR`, `MCUserspaceProxier`, `MCTcpProxy`, `MCEndpointSliceCache`, `MCWinkernelProxier` | instances for TLC |

### LoadBalancerRR

`services` is `lb.services` with `None` for an absent key; `reply` is the last
result of `NextEndpoint`, there to be observed. An endpoint object is the list
of its IPv4 addresses (`buildPortsToEndpointsMap` reads nothing else) and an
"ip:port" string is a pair. `ShuffleStrings` draws any permutation, per port.
Session affinity is left out: the code that fills `affinityMap` is commented out.

`FairBalancer` knows for each service port the pool of addresses and the ones
still due in the round. The refinement mapping takes `pool` to the set of the
list and `remaining` to the addresses from the index on.

### UserspaceProxier

The sink's callbacks run one at a time. A callback about a service is a
`callback` record with the ports and addresses still to be handled, and one
action per portal:

| Code | Actions |
|---|---|
| `SetService`, `DeleteService` (entry) | `SetService`, `DeleteService` |
| `mergeService`, per portal | `MergeUnchanged`; `MergePortal`; `AddAddress` then `AddressShown` (the polling loop of `EnsureIPAddress`); `AddressRefused` |
| `mergeService`, per port | `MergeNewService`; `MergeHeadless` (index of an empty list) |
| `unmergeService` | `BeginUnmerge`, `UnmergeSkip`, `UnmergePortal`, `UnmergeDeleteService` |
| back in the sink | `Return` |
| `SetEndpoint`, `DeleteEndpoint` | the actions of that name, one step each |
| ends of loops | `LoopExit`, `UdpReadFails`, `UdpDatagram` |
| kill and restart | `Restart` |

`infos` keeps every `serviceInfo` object that still has a socket or a loop, also
those that `serviceMap` no longer points to: per portal at most `Generations`.
`told` is what the API has said about endpoints, for the properties to compare
with. `World` lists what the environment may do: `netsh`, `listen`, `close` and
`read` errors, `datagram` (a UDP client sends), `restart`, and `unordered`.
Without `unordered` events come as KPNG's decoder sends them: a service before
its endpoints, and its endpoints deleted before it is.

Abstractions: Go iterates over maps in any order, and so does the model over
addresses; ports are taken in any order too, which includes the code's order.
Two sockets conflict when address, port and protocol are the same (a socket on
all interfaces does not exclude one on an address). Output of netsh is not
parsed: an address is listed or not.

### TcpProxy

Per client both sockets of its connection and the state of both copiers; per
loop the place in `ProxyLoop`/`tryConnect`, the alive flag and the listener.
`stopProxyInternal` is two steps (`SetDead`, `Close`) because loops read the flag
without a lock. `Reconfigure` is the sink changing the balancer between two calls
of a loop. A failed `Accept` or dial, running out of descriptors, backends that go
down and up, and clients or backends that end a connection come from the
environment (`World`). `DialAttempts` is the length of `endpointDialTimeout`. What a
connection carries is left out; a copier ends at the end of its source or because
the other copier closed a socket.

### EndpointSliceCache

`applied` and `pending` are the two maps of every `endpointSliceTracker`, with `None`
for an absent slice; a service without a tracker is one whose tracker is empty (the
code tells them apart nowhere else than in creating it). `updatePending` and
`checkoutChanges` hold `cache.lock` and are one step each; the error return for a
slice without keys is an action of its own. `told` is what the API has, `reported`
the endpoints of a service's last change and `reply` the last result, for the
properties. The order in which `checkoutChanges` walks the Go maps of slices is chosen
anew for `previous` and for `current`.

An `endpointSliceInfo` keeps its ports sorted by number, equal numbers as they are
listed (so a slice that lists them otherwise counts as changed, as in the code, whose
sort is stable for the few ports of a slice), and its endpoints as a set, which is what
sorting by pairwise different addresses amounts to. An "ip:port" is a pair. Zone and
conditions are one field that is copied. `SliceAssumption` excludes two kinds of slices:
those that list the same first address twice, and those of several ports one of which
has no number, on which `byPort.Less` dereferences nil (endpointslicecache.go:423).
In this repository `EndpointChangeTracker` creates the cache and nobody checks changes
out yet.

### ServiceChangeTracker, HnsV1, HnsV2, WinkernelRules, WinkernelProxier

`items` and `PersistentServices` are the tracker's maps. `GetClusterIPByFamily` returns
the empty string whatever the service (its body is commented out), so
`serviceToServiceMap` is nil for every service, old and new are always equal and `items`
stays empty; the model says so instead of what the code was meant to do.

HNS is three variables: the network of the configured name, endpoints (addresses,
remote or not, network) and load balancers (frontend, endpoints). The operators of
`HnsV1` and `HnsV2` are the adapters' methods; they differ in the addresses they compare
and in what `createEndpoint` says of the new endpoint: V1 returns `IsRemoteEndpoint` as
`isLocal` (hnsV1.go:147). `getLoadBalancer` takes an existing load balancer with the same
frontend and the same number of endpoints. `createEndpoint` and `getLoadBalancer` are given
the id HNS answers with, and None stands for any error they return: no network, no
list, an endpoint not found, or a refusal to create. MAC and provider addresses, source VIPs and
load balancer flags are left out, and a port and its target port are one `port`.

Which calls of HNS may fail is a constant: `World` may hold "create" (an endpoint or a load
balancer), "list" (of endpoints, by address, or of load balancers) and "get" (an endpoint by its
id, although HNS has it). Without any of them a call only fails for a reason in the state, as when
CNI has deleted an endpoint. Deletes are refused in every `World`, up to `MaxUndeleted`.

`refCount` of an endpoint info is a pointer: to a counter of its own (`new(uint16)`, `Own`),
to the counter that the infos of one HNS endpoint share (the endpoint's id, an index of
`endPointsRefCount`), or nil (`None`). Counters are modulo 65536. `Setup` passes no hostname, so
an info made from the API never is local. `ready` is any Boolean when the info is made.

| Code | Actions |
|---|---|
| `NewProxier` | `Start` and `DeletePolicyList` (`deleteAllHnsLoadBalancerPolicy`), `getNetworkInfo`, `NewProxier`, `NewProxierFails` |
| sink | `SetService`, `DeleteService`; `SetEndpoint`, `DeleteEndpoint` and `Sync` only print |
| `serviceMapChange`, `endpointsMapChange` | the actions of that name begin the handler's passes; a key of both endpoint maps has two |
| `cleanupAllPolicies` | `deleteAllHnsLoadBalancerPolicy`, `CleanupEndpoint` for each endpoint, `CleanupRemoteEndpoint`; without a service only the endpoints |
| `Cleanup` | an operator of that name, with its outcomes: counted down, deleted, delete failed |
| external: applying a change, `syncProxyRules` | `ApplyChange`; `BeginSync`, `AcquireServiceVip`, `AcquireEndpoint`, `NothingAcquired`, `AcquirePolicy`, `PolicyRefused` |
| external: CNI, kill | `NetworkChanges`, `CniCreates`, `CniDeletes`, `Kill` |

The infos and the clean-up were written for a synchronization that this repository holds
only as a comment (proxier.go:284-652), and for the functions that apply pending changes
to the maps, which it does not hold. Today nothing calls the handlers; without a
counterpart that acquires what they release there would be nothing to check. The model
has that counterpart as external actions that do what the comment's text does for one
service port at a time, and checks the ported code against it. Every `continue` of that
text is an outcome: an address that is not ready, or for which HNS refuses an endpoint, is skipped
(`Skip`) and the service goes on with the others; a service whose cluster IP gets no endpoint, that
has acquired none of its own, or for which a load balancer is refused, is left as it is, and
tried again by a later `BeginSync`, when other endpoints may have become available. Three things of the
text are left out: the network that vanishes or changes while the agent runs, after which it cleans
up everything (`NetworkChanges` happens only while it does not run); the node's source VIP endpoint; and
the annotation "preserve-destination" (`preserveDIP`, service.go:13), which puts only a service's local
endpoints behind its node port.

A handler runs under `proxier.mu`, one at a time (`task`), and is split at its calls of
HNS, so that CNI acts and the agent may be killed between any two; the deletes of the
load balancers of one service are one step, since nothing but the Proxier knows them.
`undeleted` are the ids that HNS refused to delete and still has, at most `MaxUndeleted`.
`MaxRefCount` is the counter at which no further synchronization begins, which bounds how often a
failing one is repeated. Ids of HNS are never used again; the model reuses
one when nobody remembers it. `DeleteService` is both of its steps: `OnServiceDelete` records the service
(`Recorded`), then it is removed. External and ingress IPs of a service are never filled in
(service.go:33-41), so their load balancers do not occur.

## Runs

| Run | Shows |
|---|---|
| `balancer` | in every order of operations over lists of 0 to 3 addresses: index in range, no duplicates, `FairRounds` (refinement) |
| `steady` | with a well-behaved Windows, two services that gain and lose an external IP and a node port: every finished callback leaves every announced portal listening, on its port, with its address on the interface, and nothing panics |
| `faults` | with netsh, listen, close and read errors and restarts at any step: no portal outlives its announcement, no listener is forgotten, an update does not interrupt a portal that stays, callbacks return and stopped loops end |
| `endpoint_churn` | with two endpoint objects, unordered events, headless services, datagrams, panics and restarts: balancer and cache agree, updates keep endpoints, no withdrawn address is served |
| `tcp_churn` | two loops and two clients, everything in `World`: no abandoned client, both sockets closed, stopping a portal leaves connections alone |
| `tcp_service` | one loop and up to four backends, any of them down: a client is refused only if all are down; clients are answered, connections and stopped loops end |
| `slice_cache` | slices that are changed, removed and restored between checkouts, that share addresses, and unusable ports and endpoints: the cache holds what the API has, a checkout reports it, and `previous` is what was reported before |
| `winkernel` | two service ports that share a backend and a cluster IP, on both APIs, with endpoints that are not ready, endpoints and load balancers that HNS refuses to create, CNI, a refused delete and kills between any two calls: counters cover their references, counted endpoints stay, CNI's endpoints are never deleted, load balancers are the services' own and none is left behind |
| `hns_failures` | a service port with two addresses and a node port, on two kinds of network, where every look-up, list and creation may fail: counters cover their references, counted endpoints stay, and only the load balancer of a cluster IP is left behind or adopted |

Bounds, and why they are enough: three addresses are the least for which a skipped
or a repeated address of a round shows, and lists of length 0, 1, 2 and 3 follow
each other in every order. One service with two ports is the least for which two
portals share an address and for which a port, and not the whole service, goes;
two services with one port show that a service does not disturb another (`steady`).
Two generations let a new listener coexist with one that is still closing; `Listen`
is refused beyond that, which only delays the callback until a loop has ended in
runs where listeners are never forgotten. Two endpoint objects are the least for
which one is withdrawn while another stays. `tcp_service` takes the code's four dial
attempts and as many backends; `tcp_churn` takes two attempts, the least for which
the balancer changes between them. `slice_cache` has two slices of one service,
the least for which an address moves or is listed twice, each with two contents or more
so that a change can be undone before a checkout. `faults` has one service of two ports
of which one is exchanged for a node port of the other. `winkernel` has two service ports with
one backend address, the least for which a counter is shared; they share the cluster IP
too. Every new HNS
endpoint has a new id, so a re-created backend already is another endpoint than the one a
stale load balancer names. One pod of
CNI's has the address as its second one, which only V2 compares. One refused delete at a time
(`MaxUndeleted`) is the least for which a load balancer or an endpoint outlives its use. What a
service does with some of its endpoints takes two addresses, and what it does with one of two load
balancers takes a node port; these are the questions of `hns_failures`, whose one service port has both.
Any call may fail there except deletes, and there is no CNI; `winkernel` has those. It
has two ids for a cluster IP's load balancer, so that a second one can be made while the
first is forgotten. Two is the least `MaxRefCount`: two services share a counter, or one
failed synchronization is repeated. The TCP runs do not check for deadlock: when all
portals are stopped and all clients gone, nothing is left to do.

Preconditions of the passing runs that the code does not enforce: `faults` and
`steady` never change a port's number or protocol, `steady` never shares an address
between portals, and `endpoint_churn` only has endpoint objects with an IPv4 address.
The violation runs and the list below say what happens otherwise.

### What the code does otherwise than it says

Runs that end in a counterexample:

- `forgotten_listener`: when the number of a port changes, `mergeService` starts a
  second listener and overwrites the map entry; the code that closed the first is
  commented out (proxier.go:225). The old listener serves until the process ends.
- `shared_address`: closing a portal takes its address off the interface although
  another port of the service listens on it (proxier.go:383).
- `several_endpoints`: every endpoint event replaces the balancer's list by that one
  object's addresses (sink.go:129), so a service with several endpoint objects uses
  the one set last.

Seen while modelling, with the same model and other instances: `activeClients` is never
created (proxier.go:360), so the first datagram to a UDP portal panics the agent (utils.go:97;
violates `NoPanic`; `endpoint_churn` has such panics and checks what is left after them); a UDP loop
that ends after a read error stays in the map as a portal that listens, and later updates take it as unchanged
(utils.go:69; violates `PortalsAreServed`); a port that changes
from TCP to UDP keeps its TCP listener (`sameConfig` compares the number only,
proxier.go:322; violates `Reconciled`); an endpoint event for an unknown service
dereferences nil (sink.go:127; violates `NoPanic`); if the first endpoint object had no
IPv4 address, addresses of later ones are never removed (sink.go:55 keeps the first
object for ever; violates `NoStaleEndpoints`); with two loops on one service port a
client can be refused although a backend is up, because the loops share the
round-robin index and so skip each other's addresses (violates
`RefusedOnlyIfAllDown`).

In the winkernel code, which is not reached before `syncProxyRules` is ported:

- On the V1 API an endpoint's creator does not count it (hnsV1.go:147), so a second service that
  comes and goes deletes it under the first. `EndpointsInUse` therefore speaks of the infos that
  count their endpoint, and on V1 of those only as long as look-ups by id do not fail.
- If an endpoint is not found by its id although HNS has it, one that CNI made may be found by the
  address, and the info keeps its share of the first one's counter: the clean-up then may delete
  CNI's endpoint. `LocalUntouched` is checked and proved without such errors.
- A service whose node port's load balancer failed keeps that of its cluster IP, and is
  synchronized again (proxier.go:564; of the id it then finds the text says "This should not
  happen", line 509). If as many other endpoints are ready by then, the old load
  balancer is taken with the endpoints it has; if their number is another, a second one
  is made and the first forgotten, so that it stays in HNS until the agent starts again or a service
  takes it. `NoLeftoverPolicies` and `PoliciesMatch` except the load balancers of
  cluster IPs of services with a node port (`Retried`) for that; without the exception `hns_failures`
  violates both.
- A load balancer that HNS refused to delete is taken by the next synchronization whatever
  its endpoints are (hnsV2.go:191); both properties except it too.
- A synchronization that fails counts the endpoints it had
  acquired once more when it is repeated, so they are never deleted; the endpoint of a
  cluster IP belongs to the port that came first and goes with it.

`Update` of the tracker
is documented to return true "if items changed" (service.go:203); it returns whether any
change is pending, which never is the case.

## Fairness

`UserspaceProxier`: weak fairness of the sink's steps, of `AddressShown` and of each
loop's exit. The Go scheduler runs every runnable goroutine; that Windows lists an
address it has accepted is what `EnsureIPAddress` itself relies on by polling without a
limit, and without it the sink hangs. Nothing is assumed of the API, of netsh or of
`listen`: they may fail every time.

`TcpProxy`: weak fairness of every loop, every copier and the second half of
`stopProxyInternal`. A dial ends within its timeout. Peers need not ever close, and
clients need not ever come back. An `Accept` that fails for ever is excluded from the
liveness run: the code then spins (utils.go:213-226) and answers nobody.

`WinkernelProxier` states no fairness; its runs check safety.

## Proofs

`LoadBalancerRRProofs` is checked by TLAPS for all sets of services, ports,
addresses and endpoint objects, of any size.

- `TypeCorrect`, `IndexSafe`, `Distinct`: `Spec => []TypeOK`, `[]IndexInRange`,
  `[]NoDuplicates`.
- `Refinement`: `Spec => FairRounds`, that is, the balancer implements `FairBalancer`.

Assumptions: service objects name known ports (`ServiceAssumption`); the addresses
of an endpoint object are pairwise different (`EndpointAssumption`: KPNG's IP sets);
`None` is no entry and no pool (`NoneAssumption`).

The inductive invariant is `IInv == TypeOK /\ IndexInRange /\ NoDuplicates`, used
pointwise: each entry is `None` or satisfies `StateOK`. `IndexInRange` alone is not
inductive (the modulus needs natural numbers, from `TypeOK`), and the refinement needs
`NoDuplicates`: were an address listed twice, removing it from the round would remove
both. The lemmas follow the code: what `buildPortsToEndpointsMap` and
`ShuffleStrings` return, what one `SetEndpoints` and one `NextEndpoint` do to an entry,
that a callback leaves a port's round alone or starts it afresh (`ReconfigureStep`),
and that `NextEndpoint` takes one address off the round or opens the next
(`ServeRound`).

`EndpointSliceCacheProofs` is checked for all sets of services, slice names and slices.

- `FollowsApi`: `Spec => []CacheFollowsApi`, no update is lost by `esInfoChanged`.
- `TypeCorrect`: `Spec => []TypeOK`, which includes that no removal is among the applied
  slices.

The inductive invariant is their conjunction, again used pointwise (`SliceOK`, per slice
name of a service). `CacheFollowsApi` is not inductive alone: if a removal could be
applied, a later removal of a slice of the same ports would equal it and be dropped.
Assumptions: slices name known services and slice names (`SliceAssumption`), and `None`
is neither a slice nor an entry of a tracker (`NoneAssumption`). `UpdateSlice` is the
case analysis of `esInfoChanged`, `ApplySlice` that of `checkoutChanges`.

`TcpProxyProofs` is checked for any number of portals, clients, backends and dial
attempts, and for every subset of `World`.

- `TypeCorrect`, `NoClientAbandoned`, `SocketsClosed`: `Spec => []TypeOK`,
  `[]NoAbandonedClient`, `[]BothSocketsClosed`.
- `StopUntouched`: `Spec => StopLeavesConnections`.
- `RefusalMeansAllDown`: `Spec => [](Undisturbed => RefusedOnlyIfAllDown)`. `Undisturbed`
  is what the property needs and the code does not guarantee: one loop, a balancer that is
  not reconfigured, no dial that times out although its backend is up, and no
  more addresses than dial attempts. The instance of `tcp_service` satisfies it.

The inductive invariant relates the three places a client can be in. A connection is
either `Alone` (in a backlog, accepted or given up, no copier started) or `Proxied` (both
sockets, both copiers, and a copier that is done has closed its source); a client waits at
most once in at most one backlog; a loop that looks for a backend holds a client that is
accepted and not connected, and every such client is held by exactly one loop.
`NoAbandonedClient` alone is not inductive: if a client could be in two backlogs, the
loop that accepts it the second time would take it from the first. `BothSocketsClosed` needs the
halves that `Proxied` states, since one copier closes its source at the end of its own
loop and cannot know what the other has done. For `RefusalMeansAllDown` the
invariant `Tried` counts: after k failed dials, the k addresses that the index has passed last,
modulo the length of the list, are down. Assumptions: `DataPlaneAssumption`,
and `BalancerAssumption`, what `LoadBalancerRR` assumes of its objects.

`WinkernelProofs` is checked for all services, endpoints, networks and ids, every `World`, any
number of refused deletes, and both APIs.

- `TypeCorrect`: `Spec => []TypeOK`; counters are uint16, a running Proxier has a network.
- `NoPolicyLeft`: `Spec => []NoLeftoverPolicies`.

The inductive invariant says of every variable what the handler in progress (`task`) leaves
it in. `NoLeftoverPolicies` needs most of it. A synchronization overwrites the ids a service has, so what
counts is what the service has when one begins: a clean-up forgets the ids before it touches an
endpoint (`TaskOK`), and a service whose policy is not applied has no load balancer of a node port,
and one of a cluster IP only if it has a node port (`ServiceOK`), which is the one that is excepted.
`PoliciesOK` says that it has that cluster IP's frontend, so that losing it is losing a `Retried` one.
During start-up `LeftOK` says that what is in HNS is still on the list that is being deleted.

`WinkernelCounterProofs` adds, for the same constants:

- `CountersCover`: `Spec /\ []NoOverflow => []RefCountsCover`.
- `NoEndpointPulled`: `Spec /\ []NoOverflow => []EndpointsInUse`.
- `LocalNeverDeleted`: `"get" \notin World => (Spec /\ []NoOverflow => LocalUntouched)`.

`NoOverflow` says that no counter has reached 65535. It is a hypothesis and not an invariant:
every repetition of a synchronization that failed counts its endpoints again, so 65536 of them
bring a uint16 back to zero, and the next clean-up deletes an endpoint that others use. An info
whose endpoint is gone then may be given CNI's endpoint of that address and keep its pointer to
a shared counter, so `LocalUntouched` needs the hypothesis too. No run comes near the
bound; on both winkernel instances the hypothesis is true in every reachable state.

The inductive invariant `CInv`: who shares a counter shares that of a remote endpoint, which HNS
has, and that is the info's own, or, where look-ups by id fail, the info's is one that CNI made
(`SharedOK`; on V1 the last two parts hold only without such failures, `Reliable`); the counter is at
least the number of its references (`RefCountsCover`), so a
counter that falls to zero had no other reference; no info is left while the agent is not
running (`IdleOK`), for CNI may replace the network and all its endpoints then;
and a remote endpoint has an address that the Proxier created it for
(`RemoteOK`). References are counted by the place that holds the info (`Slots`), so a step that
changes one info changes a set by one element.

Assumptions of all three modules: the three kinds of ids are disjoint and ids of HNS carry a number
(`RulesAssumption`); there are finitely many service ports and addresses (without it a
number of references is not defined); API objects and pods name known ports, addresses and networks
(`ObjectAssumption`, `SinkAssumption`); `None` is none of the records it is compared with
(`NoneAssumption`).

`WinkernelPolicyProofs` adds, for the same constants and under the same assumptions:

- `PoliciesAreOwn`: `Spec /\ []NoOverflow => [](OwnFrontends => PoliciesMatch)`.

`OwnFrontends` says that two service ports never have a frontend in common (address, port and
protocol of the cluster IP, or a node port that is not zero). Kubernetes allocates them so; the
adapter cannot do without, since frontend and number of endpoints are all it recognizes a load
balancer by. The invariant `PInv` speaks of every step and not only of settled services:
whatever a service port owns is in HNS, under one of its frontends, and either excepted (`Exempt`: one
HNS refused to delete, or a `Retried` one) or every
remote endpoint it names is the one the service has for the address, which on V2 it also counts
(`Serves`), so that it is in HNS by `SharedOK` of `CInv`. While a synchronization acquires endpoints,
the service's infos change under a load balancer it may own; that one is `Retried` (by `ServiceOK`,
lemma `Unapplied`), so there is nothing to preserve. When a load balancer is taken that already
existed, either a service owns it, by `OwnFrontends` this one, or by `LeftOK` it is excepted.

`UserspaceProofs` is checked for all services, ports, addresses and generations, and for every
subset of `World`.

- `OnlyAnnounced`: `Spec => []OnlyAnnouncedPortals`.
- `UpdatesKeepPortals`: `Spec => UpdateKeepsPortals`.
- `PortalsServed`: `Spec => []("read" \notin World => PortalsAreServed)`.
- `NoneForgotten`: `Spec => [](FixedConfig => NoForgottenListener)`.
- `AddressesStay`: `Spec => []("netsh" \notin World /\ OwnAddresses => AddressesPresent)`.
- `Panics`: `Spec => [](Orderly => NoPanic)`.
- `Reconciliation`: `Spec => [](WellBehaved => Reconciled)`.

The hypotheses are on constants, and each is what the code needs and does not enforce; the
first two theorems need none. `FixedConfig`: no update changes the number or protocol of a port
(without it: run `forgotten_listener`). `OwnAddresses`: no address is of two service ports
(without it: `shared_address`). `Orderly`: services have a cluster IP, endpoints come after their
service and go before it, no datagram arrives (without it: the datagrams, headless
services and unordered events of `endpoint_churn`). `WellBehaved`: netsh and listen do not fail,
`FixedConfig`, and no two service ports want the same socket (`OwnSockets`). A read error ends a
UDP loop whose socket stays open (utils.go:69), so `PortalsServed` excludes it. The instances
of the passing runs that check these properties satisfy the hypotheses.

The inductive invariant `IInv` describes a callback that stops at any portal. `AnnouncedOK` is
`OnlyAnnouncedPortals` carried through a callback: a portal of the map is one of the cached
object or of the one being merged, and while the old object is taken away it is one of the new
object or still to be reached; without the last part nothing follows at the end of
`unmergeService`. `CallbackOK` ties the callback to the cache (`old` is what the cache has).
`InfosOK`: the map points to objects whose socket is open, and each object was asked for by
some service object, which is what `FixedConfig` and `OwnSockets` are applied to. `WaitingOK`: the
address netsh is polled for has no up-to-date portal, so what `AddressShown` overwrites is no
listener of the same configuration. `HeadlessOK`: a service without cluster IP gets no further
than its first port, and is never cached with ports. `Reconciliation` adds `ReconciledOK`: of the object being
merged, every address is still to be reached, polled for, or up. `Panics` adds `ToldOK`: the sink
knows the service and the endpoint of everything the API still has.

`UserspaceBalancerProofs` is checked for the same constants.

- `TypeCorrect`: `Spec => []TypeOK`.
- `BalancerMatches`: `Spec => []BalancerMatchesCache`.
- `UpdatesKeepEndpoints`: `Spec => UpdateKeepsEndpoints`.
- `NoneStale`: `Spec => [](IPv4Only => NoStaleEndpoints)`.

The invariant `BInv` says which ports have a balancer entry at every step (`Entries`): during a
merge those of the old object and the ports of the new one that are finished, during an
unmerge those of the new object and the ones not reached yet. `NoneStale` adds
`EndpointsOK`: listed addresses are of endpoints the API has, and where addresses are listed
the sink remembers an endpoint object, because `DeleteEndpoint` takes addresses back by
it. `IPv4Only` (every endpoint object has an IPv4 address) is necessary: if the remembered object
has none, `OnEndpointsDelete` finds no key and the addresses of a later one stay
(sink.go:55). The lemmas on the balancer's operations follow those of `LoadBalancerRRProofs`,
by what they do to one entry.

Assumptions of both: API objects name known services, ports and addresses (`ObjectAssumption`);
`None` is none of the objects and records it is compared with (`NoneAssumption`).

Only model-checked:

- all liveness properties (`CallbackReturns`, `StoppedLoopsEnd`, and those of `tcp_service`):
  fairness and ENABLED are out of reach of the prover;
- what a checkout reports (`ReportedMatchesApi`, `PreviousWasReported`): a fold over the
  slices, which needs induction over data;
- what happens to the counters after an overflow;
- what remains of `LocalUntouched` when look-ups by id fail, and of `EndpointsInUse` when they fail
  on V1: both are false then (see above).

TLC has checked the inductive invariants of the proofs before they were proved, on the instances
of the runs: for `UserspaceProxier` those of `steady`, `faults` and `endpoint_churn`, for
the three winkernel modules `winkernel` and `hns_failures`.

## Not modelled, and the plan

Left for later: liveness of the winkernel start-up (it polls for the network without a limit,
hns.go:93), on an instance small enough for it.

The UDP client cache is not modelled further: `activeClients` is nil, so `getBackendConn`
panics before the code that would fill it, and `proxyClient` never runs.
`EndpointChangeTracker` is only constructed. Of the winkernel mode, `OnServiceSynced` and
`SyncLoop` have no caller, and `Proxier.Sync` is empty.

Left out for good: flag parsing and start-up (`main.go`, `cmd/`), the portproxy rules
and `Restore` of netsh (no caller), parsing of netsh's output, session affinity
(disabled in the source), and `util/utils.go` apart from `GetClusterIPByFamily`: its
helpers for addresses, ports and iptables lines have no caller or only log.
