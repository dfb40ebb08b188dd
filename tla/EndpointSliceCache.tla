------------------------- MODULE EndpointSliceCache -------------------------
(***************************************************************************)
(* The cache of EndpointSlices (pkg/proxy/endpointslicecache.go): slices   *)
(* are put aside as pending when the API changes them, and turned into     *)
(* changes of endpoints when a proxier checks them out.  Both operations   *)
(* hold cache.lock, so each is one step.                                   *)
(*                                                                         *)
(* A service without a tracker is one whose tracker is empty.  Zone, hints *)
(* and the three conditions of an endpoint are one field, `conditions`:    *)
(* the cache copies them and compares them, nothing more.                  *)
(***************************************************************************)
EXTENDS Integers, SequencesExt

CONSTANTS Services,       \* namespaced service names
          SliceNames,
          PortNames, Ports,
          Addresses, IPv6Addresses,
          Slices,         \* EndpointSlice objects the API may send
          hostname, ipFamily,
          None

\* The cache uses an endpoint's first address only.
FirstAddress(endpoint) ==
    IF endpoint.addresses = <<>> THEN None ELSE endpoint.addresses[1]

\* sort.Sort(byPort): by number, ports of the same number as they are listed.
sortByPort(ports) ==
    LET numbers == SetToSortSeq({ports[i].port : i \in DOMAIN ports}, <)
        Numbered(n) == SelectSeq(ports, LAMBDA p : p.port = n)
    IN  FlattenSeq([i \in DOMAIN numbers |-> Numbered(numbers[i])])

(***************************************************************************)
(* A slice lists an address once.  Sorting compares the numbers of ports   *)
(* (byPort.Less), so in a slice of several ports every port has a number;  *)
(* two of them may have the same.                                          *)
(***************************************************************************)
ASSUME SliceAssumption ==
    \A s \in Slices :
        /\ s.service \in Services \cup {None}
        /\ s.name \in SliceNames
        /\ \A i \in DOMAIN s.ports : s.ports[i].port = None => Len(s.ports) = 1
        /\ \A i, j \in DOMAIN s.endpoints :
              FirstAddress(s.endpoints[i]) = FirstAddress(s.endpoints[j]) => i = j

VARIABLES applied, pending,  \* service -> slice name -> endpointSliceInfo or None
          told,              \* the slices as the API has them
          reported,          \* service -> the endpoints of its last change
          reply              \* what the last call returned

vars == <<applied, pending, told, reported, reply>>

-----------------------------------------------------------------------------
\* Endpoints are copied and sorted by address, so two slices that list the
\* same ones in another order are equal: a set.
newEndpointSliceInfo(slice, remove) ==
    [ports |-> sortByPort(slice.ports),
     endpoints |-> IF remove THEN {} ELSE Range(slice.endpoints),
     remove |-> remove]

\* None is neither a slice nor an entry of a tracker.
ASSUME NoneAssumption ==
    /\ None \notin Slices
    /\ \A s \in Slices, remove \in BOOLEAN : newEndpointSliceInfo(s, remove) # None

\* Mistake: comparing with the applied slice although another is pending.
esInfoChangedFromApplied(serviceKey, sliceKey, esInfo) ==
    CASE applied[serviceKey][sliceKey] # None -> esInfo # applied[serviceKey][sliceKey]
      [] pending[serviceKey][sliceKey] # None -> esInfo # pending[serviceKey][sliceKey]
      [] OTHER -> ~esInfo.remove

\* Compared with the pending slice, else with the applied one; the removal of
\* an unknown slice changes nothing.
esInfoChanged(serviceKey, sliceKey, esInfo) ==
    CASE pending[serviceKey][sliceKey] # None -> esInfo # pending[serviceKey][sliceKey]
      [] pending[serviceKey][sliceKey] = None /\ applied[serviceKey][sliceKey] # None ->
            esInfo # applied[serviceKey][sliceKey]
      [] OTHER -> ~esInfo.remove

isLocal(endpoint) == hostname # "" /\ endpoint.nodeName = hostname

\* Ports without a name or a number are ignored, and so are endpoints without
\* an address or with one of the other IP family.
UsablePort(port) == port.name # None /\ port.port \notin {None, 0}

UsableEndpoint(endpoint) ==
    /\ endpoint.addresses # <<>>
    /\ (ipFamily = "IPv6") = (FirstAddress(endpoint) \in IPv6Addresses)

\* What is known of an "ip:port"; the conditions are copied.
newBaseEndpointInfo(endpoint) ==
    [isLocal |-> isLocal(endpoint), conditions |-> endpoint.conditions]

\* Of the same "ip:port", as the keys of the maps below are.
Equal(info, otherInfo) == info.isLocal = otherInfo.isLocal

\* One slice's part of the map: (port name, "ip:port") -> BaseEndpointInfo.
SliceEndpoints(info) ==
    LET ports == {p \in Range(info.ports) : UsablePort(p)}
        endpoints == {e \in info.endpoints : UsableEndpoint(e)}
    IN  [key \in {<<p.name, FirstAddress(e), p.port>> : p \in ports, e \in endpoints} |->
            newBaseEndpointInfo(CHOOSE e \in endpoints : FirstAddress(e) = key[2])]

\* Mistake: the first of several equal addresses always stays.
addEndpointsOnce(endpointSet, info) == endpointSet @@ SliceEndpoints(info)

\* "isLocal should not vary between matching endpoints, but if it does, we
\* favor a true value here if it exists."
addEndpoints(endpointSet, info) ==
    LET new == SliceEndpoints(info)
    IN  [key \in DOMAIN endpointSet \cup DOMAIN new |->
            IF key \in DOMAIN new /\ (key \notin DOMAIN endpointSet \/ new[key].isLocal)
            THEN new[key] ELSE endpointSet[key]]

NoEndpoints == [key \in {} |-> None]

\* The slices are taken in the order in which Go iterates over the map.
getEndpointsMap(infos, order) ==
    LET present == SelectSeq(order, LAMBDA n : infos[n] # None)
    IN  FoldLeft(addEndpoints, NoEndpoints, [i \in DOMAIN present |-> infos[present[i]]])

-----------------------------------------------------------------------------
Init ==
    /\ applied = [s \in Services |-> [n \in SliceNames |-> None]]
    /\ pending = [s \in Services |-> [n \in SliceNames |-> None]]
    /\ told = [s \in Services |-> [n \in SliceNames |-> None]]
    /\ reported = [s \in Services |-> NoEndpoints]
    /\ reply = [changed |-> FALSE, changes |-> NoEndpoints]

\* endpointSliceCacheKeys fails for a slice without a service label.
updatePendingWithoutKeys(slice) ==
    /\ slice.service = None
    /\ reply' = [changed |-> FALSE, changes |-> NoEndpoints]
    /\ UNCHANGED <<applied, pending, told, reported>>

updatePending(slice, remove) ==
    LET esInfo == newEndpointSliceInfo(slice, remove)
    IN  /\ slice.service # None
        /\ told' = [told EXCEPT ![slice.service][slice.name] =
                       IF remove THEN None ELSE slice]
        /\ IF esInfoChanged(slice.service, slice.name, esInfo)
           THEN /\ pending' = [pending EXCEPT ![slice.service][slice.name] = esInfo]
                /\ reply' = [changed |-> TRUE, changes |-> NoEndpoints]
           ELSE /\ pending' = pending
                /\ reply' = [changed |-> FALSE, changes |-> NoEndpoints]
        /\ UNCHANGED <<applied, reported>>

\* Mistake: the removal is applied like any other change.
ApplyRemovalToo(s) ==
    [n \in SliceNames |-> IF pending[s][n] = None THEN applied[s][n] ELSE pending[s][n]]

\* The slices of a service once its pending ones are applied.
ApplyPending(s) ==
    [n \in SliceNames |->
        IF pending[s][n] = None THEN applied[s][n]
        ELSE IF pending[s][n].remove THEN None ELSE pending[s][n]]

HasPending(s) == \E n \in SliceNames : pending[s][n] # None

checkoutChanges ==
    \E before, after \in [Services -> SetToSeqs(SliceNames)] :
        LET changes == [s \in {t \in Services : HasPending(t)} |->
                [previous |-> getEndpointsMap(applied[s], before[s]),
                 current |-> getEndpointsMap(ApplyPending(s), after[s])]]
        IN  /\ applied' = [s \in Services |-> ApplyPending(s)]
            /\ pending' = [s \in Services |-> [n \in SliceNames |-> None]]
            /\ reported' = [s \in Services |->
                   IF s \in DOMAIN changes THEN changes[s].current ELSE reported[s]]
            /\ reply' = [changed |-> FALSE, changes |-> changes]
            /\ UNCHANGED told

Next ==
    \/ \E slice \in Slices :
          \/ updatePendingWithoutKeys(slice)
          \/ \E remove \in BOOLEAN : updatePending(slice, remove)
    \/ checkoutChanges

Spec == Init /\ [][Next]_vars

-----------------------------------------------------------------------------
Infos == {newEndpointSliceInfo(s, remove) : s \in Slices, remove \in BOOLEAN}

\* Type invariant of the trackers; a removal is never among the applied slices.
TypeOK ==
    /\ applied \in [Services -> [SliceNames ->
                       {newEndpointSliceInfo(s, FALSE) : s \in Slices} \cup {None}]]
    /\ pending \in [Services -> [SliceNames -> Infos \cup {None}]]
    /\ told \in [Services -> [SliceNames -> Slices \cup {None}]]

\* The applied slices overlaid with the pending ones are the slices the API
\* has, however often a slice was changed, removed and brought back between
\* two checkouts (esInfoChanged, endpointslicecache.go:315-341, drops updates
\* it takes for repetitions).
CacheFollowsApi ==
    \A s \in Services, n \in SliceNames :
        ApplyPending(s)[n] =
            IF told[s][n] = None THEN None ELSE newEndpointSliceInfo(told[s][n], FALSE)

\* What the API's slices say of one "ip:port" of a port of the service.
Listed(s, key) ==
    LET Lists(slice, e) ==
            /\ UsableEndpoint(e) /\ FirstAddress(e) = key[2]
            /\ \E p \in Range(slice.ports) :
                  UsablePort(p) /\ p.name = key[1] /\ p.port = key[3]
    IN  UNION {{newBaseEndpointInfo(e) : e \in {e \in Range(slice.endpoints) : Lists(slice, e)}} :
                  slice \in Range(told[s]) \ {None}}

\* Once nothing is pending for a service, the endpoints of its last change are
\* those of the API's slices: none is missing although it moved from one slice
\* to another (the reason for the cache, endpointslicecache.go:44-49), none is
\* left over, and an address that any slice calls local is local.
ReportedMatchesApi ==
    \A s \in Services :
        ~HasPending(s) =>
            /\ DOMAIN reported[s] =
                  {key \in PortNames \X Addresses \X Ports : Listed(s, key) # {}}
            /\ \A key \in DOMAIN reported[s] :
                  /\ reported[s][key] \in Listed(s, key)
                  /\ reported[s][key].isLocal = \E e \in Listed(s, key) : e.isLocal

\* The `previous` of every change is the `current` of the change before it, as
\* Endpoint.Equal compares (address, port and isLocal), although both are
\* computed anew from a Go map ("previous is state from before applying the
\* changes", endpoints.go:138).
PreviousWasReported ==
    [][\A s \in DOMAIN reply'.changes :
          LET previous == reply'.changes[s].previous
          IN  pending[s] # pending'[s] =>
                /\ DOMAIN previous = DOMAIN reported[s]
                /\ \A key \in DOMAIN previous :
                      Equal(previous[key], reported[s][key])]_vars
=============================================================================
