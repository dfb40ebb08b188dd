------------------------ MODULE LoadBalancerRRProofs ------------------------
(***************************************************************************)
(* Proofs about LoadBalancerRR for every set of services and endpoints.    *)
(***************************************************************************)
EXTENDS LoadBalancerRR, SequenceTheorems, TLAPS

-----------------------------------------------------------------------------
\* The list buildPortsToEndpointsMap builds for a port is a non-empty,
\* duplicate-free list of addresses, one per address of the endpoint object.
LEMMA BuildProperties ==
    ASSUME NEW e \in Endpoints, NEW s \in Services,
           NEW p \in DOMAIN buildPortsToEndpointsMap(e, s)
    PROVE  /\ buildPortsToEndpointsMap(e, s)[p] \in Seq(Addresses)
           /\ Len(buildPortsToEndpointsMap(e, s)[p]) = Len(e)
           /\ IsInjective(buildPortsToEndpointsMap(e, s)[p])
           /\ Len(e) \in Nat \ {0}
<1> DEFINE l == [i \in 1..Len(e) |-> <<e[i], s.ports[p].port>>]
<1>1. /\ e \in Seq(IPs) /\ IsInjective(e)
      /\ e # <<>> /\ p \in DOMAIN s.ports
      /\ buildPortsToEndpointsMap(e, s)[p] = l
  BY EndpointAssumption DEF buildPortsToEndpointsMap
<1>2. Len(e) \in Nat \ {0} /\ DOMAIN e = 1..Len(e) /\ \A i \in 1..Len(e) : e[i] \in IPs
  BY <1>1, EmptySeq, LenProperties, ElementOfSeq
<1>3. s.ports[p].port \in Ports
  BY <1>1, ServiceAssumption
<1>4. \A i \in 1..Len(e) : l[i] \in Addresses
  BY <1>2, <1>3 DEF Addresses
<1>5. l \in Seq(Addresses) /\ Len(l) = Len(e)
  BY <1>2, <1>4, IsASeq
<1>6. IsInjective(l)
  <2> SUFFICES ASSUME NEW i \in 1..Len(e), NEW j \in 1..Len(e), l[i] = l[j]
               PROVE  i = j
    BY DEF IsInjective
  <2>1. e[i] = e[j]
    OBVIOUS
  <2> QED BY <2>1, <1>1, <1>2 DEF IsInjective
<1> QED BY <1>1, <1>2, <1>5, <1>6

\* Shuffling keeps the length, the addresses and their being different.
LEMMA ShuffleProperties ==
    ASSUME NEW S, NEW s \in Seq(S), NEW perm \in Perm(Len(s))
    PROVE  /\ ShuffleStrings(s, perm) \in Seq(S)
           /\ Len(ShuffleStrings(s, perm)) = Len(s)
           /\ IsInjective(s) => IsInjective(ShuffleStrings(s, perm))
<1> DEFINE n == Len(s)
           t == ShuffleStrings(s, perm)
<1>1. n \in Nat /\ DOMAIN s = 1..n /\ \A i \in 1..n : s[i] \in S
  BY LenProperties, ElementOfSeq
<1>2. perm \in [1..n -> 1..n] /\ IsInjective(perm)
  BY DEF Perm, Bijection, Injection
<1>3. t = [i \in 1..n |-> s[perm[i]]]
  BY DEF ShuffleStrings
<1>4. t \in Seq(S) /\ Len(t) = n
  BY <1>1, <1>2, <1>3, IsASeq
<1>5. ASSUME IsInjective(s) PROVE IsInjective(t)
  <2> SUFFICES ASSUME NEW i \in 1..n, NEW j \in 1..n, t[i] = t[j]
               PROVE  i = j
    BY <1>3 DEF IsInjective
  <2>1. s[perm[i]] = s[perm[j]]
    BY <1>3
  <2>2. perm[i] = perm[j]
    BY <2>1, <1>1, <1>2, <1>5 DEF IsInjective
  <2> QED BY <2>2, <1>2 DEF IsInjective
<1> QED BY <1>4, <1>5

-----------------------------------------------------------------------------
\* What the invariants say of one entry of lb.services.
StateOK(state) ==
    \/ state = None
    \/ /\ state \in BalancerState
       /\ state.endpoints # <<>> => state.index < Len(state.endpoints)
       /\ IsInjective(state.endpoints)

\* The inductive invariant: the three checked invariants together.
IInv == TypeOK /\ IndexInRange /\ NoDuplicates

LEMMA IInvPointwise ==
    IInv <=> /\ services = [sp \in ServicePortNames |-> services[sp]]
             /\ \A sp \in ServicePortNames : StateOK(services[sp])
             /\ reply \in Replies \cup {None}
<1> QED
  BY NoneAssumption DEF IInv, TypeOK, IndexInRange, NoDuplicates, StateOK, BalancerState

LEMMA EmptyStateOK == StateOK(EmptyState) /\ EmptyState # None
<1>1. <<>> \in Seq(Addresses) /\ IsInjective(<<>>)
  BY EmptySeq DEF IsInjective
<1>2. EmptyState \in BalancerState /\ EmptyState.endpoints = <<>>
  BY <1>1 DEF EmptyState, BalancerState
<1>3. StateOK(EmptyState)
  BY <1>1, <1>2 DEF StateOK
<1> QED BY <1>2, <1>3, NoneAssumption DEF BalancerState

LEMMA NewServiceInternalOK ==
    ASSUME NEW state, StateOK(state)
    PROVE  StateOK(newServiceInternal(state)) /\ newServiceInternal(state) \in BalancerState
<1> QED BY EmptyStateOK, NoneAssumption DEF newServiceInternal, StateOK, BalancerState

LEMMA ResetServiceOK ==
    ASSUME NEW state, StateOK(state)
    PROVE  StateOK(resetService(state))
<1> QED BY EmptyStateOK DEF resetService, StateOK

\* Installing the list built for a port starts a round over that list.
LEMMA SetEndpointsOK ==
    ASSUME NEW e \in Endpoints, NEW s \in Services,
           NEW p \in DOMAIN buildPortsToEndpointsMap(e, s),
           NEW perm \in Perm(Len(e))
    PROVE  LET new == SetEndpoints(buildPortsToEndpointsMap(e, s)[p], perm)
           IN  StateOK(new) /\ new # None /\ new \in BalancerState /\ new.index = 0
<1> DEFINE l == buildPortsToEndpointsMap(e, s)[p]
           t == ShuffleStrings(l, perm)
           new == [endpoints |-> t, index |-> 0]
<1>1. l \in Seq(Addresses) /\ Len(l) = Len(e) /\ IsInjective(l) /\ Len(e) \in Nat \ {0}
  BY BuildProperties
<1>2. t \in Seq(Addresses) /\ Len(t) = Len(e) /\ IsInjective(t)
  <2> HIDE DEF l
  <2> QED BY <1>1, ShuffleProperties
<1>3. SetEndpoints(l, perm) = new
  BY DEF SetEndpoints
<1>4. new \in BalancerState /\ new.endpoints = t /\ new.index = 0
  <2> HIDE DEF t
  <2> QED BY <1>2 DEF BalancerState
<1>5. StateOK(new)
  <2> HIDE DEF new, t
  <2> QED BY <1>1, <1>2, <1>4 DEF StateOK
<1> HIDE DEF new
<1> QED BY <1>3, <1>4, <1>5, NoneAssumption DEF BalancerState

\* (index + 1) % len stays in range, for every length.
LEMMA Modulus ==
    ASSUME NEW n \in Nat \ {0}, NEW i \in Nat, i < n
    PROVE  /\ (i + 1) % n \in Nat
           /\ (i + 1) % n < n
           /\ i + 1 < n => (i + 1) % n = i + 1
           /\ i + 1 = n => (i + 1) % n = 0
<1> QED OBVIOUS

LEMMA TakeOK ==
    ASSUME NEW state \in BalancerState, StateOK(state), state # None,
           Len(state.endpoints) > 0
    PROVE  /\ state.endpoints[state.index + 1] \in Addresses
           /\ StateOK([endpoints |-> state.endpoints,
                       index |-> (state.index + 1) % Len(state.endpoints)])
<1> DEFINE n == Len(state.endpoints)
<1>1. /\ state.endpoints \in Seq(Addresses) /\ state.index \in Nat /\ n \in Nat \ {0}
      /\ state.index < n /\ IsInjective(state.endpoints)
      /\ state.endpoints # <<>>
  BY EmptySeq, LenProperties DEF StateOK, BalancerState
<1>2. state.endpoints[state.index + 1] \in Addresses
  BY <1>1, ElementOfSeq
<1>3. (state.index + 1) % n \in Nat /\ (state.index + 1) % n < n
  BY <1>1, Modulus
<1> DEFINE k == (state.index + 1) % n
<1>4. k \in Nat /\ k < n
  BY <1>3
<1>5. StateOK([endpoints |-> state.endpoints, index |-> k])
  <2> HIDE DEF k
  <2> QED BY <1>1, <1>4 DEF StateOK, BalancerState
<1> QED BY <1>2, <1>5

-----------------------------------------------------------------------------
\* TypeOK, IndexInRange and NoDuplicates hold together at the start and are
\* kept by every operation.
LEMMA InitIInv == Init => IInv
<1> QED BY IInvPointwise DEF Init, StateOK

LEMMA NextIInv == IInv /\ [Next]_vars => IInv'
<1> SUFFICES ASSUME IInv, [Next]_vars PROVE IInv'
  OBVIOUS
<1> USE DEF ServicePortNames
<1>1. /\ services = [sp \in ServicePortNames |-> services[sp]]
      /\ \A sp \in ServicePortNames : StateOK(services[sp])
      /\ reply \in Replies \cup {None}
  BY IInvPointwise
<1>2. SUFFICES /\ services' = [sp \in ServicePortNames |-> services'[sp]]
               /\ \A sp \in ServicePortNames : StateOK(services'[sp])
               /\ reply' \in Replies \cup {None}
  BY NoneAssumption DEF IInv, TypeOK, IndexInRange, NoDuplicates, StateOK, BalancerState
<1>3. CASE UNCHANGED vars
  BY <1>1, <1>3 DEF vars
<1>4. ASSUME NEW svcPort \in ServicePortNames, NewService(svcPort)
      PROVE  <1>2!1
  BY <1>1, <1>4, NewServiceInternalOK DEF NewService
<1>5. ASSUME NEW svcPort \in ServicePortNames, DeleteService(svcPort)
      PROVE  <1>2!1
  BY <1>1, <1>5 DEF DeleteService, StateOK
<1>6. ASSUME NEW svcPort \in ServicePortNames, NextEndpoint(svcPort)
      PROVE  <1>2!1
  <2>1. CASE MissingServiceEntry(svcPort)
    BY <1>1, <2>1 DEF MissingServiceEntry, Replies
  <2>2. CASE MissingEndpoints(svcPort)
    BY <1>1, <2>2 DEF MissingEndpoints, Replies
  <2>3. CASE TakeNextEndpoint(svcPort)
    <3> DEFINE state == services[svcPort]
               next == [endpoints |-> state.endpoints,
                        index |-> (state.index + 1) % Len(state.endpoints)]
    <3>1. state \in BalancerState /\ StateOK(state) /\ state # None /\ Len(state.endpoints) > 0
      BY <1>1, <2>3 DEF TakeNextEndpoint, StateOK
    <3>2. state.endpoints[state.index + 1] \in Addresses /\ StateOK(next)
      <4> HIDE DEF state
      <4> QED BY <3>1, TakeOK
    <3>3. /\ services' = [services EXCEPT ![svcPort] = next]
          /\ reply' = [svcPort |-> svcPort, endpoint |-> state.endpoints[state.index + 1],
                       err |-> "nil"]
      BY <2>3 DEF TakeNextEndpoint, NextIndex
    <3>4. reply' \in Replies
      BY <3>2, <3>3 DEF Replies
    <3> HIDE DEF next
    <3> QED BY <1>1, <3>2, <3>3, <3>4
  <2> QED BY <1>6, <2>1, <2>2, <2>3 DEF NextEndpoint
<1>7. ASSUME NEW s \in Services, NEW e \in Endpoints, OnEndpointsAdd(e, s)
      PROVE  <1>2!1
  <2> DEFINE m == buildPortsToEndpointsMap(e, s)
  <2>1. PICK perms \in [DOMAIN m -> Perm(Len(e))] :
           services' = [sp \in ServicePortNames |->
              IF /\ Keyed(sp, s, m)
                 /\ services[sp] = None \/ Len(m[sp[2]]) > 0
              THEN SetEndpoints(m[sp[2]], perms[sp[2]])
              ELSE services[sp]]
    BY <1>7 DEF OnEndpointsAdd
  <2>2. \A p \in DOMAIN m : StateOK(SetEndpoints(m[p], perms[p]))
    BY SetEndpointsOK
  <2> HIDE DEF m
  <2>3. UNCHANGED reply
    BY <1>7 DEF OnEndpointsAdd
  <2> QED BY <1>1, <2>1, <2>2, <2>3 DEF Keyed
<1>8. ASSUME NEW s \in Services, NEW e \in Endpoints, OnEndpointsDelete(e, s)
      PROVE  <1>2!1
  BY <1>1, <1>8, ResetServiceOK DEF OnEndpointsDelete
<1>9. ASSUME NEW s \in Services, NEW e \in Endpoints, NEW old \in Endpoints,
             OnEndpointsUpdate(old, e, s)
      PROVE  <1>2!1
  <2> DEFINE m == buildPortsToEndpointsMap(e, s)
             oldm == buildPortsToEndpointsMap(old, s)
  <2>1. PICK perms \in [DOMAIN m -> Perm(Len(e))] :
           services' = [sp \in ServicePortNames |->
              IF Keyed(sp, s, m)
              THEN IF \/ services[sp] = None
                      \/ ~slicesEquiv(services[sp].endpoints, m[sp[2]])
                   THEN SetEndpoints(m[sp[2]], perms[sp[2]])
                   ELSE services[sp]
              ELSE IF Keyed(sp, s, oldm)
                   THEN resetService(services[sp])
                   ELSE services[sp]]
    BY <1>9 DEF OnEndpointsUpdate
  <2>2. \A p \in DOMAIN m : StateOK(SetEndpoints(m[p], perms[p]))
    BY SetEndpointsOK
  <2> HIDE DEF m, oldm
  <2>3. UNCHANGED reply
    BY <1>9 DEF OnEndpointsUpdate
  <2>4. ASSUME NEW sp \in ServicePortNames
        PROVE  StateOK(services'[sp])
    BY <1>1, <2>1, <2>2, ResetServiceOK DEF Keyed
  <2> QED BY <1>1, <2>1, <2>3, <2>4
<1> QED BY <1>3, <1>4, <1>5, <1>6, <1>7, <1>8, <1>9 DEF Next

THEOREM Invariance == Spec => []IInv
<1> QED BY InitIInv, NextIInv, PTL DEF Spec

\* Type correctness of the balancer for any services and endpoints.
THEOREM TypeCorrect == Spec => []TypeOK
<1>1. IInv => TypeOK
  BY DEF IInv
<1> QED BY Invariance, <1>1, PTL

\* NextEndpoint never indexes outside the list (roundrobin.go:251).
THEOREM IndexSafe == Spec => []IndexInRange
<1>1. IInv => IndexInRange
  BY DEF IInv
<1> QED BY Invariance, <1>1, PTL

\* No list ever holds the same address twice.
THEOREM Distinct == Spec => []NoDuplicates
<1>1. IInv => NoDuplicates
  BY DEF IInv
<1> QED BY Invariance, <1>1, PTL

-----------------------------------------------------------------------------
(***************************************************************************)
(* LoadBalancerRR implements FairBalancer.  PoolOf and DueOf are the       *)
(* refinement mapping for one entry.                                       *)
(***************************************************************************)
PoolOf(state) == IF state = None THEN None ELSE Range(state.endpoints)

DueOf(state) ==
    IF state = None THEN {}
    ELSE {state.endpoints[i] : i \in state.index + 1 .. Len(state.endpoints)}

\* An entry whose index is 0 is at the start of a round.
LEMMA FreshRound ==
    ASSUME NEW state \in BalancerState, state.index = 0, state # None
    PROVE  DueOf(state) = PoolOf(state)
<1>1. state.endpoints \in Seq(Addresses)
  BY DEF BalancerState
<1>2. DOMAIN state.endpoints = 1..Len(state.endpoints)
  BY <1>1, LenProperties
<1> QED BY <1>2 DEF DueOf, PoolOf, Range

\* Taking endpoints[index] takes one address that is still due; the last one
\* makes every address due again.
LEMMA ServeRound ==
    ASSUME NEW state \in BalancerState, StateOK(state), state # None,
           Len(state.endpoints) > 0
    PROVE  LET e == state.endpoints[state.index + 1]
               next == [endpoints |-> state.endpoints,
                        index |-> (state.index + 1) % Len(state.endpoints)]
           IN  /\ e \in DueOf(state)
               /\ PoolOf(next) = PoolOf(state)
               /\ DueOf(next) = IF DueOf(state) = {e} THEN PoolOf(state) ELSE DueOf(state) \ {e}
<1> DEFINE l == state.endpoints
           n == Len(l)
           k == state.index
           e == l[k + 1]
           next == [endpoints |-> l, index |-> (k + 1) % n]
<1>1. /\ l \in Seq(Addresses) /\ k \in Nat /\ n \in Nat \ {0}
      /\ k < n /\ IsInjective(l) /\ DOMAIN l = 1..n
  BY EmptySeq, LenProperties DEF StateOK, BalancerState
<1>2. next # None /\ next \in BalancerState
  <2>1. (k + 1) % n \in Nat
    BY <1>1, Modulus
  <2> QED BY <1>1, <2>1, NoneAssumption DEF BalancerState
<1>3. /\ DueOf(state) = {l[i] : i \in k + 1 .. n}
      /\ PoolOf(state) = Range(l) /\ PoolOf(next) = Range(l)
      /\ DueOf(next) = {l[i] : i \in ((k + 1) % n) + 1 .. n}
  BY <1>2 DEF DueOf, PoolOf
<1>4. e \in DueOf(state)
  BY <1>1, <1>3
<1>5. CASE k + 1 = n
  <2>1. (k + 1) % n = 0
    BY <1>1, <1>5, Modulus
  <2>2. DueOf(next) = {l[i] : i \in 1..n}
    BY <1>3, <2>1
  <2>3. DueOf(state) = {e}
    BY <1>1, <1>3, <1>5
  <2>4. Range(l) = {l[i] : i \in 1..n}
    BY <1>1 DEF Range
  <2> QED BY <1>3, <1>4, <2>2, <2>3, <2>4
<1>6. CASE k + 1 < n
  <2>1. (k + 1) % n = k + 1
    BY <1>1, <1>6, Modulus
  <2>2. DueOf(next) = {l[i] : i \in k + 2 .. n}
    BY <1>1, <1>3, <2>1
  <2>3. l[k + 2] \in DueOf(state) /\ l[k + 2] # e
    <3>1. k + 1 \in DOMAIN l /\ k + 2 \in DOMAIN l /\ k + 1 # k + 2 /\ k + 2 \in k + 1 .. n
      BY <1>1, <1>6
    <3>2. l[k + 2] # l[k + 1]
      BY <3>1, <1>1 DEF IsInjective
    <3> QED BY <1>3, <3>1, <3>2
  <2>4. ASSUME NEW x \in DueOf(state) \ {e}
        PROVE  x \in DueOf(next)
    <3>1. PICK i \in k + 1 .. n : x = l[i]
      BY <1>3, <2>4
    <3>2. i # k + 1
      BY <2>4, <3>1
    <3>3. i \in k + 2 .. n
      BY <1>1, <3>1, <3>2
    <3> QED BY <2>2, <3>1, <3>3
  <2>5. ASSUME NEW x \in DueOf(next)
        PROVE  x \in DueOf(state) \ {e}
    <3>1. PICK i \in k + 2 .. n : x = l[i]
      BY <2>2, <2>5
    <3>2. i \in 1..n /\ k + 1 \in 1..n /\ i # k + 1 /\ i \in k + 1 .. n
      BY <1>1, <3>1
    <3>3. l[i] # e
      BY <1>1, <3>2 DEF IsInjective
    <3> QED BY <1>3, <3>1, <3>2, <3>3
  <2>6. DueOf(next) = DueOf(state) \ {e}
    BY <2>4, <2>5
  <2> QED BY <1>3, <1>4, <2>3, <2>6
<1>7. k + 1 = n \/ k + 1 < n
  BY <1>1
<1> QED BY <1>5, <1>6, <1>7

LEMMA MappingPointwise ==
    /\ pool = [sp \in ServicePortNames |-> PoolOf(services[sp])]
    /\ remaining = [sp \in ServicePortNames |-> DueOf(services[sp])]
    /\ pool' = [sp \in ServicePortNames |-> PoolOf(services'[sp])]
    /\ remaining' = [sp \in ServicePortNames |-> DueOf(services'[sp])]
<1> QED BY DEF pool, remaining, PoolOf, DueOf

\* What a change of one entry by the sink means for the round of that port:
\* nothing, or a fresh round.
Restarts(before, after) ==
    \/ after = before
    \/ DueOf(after) = IF PoolOf(after) = None THEN {} ELSE PoolOf(after)

LEMMA SetRestarts ==
    ASSUME NEW e \in Endpoints, NEW s \in Services,
           NEW p \in DOMAIN buildPortsToEndpointsMap(e, s),
           NEW perm \in Perm(Len(e)), NEW before
    PROVE  Restarts(before, SetEndpoints(buildPortsToEndpointsMap(e, s)[p], perm))
<1> DEFINE new == SetEndpoints(buildPortsToEndpointsMap(e, s)[p], perm)
<1>1. new # None /\ new \in BalancerState /\ new.index = 0
  BY SetEndpointsOK
<1> HIDE DEF new
<1>2. DueOf(new) = PoolOf(new)
  BY <1>1, FreshRound
<1>3. PoolOf(new) # None
  <2>1. new.endpoints \in Seq(Addresses)
    BY <1>1 DEF BalancerState
  <2>2. \A i \in DOMAIN new.endpoints : new.endpoints[i] \in Addresses
    BY <2>1, LenProperties, ElementOfSeq
  <2>3. Range(new.endpoints) \in SUBSET Addresses
    BY <2>2 DEF Range
  <2> QED BY <1>1, <2>3, NoneAssumption DEF PoolOf
<1>4. Restarts(before, new)
  BY <1>2, <1>3 DEF Restarts
<1> QED BY <1>4 DEF new

LEMMA EmptyRestarts ==
    ASSUME NEW before PROVE Restarts(before, None) /\ Restarts(before, EmptyState)
<1>1. EmptyState \in BalancerState /\ EmptyState.index = 0 /\ EmptyState # None
  BY EmptyStateOK DEF StateOK, EmptyState, BalancerState
<1>2. DueOf(EmptyState) = PoolOf(EmptyState)
  BY <1>1, FreshRound
<1>3. DueOf(None) = {} /\ PoolOf(None) = None
  BY DEF DueOf, PoolOf
<1>4. PoolOf(EmptyState) = None => DueOf(EmptyState) = {}
  BY EmptySeq DEF EmptyState, DueOf
<1> QED BY <1>2, <1>3, <1>4 DEF Restarts

LEMMA ReconfigureStep ==
    ASSUME UNCHANGED reply,
           \A sp \in ServicePortNames : Restarts(services[sp], services'[sp])
    PROVE  Fair!Reconfigure
<1> QED
  BY MappingPointwise DEF Fair!Reconfigure, Fair!ServiceKeys, ServicePortNames, Restarts

\* The initial states map to the initial state of FairBalancer.
LEMMA InitRefines == Init => Fair!Init
<1> QED
  BY MappingPointwise DEF Init, Fair!Init, Fair!ServiceKeys, ServicePortNames, PoolOf, DueOf

\* Every step maps to a step of FairBalancer or leaves its state alone.
LEMMA NextRefines == IInv /\ [Next]_vars => [Fair!Next]_(Fair!fairVars)
<1> SUFFICES ASSUME IInv, [Next]_vars PROVE [Fair!Next]_(Fair!fairVars)
  OBVIOUS
<1>1. /\ services = [sp \in ServicePortNames |-> services[sp]]
      /\ \A sp \in ServicePortNames : StateOK(services[sp])
  BY IInvPointwise
<1>2. CASE UNCHANGED vars
  BY <1>2 DEF vars, Fair!fairVars, pool, remaining
<1>3. ASSUME NEW svcPort \in ServicePortNames, NewService(svcPort)
      PROVE  Fair!Reconfigure
  <2>1. \A sp \in ServicePortNames : Restarts(services[sp], services'[sp])
    BY <1>1, <1>3, EmptyRestarts DEF NewService, newServiceInternal, Restarts
  <2> QED BY <1>3, <2>1, ReconfigureStep DEF NewService
<1>4. ASSUME NEW svcPort \in ServicePortNames, DeleteService(svcPort)
      PROVE  Fair!Reconfigure
  <2>1. \A sp \in ServicePortNames : Restarts(services[sp], services'[sp])
    BY <1>1, <1>4, EmptyRestarts DEF DeleteService, Restarts
  <2> QED BY <1>4, <2>1, ReconfigureStep DEF DeleteService
<1>5. ASSUME NEW s \in Services, NEW e \in Endpoints, OnEndpointsAdd(e, s)
      PROVE  Fair!Reconfigure
  <2> DEFINE m == buildPortsToEndpointsMap(e, s)
  <2>1. PICK perms \in [DOMAIN m -> Perm(Len(e))] :
           services' = [sp \in ServicePortNames |->
              IF /\ Keyed(sp, s, m)
                 /\ services[sp] = None \/ Len(m[sp[2]]) > 0
              THEN SetEndpoints(m[sp[2]], perms[sp[2]])
              ELSE services[sp]]
    BY <1>5 DEF OnEndpointsAdd
  <2>2. \A p \in DOMAIN m, sp \in ServicePortNames :
           Restarts(services[sp], SetEndpoints(m[p], perms[p]))
    BY SetRestarts
  <2> HIDE DEF m
  <2>3. \A sp \in ServicePortNames : Restarts(services[sp], services'[sp])
    BY <2>1, <2>2 DEF Keyed, Restarts
  <2> QED BY <1>5, <2>3, ReconfigureStep DEF OnEndpointsAdd
<1>6. ASSUME NEW s \in Services, NEW e \in Endpoints, OnEndpointsDelete(e, s)
      PROVE  Fair!Reconfigure
  <2>1. \A sp \in ServicePortNames : Restarts(services[sp], services'[sp])
    BY <1>6, EmptyRestarts DEF OnEndpointsDelete, resetService, Restarts
  <2> QED BY <1>6, <2>1, ReconfigureStep DEF OnEndpointsDelete
<1>7. ASSUME NEW s \in Services, NEW e \in Endpoints, NEW old \in Endpoints,
             OnEndpointsUpdate(old, e, s)
      PROVE  Fair!Reconfigure
  <2> DEFINE m == buildPortsToEndpointsMap(e, s)
             oldm == buildPortsToEndpointsMap(old, s)
  <2>1. PICK perms \in [DOMAIN m -> Perm(Len(e))] :
           services' = [sp \in ServicePortNames |->
              IF Keyed(sp, s, m)
              THEN IF \/ services[sp] = None
                      \/ ~slicesEquiv(services[sp].endpoints, m[sp[2]])
                   THEN SetEndpoints(m[sp[2]], perms[sp[2]])
                   ELSE services[sp]
              ELSE IF Keyed(sp, s, oldm)
                   THEN resetService(services[sp])
                   ELSE services[sp]]
    BY <1>7 DEF OnEndpointsUpdate
  <2>2. \A p \in DOMAIN m, sp \in ServicePortNames :
           Restarts(services[sp], SetEndpoints(m[p], perms[p]))
    BY SetRestarts
  <2>3. \A sp \in ServicePortNames : Restarts(services[sp], resetService(services[sp]))
    BY EmptyRestarts DEF resetService
  <2> HIDE DEF m, oldm
  <2>4. \A sp \in ServicePortNames : Restarts(services[sp], services'[sp])
    BY <2>1, <2>2, <2>3 DEF Keyed, Restarts
  <2> QED BY <1>7, <2>4, ReconfigureStep DEF OnEndpointsUpdate
<1>8. ASSUME NEW svcPort \in ServicePortNames, MissingServiceEntry(svcPort)
      PROVE  Fair!Refuse(svcPort)
  BY <1>8, MappingPointwise DEF MissingServiceEntry, Fair!Refuse, PoolOf, ErrMissingServiceEntry
<1>9. ASSUME NEW svcPort \in ServicePortNames, MissingEndpoints(svcPort)
      PROVE  Fair!Refuse(svcPort)
  <2>1. services[svcPort] # None /\ services[svcPort] \in BalancerState
    BY <1>1, <1>9 DEF MissingEndpoints, StateOK
  <2>2. services[svcPort].endpoints = <<>>
    BY <1>9, <2>1, EmptySeq DEF MissingEndpoints, BalancerState
  <2>3. PoolOf(services[svcPort]) = {}
    BY <2>1, <2>2 DEF PoolOf, Range
  <2> QED
    BY <1>9, <2>3, MappingPointwise DEF MissingEndpoints, Fair!Refuse, ErrMissingEndpoints
<1>10. ASSUME NEW svcPort \in ServicePortNames, TakeNextEndpoint(svcPort)
       PROVE  Fair!Serve(svcPort)
  <2> DEFINE state == services[svcPort]
             e == state.endpoints[state.index + 1]
             next == [endpoints |-> state.endpoints,
                      index |-> (state.index + 1) % Len(state.endpoints)]
  <2>1. state \in BalancerState /\ StateOK(state) /\ state # None /\ Len(state.endpoints) > 0
    BY <1>1, <1>10 DEF TakeNextEndpoint, StateOK
  <2>2. /\ e \in DueOf(state)
        /\ PoolOf(next) = PoolOf(state)
        /\ DueOf(next) = IF DueOf(state) = {e} THEN PoolOf(state) ELSE DueOf(state) \ {e}
    <3> HIDE DEF state
    <3> QED BY <2>1, ServeRound
  <2>3. /\ services' = [services EXCEPT ![svcPort] = next]
        /\ reply' = [svcPort |-> svcPort, endpoint |-> e, err |-> "nil"]
    BY <1>10 DEF TakeNextEndpoint, NextIndex
  <2> HIDE DEF next, e
  <2>4. pool' = pool
    BY <1>1, <2>2, <2>3, MappingPointwise
  <2>5. remaining' = [remaining EXCEPT ![svcPort] =
                        IF remaining[svcPort] = {e} THEN pool[svcPort]
                                                    ELSE remaining[svcPort] \ {e}]
    BY <1>1, <2>2, <2>3, MappingPointwise
  <2>6. e \in remaining[svcPort]
    BY <2>2, MappingPointwise
  <2> QED BY <2>3, <2>4, <2>5, <2>6 DEF Fair!Serve
<1> QED
  BY <1>2, <1>3, <1>4, <1>5, <1>6, <1>7, <1>8, <1>9, <1>10
     DEF Next, NextEndpoint, Fair!Next, Fair!ServiceKeys, ServicePortNames

\* LoadBalancerRR implements FairBalancer: between two changes of a port's
\* endpoints its answers come in rounds that return every address once.
THEOREM Refinement == Spec => FairRounds
<1>1. Init => Fair!Init
  BY InitRefines
<1>2. IInv /\ [Next]_vars => [Fair!Next]_(Fair!fairVars)
  BY NextRefines
<1> QED BY <1>1, <1>2, Invariance, PTL DEF Spec, FairRounds, Fair!Spec
=============================================================================
