---------------------- MODULE EndpointSliceCacheProofs ----------------------
(***************************************************************************)
(* Proofs about EndpointSliceCache for every set of services and slices.   *)
(***************************************************************************)
EXTENDS EndpointSliceCache, TLAPS

-----------------------------------------------------------------------------
\* The slice that the API has, as the cache keeps it.
Kept(slice) == IF slice = None THEN None ELSE newEndpointSliceInfo(slice, FALSE)

\* What the invariant says of one slice name of a service.
SliceOK(a, p, t) ==
    /\ a \in {newEndpointSliceInfo(s, FALSE) : s \in Slices} \cup {None}
    /\ p \in Infos \cup {None}
    /\ t \in Slices \cup {None}
    /\ (IF p = None THEN a ELSE IF p.remove THEN None ELSE p) = Kept(t)

\* The inductive invariant.  That no removal is among the applied slices is
\* what makes CacheFollowsApi inductive: esInfoChanged would otherwise take a
\* new removal for a repetition.
IInv == TypeOK /\ CacheFollowsApi

\* An endpointSliceInfo says whether it is a removal, and is not None.
LEMMA InfoProperties ==
    ASSUME NEW slice \in Slices, NEW remove \in BOOLEAN
    PROVE  /\ newEndpointSliceInfo(slice, remove) # None
           /\ newEndpointSliceInfo(slice, remove).remove = remove
           /\ newEndpointSliceInfo(slice, remove) \in Infos
           /\ None \notin Slices
<1>1. newEndpointSliceInfo(slice, remove) # None /\ None \notin Slices
  BY NoneAssumption
<1>2. newEndpointSliceInfo(slice, remove).remove = remove
  BY Zenon DEF newEndpointSliceInfo
<1>3. newEndpointSliceInfo(slice, remove) \in Infos
  BY DEF Infos
<1> QED BY <1>1, <1>2, <1>3

\* The invariant holds iff it holds of every slice name of every service.
LEMMA IInvPointwise ==
    IInv <=> /\ applied = [s \in Services |-> [n \in SliceNames |-> applied[s][n]]]
             /\ pending = [s \in Services |-> [n \in SliceNames |-> pending[s][n]]]
             /\ told = [s \in Services |-> [n \in SliceNames |-> told[s][n]]]
             /\ \A s \in Services, n \in SliceNames :
                   SliceOK(applied[s][n], pending[s][n], told[s][n])
BY DEF IInv, TypeOK, CacheFollowsApi, ApplyPending, SliceOK, Kept

LEMMA IInvPointwiseNext ==
    IInv' <=> /\ applied' = [s \in Services |-> [n \in SliceNames |-> applied'[s][n]]]
              /\ pending' = [s \in Services |-> [n \in SliceNames |-> pending'[s][n]]]
              /\ told' = [s \in Services |-> [n \in SliceNames |-> told'[s][n]]]
              /\ \A s \in Services, n \in SliceNames :
                    SliceOK(applied'[s][n], pending'[s][n], told'[s][n])
BY DEF IInv, TypeOK, CacheFollowsApi, ApplyPending, SliceOK, Kept

-----------------------------------------------------------------------------
\* An update keeps the invariant of the slice it is about, whether or not
\* esInfoChanged takes it for a repetition.
LEMMA UpdateSlice ==
    ASSUME NEW slice \in Slices, NEW remove \in BOOLEAN, NEW a, NEW p, NEW t,
           SliceOK(a, p, t)
    PROVE  LET esInfo == newEndpointSliceInfo(slice, remove)
               changed == IF p # None THEN esInfo # p
                          ELSE IF a # None THEN esInfo # a ELSE ~remove
           IN  SliceOK(a, IF changed THEN esInfo ELSE p, IF remove THEN None ELSE slice)
<1> DEFINE esInfo == newEndpointSliceInfo(slice, remove)
<1>1. /\ esInfo # None /\ esInfo.remove = remove /\ esInfo \in Infos
      /\ None \notin Slices
  BY InfoProperties
<1>2. Kept(IF remove THEN None ELSE slice) = IF remove THEN None ELSE esInfo
  BY <1>1 DEF Kept
<1>3. a # None => a.remove = FALSE
  BY InfoProperties DEF SliceOK
<1> HIDE DEF esInfo
<1>4. CASE p # None
  BY <1>1, <1>2, <1>4 DEF SliceOK, esInfo
<1>5. CASE p = None /\ a # None
  BY <1>1, <1>2, <1>3, <1>5 DEF SliceOK, esInfo
<1>6. CASE p = None /\ a = None
  BY <1>1, <1>2, <1>6 DEF SliceOK, esInfo
<1> QED BY <1>4, <1>5, <1>6

\* Applying what is pending keeps the invariant of a slice.
LEMMA ApplySlice ==
    ASSUME NEW a, NEW p, NEW t, SliceOK(a, p, t)
    PROVE  SliceOK(IF p = None THEN a ELSE IF p.remove THEN None ELSE p, None, t)
BY DEF SliceOK, Kept

-----------------------------------------------------------------------------
LEMMA InitIInv == Init => IInv
<1> SUFFICES ASSUME Init PROVE IInv
  OBVIOUS
<1>1. \A s \in Services, n \in SliceNames :
         SliceOK(applied[s][n], pending[s][n], told[s][n])
  BY DEF Init, SliceOK, Kept
<1> QED BY <1>1, IInvPointwise DEF Init

LEMMA UpdateIInv ==
    ASSUME IInv, NEW slice \in Slices, NEW remove \in BOOLEAN, updatePending(slice, remove)
    PROVE  IInv'
<1> DEFINE sv == slice.service
           nm == slice.name
           esInfo == newEndpointSliceInfo(slice, remove)
<1>1. sv \in Services /\ nm \in SliceNames
  BY SliceAssumption DEF updatePending
<1>2. esInfo.remove = remove
  BY InfoProperties
<1>3. \A s \in Services, n \in SliceNames : SliceOK(applied[s][n], pending[s][n], told[s][n])
  BY IInvPointwise
<1>4. /\ applied' = applied
      /\ told' = [told EXCEPT ![sv][nm] = IF remove THEN None ELSE slice]
      /\ pending' = IF esInfoChanged(sv, nm, esInfo)
                    THEN [pending EXCEPT ![sv][nm] = esInfo] ELSE pending
  BY DEF updatePending
<1>5. esInfoChanged(sv, nm, esInfo) =
         IF pending[sv][nm] # None THEN esInfo # pending[sv][nm]
         ELSE IF applied[sv][nm] # None THEN esInfo # applied[sv][nm] ELSE ~remove
  BY <1>2 DEF esInfoChanged
<1> HIDE DEF esInfo, sv, nm
<1>6. /\ pending'[sv][nm] = IF esInfoChanged(sv, nm, esInfo) THEN esInfo ELSE pending[sv][nm]
      /\ told'[sv][nm] = IF remove THEN None ELSE slice
  BY <1>1, <1>4, IInvPointwise
<1>7. \A s \in Services, n \in SliceNames :
         s # sv \/ n # nm => pending'[s][n] = pending[s][n] /\ told'[s][n] = told[s][n]
  BY <1>1, <1>4, IInvPointwise
<1>8. SliceOK(applied'[sv][nm], pending'[sv][nm], told'[sv][nm])
  <2>1. SliceOK(applied[sv][nm], pending[sv][nm], told[sv][nm])
    BY <1>1, <1>3
  <2>2. SliceOK(applied[sv][nm],
                IF esInfoChanged(sv, nm, esInfo) THEN esInfo ELSE pending[sv][nm],
                IF remove THEN None ELSE slice)
    <3> DEFINE changed == IF pending[sv][nm] # None THEN esInfo # pending[sv][nm]
                          ELSE IF applied[sv][nm] # None THEN esInfo # applied[sv][nm]
                          ELSE ~remove
    <3>1. SliceOK(applied[sv][nm], IF changed THEN esInfo ELSE pending[sv][nm],
                  IF remove THEN None ELSE slice)
      BY <2>1, UpdateSlice, Zenon DEF esInfo
    <3> QED BY <3>1, <1>5, Zenon
  <2> QED BY <2>2, <1>4, <1>6
<1>9. \A s \in Services, n \in SliceNames :
         SliceOK(applied'[s][n], pending'[s][n], told'[s][n])
  BY <1>3, <1>4, <1>7, <1>8
<1>10. /\ applied' = [s \in Services |-> [n \in SliceNames |-> applied'[s][n]]]
       /\ pending' = [s \in Services |-> [n \in SliceNames |-> pending'[s][n]]]
       /\ told' = [s \in Services |-> [n \in SliceNames |-> told'[s][n]]]
  <2> DEFINE Grid(f) == f = [s \in Services |-> [n \in SliceNames |-> f[s][n]]]
  <2>1. ASSUME NEW f, NEW x, Grid(f) PROVE Grid([f EXCEPT ![sv][nm] = x])
    BY <1>1, <2>1
  <2>2. Grid(applied) /\ Grid(pending) /\ Grid(told)
    BY IInvPointwise
  <2> HIDE DEF Grid
  <2>3. Grid(applied') /\ Grid(pending') /\ Grid(told')
    BY <1>4, <2>1, <2>2
  <2> QED BY <2>3 DEF Grid
<1> QED BY <1>9, <1>10, IInvPointwiseNext

LEMMA CheckoutIInv ==
    ASSUME IInv, checkoutChanges
    PROVE  IInv'
<1>1. /\ applied' = [s \in Services |-> ApplyPending(s)]
      /\ pending' = [s \in Services |-> [n \in SliceNames |-> None]]
      /\ told' = told
  BY DEF checkoutChanges
<1>2. \A s \in Services, n \in SliceNames :
         SliceOK(applied'[s][n], pending'[s][n], told'[s][n])
  BY <1>1, IInvPointwise, ApplySlice DEF ApplyPending
<1> QED BY <1>1, <1>2, IInvPointwise, IInvPointwiseNext DEF ApplyPending

LEMMA Inductive == Spec => []IInv
<1>1. IInv /\ [Next]_vars => IInv'
  <2> SUFFICES ASSUME IInv, [Next]_vars PROVE IInv'
    OBVIOUS
  <2>1. ASSUME NEW slice \in Slices, updatePendingWithoutKeys(slice) PROVE IInv'
    BY <2>1 DEF updatePendingWithoutKeys, IInv, TypeOK, CacheFollowsApi, ApplyPending
  <2>2. ASSUME NEW slice \in Slices, NEW remove \in BOOLEAN, updatePending(slice, remove)
        PROVE  IInv'
    BY <2>2, UpdateIInv
  <2>3. CASE checkoutChanges
    BY <2>3, CheckoutIInv
  <2>4. CASE UNCHANGED vars
    BY <2>4 DEF vars, IInv, TypeOK, CacheFollowsApi, ApplyPending
  <2> QED BY <2>1, <2>2, <2>3, <2>4 DEF Next
<1> QED BY <1>1, InitIInv, PTL DEF Spec

-----------------------------------------------------------------------------
\* The trackers are well typed, and checkoutChanges never leaves a removal among
\* the applied slices, for any services and slices.
THEOREM TypeCorrect == Spec => []TypeOK
BY Inductive, PTL DEF IInv

\* No update is lost: after any sequence of updates, removals and checkouts the
\* cache holds what the API has (esInfoChanged, endpointslicecache.go:315-341).
THEOREM FollowsApi == Spec => []CacheFollowsApi
BY Inductive, PTL DEF IInv
=============================================================================
