--------------------------- MODULE TcpProxyProofs ---------------------------
(***************************************************************************)
(* Proofs about TcpProxy for every number of portals, clients, backends    *)
(* and dial attempts.                                                      *)
(***************************************************************************)
EXTENDS TcpProxy, SequenceTheorems, TLAPS

Dirs == {"toBackend", "fromBackend"}

\* The loop has accepted a client and is looking for its backend.
Holds(l) == loops[l].pc \in {"next", "dial"}

\* What the proxy has of one client's connection: nothing, a socket in the
\* backlog, an accepted socket, one it gave up, or both sockets and two
\* copiers, of which one that is done has closed its source.
Alone(conn) ==
    /\ conn.in \in {"none", "queued", "open", "refused", "reset"}
    /\ conn.out = "none"
    /\ \A dir \in Dirs : conn.copy[dir] = "none"

Proxied(conn) ==
    /\ conn.in \in {"open", "eof", "closed"}
    /\ conn.out \in {"open", "eof", "closed"}
    /\ \A dir \in Dirs : conn.copy[dir] \in {"copying", "closing", "done"}
    /\ conn.copy["toBackend"] = "done" => conn.in = "closed"
    /\ conn.copy["fromBackend"] = "done" => conn.out = "closed"

ConnsOK == \A c \in Clients : Alone(conns[c]) \/ Proxied(conns[c])

\* A client waits in one place of one backlog at most.
BacklogOK ==
    /\ \A l \in Loops : \A i \in 1..Len(backlog[l]) : conns[backlog[l][i]].in = "queued"
    /\ \A l, m \in Loops : \A i \in 1..Len(backlog[l]), j \in 1..Len(backlog[m]) :
          backlog[l][i] = backlog[m][j] => l = m /\ i = j

\* A loop that looks for a backend has a client of its own, which is accepted
\* and not connected yet; and every such client has a loop.
HeldOK ==
    /\ \A l \in Loops : Holds(l) =>
          /\ loops[l].client \in Clients
          /\ conns[loops[l].client].in = "open"
          /\ conns[loops[l].client].out = "none"
    /\ \A l, m \in Loops : Holds(l) /\ Holds(m) /\ loops[l].client = loops[m].client => l = m
    /\ \A c \in Clients : conns[c].in = "open" /\ conns[c].out = "none" =>
          \E l \in Loops : Holds(l) /\ loops[l].client = c

DialOK == \A l \in Loops : loops[l].pc = "dial" => loops[l].endpoint \in LB!Addresses

IInv == TypeOK /\ LB!IndexInRange /\ DialOK /\ ConnsOK /\ BacklogOK /\ HeldOK

-----------------------------------------------------------------------------
LoopType ==
    [pc : {"check", "accept", "next", "dial", "done"}, client : Clients \cup {None},
     attempt : 0 .. DialAttempts - 1, endpoint : LB!Addresses \cup {None},
     alive : BOOLEAN, open : BOOLEAN]

ConnType ==
    [in : SocketStates, out : SocketStates, to : IPs \cup {None},
     copy : [Dirs -> {"none", "copying", "closing", "done"}]]

\* A connection that is neither waiting nor in the hands of a loop.
Free(conn) == Proxied(conn) \/ (Alone(conn) /\ conn.in \in {"none", "refused", "reset"})

LEMMA IInvParts ==
    IInv <=> /\ LB!TypeOK /\ LB!IndexInRange
             /\ up \subseteq IPs /\ panicked \in BOOLEAN
             /\ loops \in [Loops -> LoopType]
             /\ backlog \in [Loops -> Seq(Clients)]
             /\ conns \in [Clients -> ConnType]
             /\ DialOK /\ ConnsOK /\ BacklogOK /\ HeldOK
<1> QED BY DEF IInv, TypeOK, LoopType, ConnType, Dirs

\* Steps that touch neither loops nor backlogs, and of the connections only
\* those that are free.
LEMMA ConnsOnly ==
    ASSUME IInv, LB!TypeOK', LB!IndexInRange', up' \subseteq IPs, panicked' \in BOOLEAN,
           UNCHANGED <<loops, backlog>>,
           conns' \in [Clients -> ConnType],
           \A c \in Clients : conns'[c] = conns[c] \/ (Free(conns[c]) /\ Free(conns'[c]))
    PROVE  IInv'
<1> USE IInvParts
<1>1. DialOK'
  BY DEF DialOK
<1>2. ConnsOK'
  BY DEF ConnsOK, Free
<1>3. \A c \in Clients : conns[c].in = "queued" \/ (conns[c].in = "open" /\ conns[c].out = "none")
                         => conns'[c] = conns[c]
  BY DEF Free, Alone, Proxied
<1>4. \A c \in Clients : conns'[c].in = "open" /\ conns'[c].out = "none" => conns'[c] = conns[c]
  BY DEF Free, Alone, Proxied
<1>5. BacklogOK'
  <2>1. \A l \in Loops : \A i \in 1..Len(backlog[l]) : backlog[l][i] \in Clients
    BY ElementOfSeq
  <2>2. \A l \in Loops : \A i \in 1..Len(backlog[l]) : conns'[backlog[l][i]].in = "queued"
    BY <1>3, <2>1 DEF BacklogOK
  <2>3. \A l, m \in Loops : \A i \in 1..Len(backlog[l]), j \in 1..Len(backlog[m]) :
          backlog[l][i] = backlog[m][j] => l = m /\ i = j
    BY DEF BacklogOK
  <2> HIDE IInvParts
  <2> QED BY <2>2, <2>3 DEF BacklogOK
<1>6. HeldOK'
  BY <1>3, <1>4 DEF HeldOK, Holds
<1>7. /\ loops' \in [Loops -> LoopType] /\ backlog' \in [Loops -> Seq(Clients)]
  OBVIOUS
<1> QED BY <1>1, <1>2, <1>5, <1>6, <1>7 DEF IInv, TypeOK, LoopType, ConnType, Dirs

\* Steps of loops that accept no client and let none go.
LEMMA LoopsOnly ==
    ASSUME IInv, LB!TypeOK', LB!IndexInRange',
           UNCHANGED <<up, backlog, conns, panicked>>,
           loops' \in [Loops -> LoopType],
           \A l \in Loops :
              /\ loops'[l].pc \in {"next", "dial"} <=> Holds(l)
              /\ Holds(l) => loops'[l].client = loops[l].client
              /\ loops'[l].pc = "dial" => loops'[l].endpoint \in LB!Addresses
    PROVE  IInv'
<1> USE IInvParts
<1>1. DialOK' /\ ConnsOK' /\ BacklogOK'
  BY DEF DialOK, ConnsOK, BacklogOK
<1>2. HeldOK'
  <2>1. \A l \in Loops : Holds(l)' <=> Holds(l)
    BY DEF Holds
  <2>2. \A l \in Loops : Holds(l)' =>
          /\ loops'[l].client = loops[l].client /\ loops'[l].client \in Clients
          /\ conns'[loops'[l].client].in = "open" /\ conns'[loops'[l].client].out = "none"
    BY <2>1 DEF HeldOK
  <2>3. \A l, m \in Loops :
          Holds(l)' /\ Holds(m)' /\ loops'[l].client = loops'[m].client => l = m
    BY <2>1, <2>2 DEF HeldOK
  <2>4. \A c \in Clients : conns'[c].in = "open" /\ conns'[c].out = "none" =>
          \E l \in Loops : Holds(l)' /\ loops'[l].client = c
    BY <2>1, <2>2 DEF HeldOK
  <2> QED BY <2>2, <2>3, <2>4 DEF HeldOK
<1>3. /\ up' \subseteq IPs /\ panicked' \in BOOLEAN
      /\ backlog' \in [Loops -> Seq(Clients)] /\ conns' \in [Clients -> ConnType]
  OBVIOUS
<1> QED BY <1>1, <1>2, <1>3 DEF IInv, TypeOK, LoopType, ConnType, Dirs

-----------------------------------------------------------------------------
(***************************************************************************)
(* The balancer, as far as the loops need it: what NextEndpoint returns is *)
(* an address.                                                             *)
(***************************************************************************)
EntryOK(state) ==
    \/ state = None
    \/ /\ state \in LB!BalancerState
       /\ state.endpoints # <<>> => state.index < Len(state.endpoints)

BalancerOK ==
    /\ services = [sp \in LB!ServicePortNames |-> services[sp]]
    /\ \A sp \in LB!ServicePortNames : EntryOK(services[sp])
    /\ reply \in LB!Replies \cup {None}

LEMMA BalancerPointwise == LB!TypeOK /\ LB!IndexInRange <=> BalancerOK
<1> QED
  BY BalancerAssumption
     DEF BalancerOK, EntryOK, LB!TypeOK, LB!IndexInRange, LB!BalancerState, LB!Addresses

LEMMA BalancerPointwisePrime == LB!TypeOK' /\ LB!IndexInRange' <=> BalancerOK'
<1> QED
  BY BalancerAssumption
     DEF BalancerOK, EntryOK, LB!TypeOK, LB!IndexInRange, LB!BalancerState, LB!Addresses

LEMMA EmptyStateOK == EntryOK(LB!EmptyState)
<1> QED
  BY EmptySeq DEF EntryOK, LB!EmptyState, LB!BalancerState

\* The list built for a port, in any order, with the index at its first
\* address, is a proper entry.
LEMMA BuiltOK ==
    ASSUME NEW e \in Endpoints, NEW p \in DOMAIN LB!buildPortsToEndpointsMap(e, service)
    PROVE  LET l == LB!buildPortsToEndpointsMap(e, service)[p]
           IN  /\ l \in Seq(LB!Addresses) /\ Len(l) = Len(e) /\ Len(e) \in Nat \ {0}
               /\ \A perm \in LB!Perm(Len(e)) : EntryOK(LB!SetEndpoints(l, perm))
               /\ EntryOK([endpoints |-> l, index |-> 0])
<1> DEFINE l == [i \in 1..Len(e) |-> <<e[i], service.ports[p].port>>]
<1>1. /\ e \in Seq(IPs) /\ e # <<>> /\ p \in DOMAIN service.ports
      /\ LB!buildPortsToEndpointsMap(e, service)[p] = l
  BY BalancerAssumption DEF LB!buildPortsToEndpointsMap
<1>2. Len(e) \in Nat \ {0} /\ \A i \in 1..Len(e) : e[i] \in IPs
  BY <1>1, EmptySeq, LenProperties, ElementOfSeq
<1>3. service.ports[p].port \in Ports
  BY <1>1, BalancerAssumption, DataPlaneAssumption
<1>4. \A i \in 1..Len(e) : l[i] \in LB!Addresses
  BY <1>2, <1>3 DEF LB!Addresses
<1>5. l \in Seq(LB!Addresses) /\ Len(l) = Len(e)
  BY <1>2, <1>4, IsASeq
<1> HIDE DEF l
<1>6. ASSUME NEW s \in Seq(LB!Addresses), Len(s) = Len(e)
      PROVE  EntryOK([endpoints |-> s, index |-> 0])
  BY <1>2, <1>6 DEF EntryOK, LB!BalancerState
<1>7. ASSUME NEW perm \in LB!Perm(Len(e))
      PROVE  EntryOK(LB!SetEndpoints(l, perm))
  <2> DEFINE t == [i \in 1..Len(e) |-> l[perm[i]]]
  <2>1. perm \in [1..Len(e) -> 1..Len(e)]
    BY DEF LB!Perm, LB!Bijection, LB!Injection
  <2>2. \A i \in 1..Len(e) : t[i] \in LB!Addresses
    BY <2>1, <1>5, ElementOfSeq
  <2>3. t \in Seq(LB!Addresses) /\ Len(t) = Len(e)
    BY <2>2, <1>2, IsASeq
  <2>4. LB!SetEndpoints(l, perm) = [endpoints |-> t, index |-> 0]
    BY <1>5 DEF LB!SetEndpoints, LB!ShuffleStrings
  <2> HIDE DEF t
  <2> QED BY <2>3, <2>4, <1>6
<1> QED BY <1>1, <1>2, <1>5, <1>6, <1>7

\* svcPort is a key of the balancer.
LEMMA SvcPort == svcPort \in LB!ServicePortNames
<1> QED
  BY BalancerAssumption, DataPlaneAssumption DEF svcPort, LB!ServicePortNames

\* The sink's changes keep every entry proper.
LEMMA ReconfigureOK ==
    ASSUME IInv, Reconfigure
    PROVE  LB!TypeOK' /\ LB!IndexInRange'
<1>1. BalancerOK
  BY IInvParts, BalancerPointwise
<1>2. CASE LB!DeleteService(svcPort)
  <2>1. BalancerOK'
    BY <1>1, <1>2, SvcPort DEF BalancerOK, LB!DeleteService, EntryOK
  <2> QED BY <2>1, BalancerPointwisePrime
<1>3. ASSUME NEW old \in Endpoints, NEW e \in Endpoints, LB!OnEndpointsUpdate(old, e, service)
      PROVE  BalancerOK'
  <2> DEFINE m == LB!buildPortsToEndpointsMap(e, service)
             oldm == LB!buildPortsToEndpointsMap(old, service)
  <2>1. PICK perms \in [DOMAIN m -> LB!Perm(Len(e))] :
           services' = [sp \in LB!ServicePortNames |->
              IF LB!Keyed(sp, service, m)
              THEN IF \/ services[sp] = None
                      \/ ~LB!slicesEquiv(services[sp].endpoints, m[sp[2]])
                   THEN LB!SetEndpoints(m[sp[2]], perms[sp[2]])
                   ELSE services[sp]
              ELSE IF LB!Keyed(sp, service, oldm)
                   THEN LB!resetService(services[sp])
                   ELSE services[sp]]
    BY <1>3 DEF LB!OnEndpointsUpdate
  <2>2. \A p \in DOMAIN m : EntryOK(LB!SetEndpoints(m[p], perms[p]))
    BY BuiltOK
  <2> HIDE DEF m, oldm
  <2>3. UNCHANGED reply
    BY <1>3 DEF LB!OnEndpointsUpdate
  <2>4. ASSUME NEW sp \in LB!ServicePortNames
        PROVE  EntryOK(services'[sp])
    <3>1. EntryOK(LB!resetService(services[sp]))
      BY EmptyStateOK DEF LB!resetService, EntryOK
    <3> QED BY <1>1, <2>1, <2>2, <3>1 DEF BalancerOK, LB!Keyed
  <2> QED BY <1>1, <2>1, <2>3, <2>4 DEF BalancerOK
<1> QED BY <1>2, <1>3, BalancerPointwisePrime DEF Reconfigure

LEMMA NextEndpointOK ==
    ASSUME IInv, LB!NextEndpoint(svcPort)
    PROVE  /\ LB!TypeOK' /\ LB!IndexInRange'
           /\ reply'.err = "nil" => reply'.endpoint \in LB!Addresses
<1> DEFINE state == services[svcPort]
<1>1. BalancerOK /\ EntryOK(state)
  BY IInvParts, BalancerPointwise, SvcPort DEF BalancerOK
<1>2. CASE LB!MissingServiceEntry(svcPort)
  <2>1. BalancerOK' /\ reply'.err # "nil"
    BY <1>1, <1>2, SvcPort
       DEF BalancerOK, LB!MissingServiceEntry, LB!Replies, LB!ErrMissingServiceEntry
  <2> QED BY <2>1, BalancerPointwisePrime
<1>3. CASE LB!MissingEndpoints(svcPort)
  <2>1. BalancerOK' /\ reply'.err # "nil"
    BY <1>1, <1>3, SvcPort
       DEF BalancerOK, LB!MissingEndpoints, LB!Replies, LB!ErrMissingEndpoints
  <2> QED BY <2>1, BalancerPointwisePrime
<1>4. CASE LB!TakeNextEndpoint(svcPort)
  <2> DEFINE n == Len(state.endpoints)
             k == (state.index + 1) % n
             next == [endpoints |-> state.endpoints, index |-> k]
  <2>1. /\ state # None /\ n > 0
        /\ reply' = [svcPort |-> svcPort,
                     endpoint |-> state.endpoints[state.index + 1], err |-> "nil"]
        /\ services' = [services EXCEPT ![svcPort] = next]
    BY <1>4 DEF LB!TakeNextEndpoint, LB!NextIndex
  <2>2. /\ state.endpoints \in Seq(LB!Addresses) /\ state.index \in Nat /\ n \in Nat \ {0}
        /\ state.index < n
    BY <1>1, <2>1, EmptySeq, LenProperties DEF EntryOK, LB!BalancerState
  <2>3. state.endpoints[state.index + 1] \in LB!Addresses
    BY <2>2, ElementOfSeq
  <2>4. k \in Nat /\ k < n
    BY <2>2
  <2>5. EntryOK(next)
    <3> HIDE DEF k
    <3> QED BY <2>2, <2>4 DEF EntryOK, LB!BalancerState
  <2>6. reply' \in LB!Replies
    BY <2>1, <2>3, SvcPort DEF LB!Replies
  <2>7. BalancerOK'
    <3> HIDE DEF next
    <3> QED BY <1>1, <2>1, <2>5, <2>6, SvcPort DEF BalancerOK
  <2> QED BY <2>1, <2>3, <2>7, BalancerPointwisePrime
<1> QED BY <1>2, <1>3, <1>4 DEF LB!NextEndpoint

-----------------------------------------------------------------------------
(***************************************************************************)
(* The steps that move a client from one hand to another.                  *)
(***************************************************************************)
\* Clients in a backlog are clients.
LEMMA Waiting ==
    ASSUME IInv, NEW l \in Loops
    PROVE  /\ Len(backlog[l]) \in Nat
           /\ \A i \in 1..Len(backlog[l]) : backlog[l][i] \in Clients
<1> QED BY IInvParts, ElementOfSeq, LenProperties

\* Setting the state of the client's socket.
LEMMA SetIn ==
    ASSUME NEW conn \in ConnType, NEW state \in SocketStates
    PROVE  LET new == [conn EXCEPT !.in = state]
           IN  /\ new \in ConnType /\ new.in = state
               /\ new.out = conn.out /\ new.copy = conn.copy
<1> QED BY DEF ConnType

LEMMA SetAccepted ==
    ASSUME NEW loop \in LoopType, NEW c \in Clients
    PROVE  LET new == [loop EXCEPT !.pc = "next", !.client = c, !.attempt = 0]
           IN  new \in LoopType /\ new.pc = "next" /\ new.client = c
<1>1. 0 \in 0 .. DialAttempts - 1
  BY DataPlaneAssumption
<1> QED BY <1>1 DEF LoopType

\* A new client goes to the end of one backlog.
LEMMA ConnectOK ==
    ASSUME IInv, NEW c \in Clients, NEW l \in Loops, Connect(c, l)
    PROVE  IInv'
<1> USE IInvParts
<1>1. /\ conns[c] = NoConn
      /\ conns' = [conns EXCEPT ![c].in = "queued"]
      /\ backlog' = [backlog EXCEPT ![l] = Append(backlog[l], c)]
      /\ UNCHANGED <<services, reply, up, loops, panicked>>
  BY DEF Connect
<1>2. /\ conns' \in [Clients -> ConnType] /\ backlog' \in [Loops -> Seq(Clients)]
      /\ conns'[c].in = "queued" /\ Alone(conns'[c])
      /\ \A d \in Clients \ {c} : conns'[d] = conns[d]
  <2> DEFINE new == [conns[c] EXCEPT !.in = "queued"]
  <2>1. new \in ConnType /\ new.in = "queued" /\ new.out = conns[c].out /\ new.copy = conns[c].copy
    BY SetIn DEF SocketStates
  <2>2. conns' = [conns EXCEPT ![c] = new]
    BY <1>1
  <2> HIDE DEF new
  <2>3. Alone(new)
    BY <1>1, <2>1 DEF Alone, NoConn, Dirs
  <2> QED BY <1>1, <2>1, <2>2, <2>3, AppendProperties
<1>3. ConnsOK' /\ DialOK'
  BY <1>1, <1>2 DEF ConnsOK, DialOK
<1>4. BacklogOK'
  <2>1. /\ Len(backlog'[l]) = Len(backlog[l]) + 1
        /\ backlog'[l][Len(backlog[l]) + 1] = c
        /\ \A i \in 1..Len(backlog[l]) : backlog'[l][i] = backlog[l][i]
        /\ \A m \in Loops \ {l} : backlog'[m] = backlog[m]
    BY <1>1, AppendProperties
  <2>2. \A m \in Loops : \A i \in 1..Len(backlog[m]) : backlog[m][i] # c
    BY <1>1 DEF BacklogOK, NoConn
  <2>3. \A m \in Loops : \A i \in 1..Len(backlog'[m]) :
          \/ m = l /\ i = Len(backlog[l]) + 1
          \/ i \in 1..Len(backlog[m]) /\ backlog'[m][i] = backlog[m][i]
    BY <2>1, Waiting
  <2>4. \A m \in Loops : \A i \in 1..Len(backlog'[m]) : conns'[backlog'[m][i]].in = "queued"
    BY <1>2, <2>1, <2>2, <2>3, Waiting DEF BacklogOK
  <2>5. ASSUME NEW m \in Loops, NEW k \in Loops, NEW i \in 1..Len(backlog'[m]),
               NEW j \in 1..Len(backlog'[k]), backlog'[m][i] = backlog'[k][j]
        PROVE  m = k /\ i = j
    <3>1. CASE m = l /\ i = Len(backlog[l]) + 1
      BY <2>1, <2>2, <2>3, <2>5, <3>1
    <3>2. CASE k = l /\ j = Len(backlog[l]) + 1
      BY <2>1, <2>2, <2>3, <2>5, <3>2
    <3>3. CASE /\ i \in 1..Len(backlog[m]) /\ backlog'[m][i] = backlog[m][i]
               /\ j \in 1..Len(backlog[k]) /\ backlog'[k][j] = backlog[k][j]
      <4>1. backlog[m][i] = backlog[k][j]
        BY <2>5, <3>3
      <4> QED BY <3>3, <4>1 DEF BacklogOK
    <3> QED BY <2>3, <3>1, <3>2, <3>3
  <2> QED BY <2>4, <2>5 DEF BacklogOK
<1>5. HeldOK'
  BY <1>1, <1>2 DEF HeldOK, Holds, NoConn
<1>6. LB!TypeOK' /\ LB!IndexInRange'
  BY <1>1, BalancerPointwise, BalancerPointwisePrime DEF BalancerOK
<1>7. up' \subseteq IPs /\ panicked' \in BOOLEAN /\ loops' \in [Loops -> LoopType]
  BY <1>1
<1> QED BY <1>2, <1>3, <1>4, <1>5, <1>6, <1>7 DEF IInv, TypeOK, LoopType, ConnType, Dirs

\* Accept hands the first client of the backlog to the loop.
LEMMA AcceptOK ==
    ASSUME IInv, NEW l \in Loops, Accept(l)
    PROVE  IInv'
<1> USE IInvParts
<1> DEFINE c == Head(backlog[l])
<1>1. /\ loops[l].pc = "accept" /\ backlog[l] # <<>>
      /\ backlog' = [backlog EXCEPT ![l] = Tail(backlog[l])]
      /\ conns' = [conns EXCEPT ![c].in = "open"]
      /\ loops' = [loops EXCEPT ![l].pc = "next", ![l].client = c, ![l].attempt = 0]
      /\ UNCHANGED <<services, reply, up, panicked>>
  BY DEF Accept, At
<1>2. /\ c \in Clients /\ c = backlog[l][1] /\ 1 \in 1..Len(backlog[l])
      /\ Tail(backlog[l]) \in Seq(Clients) /\ Len(Tail(backlog[l])) = Len(backlog[l]) - 1
      /\ \A i \in 1..Len(Tail(backlog[l])) :
            Tail(backlog[l])[i] = backlog[l][i + 1] /\ i + 1 \in 1..Len(backlog[l]) /\ i + 1 # 1
  BY <1>1, HeadTailProperties, Waiting, EmptySeq, LenProperties
<1> HIDE DEF c
<1>3. conns[c].in = "queued" /\ Alone(conns[c])
  BY <1>2 DEF BacklogOK, ConnsOK, Proxied
<1>4. /\ conns' \in [Clients -> ConnType] /\ backlog' \in [Loops -> Seq(Clients)]
      /\ conns'[c].in = "open" /\ conns'[c].out = "none" /\ Alone(conns'[c])
      /\ \A d \in Clients \ {c} : conns'[d] = conns[d]
  <2> DEFINE new == [conns[c] EXCEPT !.in = "open"]
  <2>1. new \in ConnType /\ new.in = "open" /\ new.out = conns[c].out /\ new.copy = conns[c].copy
    BY <1>2, SetIn DEF SocketStates
  <2>2. conns' = [conns EXCEPT ![c] = new]
    BY <1>1
  <2> HIDE DEF new
  <2>3. Alone(new) /\ new.out = "none"
    BY <1>3, <2>1 DEF Alone
  <2> QED BY <1>1, <1>2, <2>1, <2>2, <2>3
<1>5. /\ loops' \in [Loops -> LoopType]
      /\ loops'[l].pc = "next" /\ loops'[l].client = c
      /\ \A m \in Loops \ {l} : loops'[m] = loops[m]
  <2> DEFINE new == [loops[l] EXCEPT !.pc = "next", !.client = c, !.attempt = 0]
  <2>1. new \in LoopType /\ new.pc = "next" /\ new.client = c
    <3>1. c \in Clients /\ loops[l] \in LoopType
      BY <1>2
    <3> HIDE IInvParts
    <3> QED BY <3>1, SetAccepted, Zenon
  <2>2. loops' = [loops EXCEPT ![l] = new]
    BY <1>1
  <2> HIDE DEF new
  <2> QED BY <2>1, <2>2
<1>6. ConnsOK' /\ DialOK'
  BY <1>4, <1>5 DEF ConnsOK, DialOK
<1>7. BacklogOK'
  <2>1. \A m \in Loops : \A i \in 1..Len(backlog'[m]) :
          \E j \in 1..Len(backlog[m]) :
             backlog'[m][i] = backlog[m][j] /\ (m = l => j = i + 1) /\ (m # l => j = i)
    BY <1>1, <1>2
  <2>2. \A m \in Loops : \A i \in 1..Len(backlog'[m]) : backlog'[m][i] # c
    <3> SUFFICES ASSUME NEW m \in Loops, NEW i \in 1..Len(backlog'[m]), backlog'[m][i] = c
                 PROVE  FALSE
      OBVIOUS
    <3>1. PICK j \in 1..Len(backlog[m]) :
             backlog'[m][i] = backlog[m][j] /\ (m = l => j = i + 1)
      BY <2>1
    <3>2. m = l /\ j = 1
      <4>1. backlog[m][j] = backlog[l][1]
        BY <3>1, <1>2
      <4> QED BY <4>1, <1>2 DEF BacklogOK
    <3>3. i \in Nat \ {0}
      BY <1>4, LenProperties
    <3> QED BY <3>1, <3>2, <3>3
  <2>3. \A m \in Loops : \A i \in 1..Len(backlog'[m]) : conns'[backlog'[m][i]].in = "queued"
    BY <1>4, <2>1, <2>2, Waiting, SMTT(30) DEF BacklogOK
  <2>4. ASSUME NEW m \in Loops, NEW k \in Loops, NEW i \in 1..Len(backlog'[m]),
               NEW j \in 1..Len(backlog'[k]), backlog'[m][i] = backlog'[k][j]
        PROVE  m = k /\ i = j
    <3>1. PICK x \in 1..Len(backlog[m]) :
             backlog'[m][i] = backlog[m][x] /\ (m = l => x = i + 1) /\ (m # l => x = i)
      BY <2>1
    <3>2. PICK y \in 1..Len(backlog[k]) :
             backlog'[k][j] = backlog[k][y] /\ (k = l => y = j + 1) /\ (k # l => y = j)
      BY <2>1
    <3>3. m = k /\ x = y
      <4>1. backlog[m][x] = backlog[k][y]
        BY <3>1, <3>2, <2>4
      <4> QED BY <4>1 DEF BacklogOK
    <3>4. i \in Nat /\ j \in Nat
      BY <1>4, LenProperties
    <3> QED BY <3>1, <3>2, <3>3, <3>4
  <2> QED BY <2>3, <2>4 DEF BacklogOK
<1>8. HeldOK'
  <2>1. \A m \in Loops \ {l} : Holds(m)' = Holds(m) /\ (Holds(m) => loops[m].client # c)
    BY <1>3, <1>5 DEF Holds, HeldOK
  <2>2. Holds(l)' /\ ~Holds(l)
    BY <1>1, <1>5 DEF Holds
  <2>3. \A m \in Loops : Holds(m)' =>
          /\ loops'[m].client \in Clients
          /\ conns'[loops'[m].client].in = "open" /\ conns'[loops'[m].client].out = "none"
    <3>1. ASSUME NEW m \in Loops \ {l}, Holds(m)
          PROVE  /\ loops'[m].client \in Clients \ {c}
                 /\ conns'[loops'[m].client] = conns[loops[m].client]
                 /\ conns[loops[m].client].in = "open" /\ conns[loops[m].client].out = "none"
      BY <1>4, <1>5, <2>1, <3>1 DEF HeldOK
    <3>2. /\ loops'[l].client \in Clients
          /\ conns'[loops'[l].client].in = "open" /\ conns'[loops'[l].client].out = "none"
      BY <1>2, <1>4, <1>5
    <3> HIDE IInvParts
    <3> QED BY <2>1, <3>1, <3>2
  <2>4. \A m, k \in Loops :
          Holds(m)' /\ Holds(k)' /\ loops'[m].client = loops'[k].client => m = k
    <3>1. \A m \in Loops \ {l} : loops'[m] = loops[m] /\ (Holds(m)' => Holds(m) /\ loops[m].client # c)
      BY <1>5, <2>1
    <3>2. \A m, k \in Loops : Holds(m) /\ Holds(k) /\ loops[m].client = loops[k].client => m = k
      BY DEF HeldOK
    <3>3. loops'[l].client = c
      BY <1>5
    <3> HIDE IInvParts
    <3> QED BY <3>1, <3>2, <3>3
  <2>5. \A d \in Clients : conns'[d].in = "open" /\ conns'[d].out = "none" =>
          \E m \in Loops : Holds(m)' /\ loops'[m].client = d
    <3> SUFFICES ASSUME NEW d \in Clients, d # c, conns[d].in = "open", conns[d].out = "none"
                 PROVE  \E m \in Loops : Holds(m)' /\ loops'[m].client = d
      BY <1>4, <1>5, <2>2
    <3>1. PICK m \in Loops : Holds(m) /\ loops[m].client = d
      BY DEF HeldOK
    <3>2. m # l
      BY <2>2, <3>1
    <3> QED BY <1>5, <2>1, <3>1, <3>2
  <2> QED BY <2>3, <2>4, <2>5 DEF HeldOK
<1>9. LB!TypeOK' /\ LB!IndexInRange'
  BY <1>1, BalancerPointwise, BalancerPointwisePrime DEF BalancerOK
<1>10. up' \subseteq IPs /\ panicked' \in BOOLEAN
  BY <1>1
<1> QED
  BY <1>4, <1>5, <1>6, <1>7, <1>8, <1>9, <1>10 DEF IInv, TypeOK, LoopType, ConnType, Dirs

\* A loop lets its client go: the client is refused, or both its sockets are
\* in the hands of copiers.
LEMMA LetGo ==
    ASSUME IInv, LB!TypeOK', LB!IndexInRange', UNCHANGED <<up, backlog, panicked>>,
           NEW l \in Loops, Holds(l),
           NEW conn \in ConnType, Free(conn),
           conns' = [conns EXCEPT ![loops[l].client] = conn],
           loops' = [loops EXCEPT ![l].pc = "check", ![l].client = None, ![l].endpoint = None]
    PROVE  IInv'
<1> USE IInvParts
<1> DEFINE c == loops[l].client
<1>1. c \in Clients /\ conns[c].in = "open" /\ conns[c].out = "none"
  BY DEF HeldOK
<1>2. /\ conns' \in [Clients -> ConnType] /\ conns'[c] = conn
      /\ \A d \in Clients \ {c} : conns'[d] = conns[d]
  BY <1>1
<1>3. /\ loops' \in [Loops -> LoopType] /\ loops'[l].pc = "check"
      /\ \A m \in Loops \ {l} : loops'[m] = loops[m]
  <2> DEFINE new == [loops[l] EXCEPT !.pc = "check", !.client = None, !.endpoint = None]
  <2>1. new \in LoopType /\ new.pc = "check"
    BY DEF LoopType
  <2>2. loops' = [loops EXCEPT ![l] = new]
    OBVIOUS
  <2> HIDE DEF new
  <2> QED BY <2>1, <2>2
<1>4. ConnsOK' /\ DialOK'
  BY <1>2, <1>3 DEF ConnsOK, DialOK, Free
<1>5. BacklogOK'
  <2>1. \A m \in Loops : \A i \in 1..Len(backlog[m]) : conns'[backlog[m][i]].in = "queued"
    BY <1>1, <1>2, Waiting DEF BacklogOK
  <2> QED BY <2>1 DEF BacklogOK
<1>6. HeldOK'
  <2>1. \A m \in Loops : Holds(m)' <=> m # l /\ Holds(m)
    BY <1>3 DEF Holds
  <2>2. \A m \in Loops : Holds(m)' => loops'[m] = loops[m] /\ loops[m].client # c
    BY <1>3, <2>1 DEF HeldOK
  <2>3. \A m \in Loops : Holds(m)' =>
          /\ loops'[m].client \in Clients
          /\ conns'[loops'[m].client].in = "open" /\ conns'[loops'[m].client].out = "none"
    BY <1>2, <2>1, <2>2 DEF HeldOK
  <2>4. \A m, k \in Loops :
          Holds(m)' /\ Holds(k)' /\ loops'[m].client = loops'[k].client => m = k
    BY <2>1, <2>2 DEF HeldOK
  <2>5. \A d \in Clients : conns'[d].in = "open" /\ conns'[d].out = "none" =>
          \E m \in Loops : Holds(m)' /\ loops'[m].client = d
    <3> SUFFICES ASSUME NEW d \in Clients, conns'[d].in = "open", conns'[d].out = "none"
                 PROVE  \E m \in Loops : Holds(m)' /\ loops'[m].client = d
      OBVIOUS
    <3>1. d # c /\ conns'[d] = conns[d]
      BY <1>1, <1>2 DEF Free, Alone, Proxied
    <3>2. PICK m \in Loops : Holds(m) /\ loops[m].client = d
      BY <3>1 DEF HeldOK
    <3> QED BY <1>3, <2>1, <3>1, <3>2
  <2> QED BY <2>3, <2>4, <2>5 DEF HeldOK
<1>7. up' \subseteq IPs /\ panicked' \in BOOLEAN /\ backlog' \in [Loops -> Seq(Clients)]
  OBVIOUS
<1> QED BY <1>2, <1>3, <1>4, <1>5, <1>6, <1>7 DEF IInv, TypeOK, LoopType, ConnType, Dirs

LEMMA RefuseOK ==
    ASSUME IInv, LB!TypeOK', LB!IndexInRange', UNCHANGED <<up, backlog, panicked>>,
           NEW l \in Loops, Holds(l), Refuse(l)
    PROVE  IInv'
<1> DEFINE c == loops[l].client
           new == [conns[c] EXCEPT !.in = "refused"]
<1>1. c \in Clients /\ conns[c].out = "none" /\ conns[c] \in ConnType /\ Alone(conns[c])
  BY IInvParts DEF HeldOK, ConnsOK, Proxied
<1>2. new \in ConnType /\ new.in = "refused" /\ new.out = conns[c].out /\ new.copy = conns[c].copy
  BY <1>1, SetIn DEF SocketStates
<1>3. conns' = [conns EXCEPT ![c] = new]
  BY DEF Refuse
<1> HIDE DEF new
<1>4. Free(new)
  BY <1>1, <1>2 DEF Free, Alone
<1> QED BY <1>2, <1>3, <1>4, LetGo DEF Refuse

LEMMA DialSucceedsOK ==
    ASSUME IInv, NEW l \in Loops, DialSucceeds(l)
    PROVE  IInv'
<1> DEFINE c == loops[l].client
           new == [conns[c] EXCEPT !.out = "open", !.to = loops[l].endpoint[1],
                                   !.copy = [dir \in DOMAIN conns[c].copy |-> "copying"]]
<1>1. Holds(l) /\ loops[l].endpoint \in LB!Addresses
  BY IInvParts DEF DialSucceeds, At, Holds, DialOK
<1>2. c \in Clients /\ conns[c].in = "open" /\ conns[c] \in ConnType
  BY <1>1, IInvParts DEF HeldOK
<1>3. loops[l].endpoint[1] \in IPs
  BY <1>1 DEF LB!Addresses
<1>4. new \in ConnType /\ Free(new)
  <2>1. DOMAIN conns[c].copy = Dirs
    BY <1>2 DEF ConnType
  <2>2. /\ new \in ConnType /\ new.in = conns[c].in /\ new.out = "open"
        /\ new.copy = [dir \in Dirs |-> "copying"]
    BY <1>2, <1>3, <2>1 DEF ConnType, SocketStates
  <2> HIDE DEF new
  <2> QED BY <1>2, <2>2 DEF Free, Proxied, Dirs
<1>5. conns' = [conns EXCEPT ![c] = new]
  BY <1>2, IInvParts DEF DialSucceeds
<1>6. LB!TypeOK' /\ LB!IndexInRange'
  BY IInvParts, BalancerPointwise, BalancerPointwisePrime DEF DialSucceeds, BalancerOK
<1> HIDE DEF new
<1> QED BY <1>1, <1>4, <1>5, <1>6, LetGo DEF DialSucceeds

\* Closing a listener empties its backlog and touches no other connection.
LEMMA CloseOK ==
    ASSUME IInv, NEW l \in Loops, Close(l)
    PROVE  /\ IInv'
           /\ \A c \in Clients : conns[c].in # "queued" => conns'[c] = conns[c]
<1> USE IInvParts
<1> DEFINE reset == [NoConn EXCEPT !.in = "reset"]
           here == Range(backlog[l])
<1>1. /\ loops' = [loops EXCEPT ![l].open = FALSE]
      /\ backlog' = [backlog EXCEPT ![l] = <<>>]
      /\ conns' = [c \in Clients |-> IF c \in here THEN reset ELSE conns[c]]
      /\ UNCHANGED <<services, reply, up, panicked>>
  BY DEF Close
<1>2. /\ \A c \in here : \E i \in 1..Len(backlog[l]) : c = backlog[l][i]
      /\ \A i \in 1..Len(backlog[l]) : backlog[l][i] \in here
  BY LenProperties DEF Range
<1>3. \A c \in here : conns[c].in = "queued" /\ c \in Clients
  BY <1>2, Waiting DEF BacklogOK
<1>4. reset \in ConnType /\ Alone(reset) /\ reset.in = "reset"
  BY DEF ConnType, NoConn, SocketStates, Dirs, Alone
<1> HIDE DEF reset, here
<1>5. /\ conns' \in [Clients -> ConnType] /\ backlog' \in [Loops -> Seq(Clients)]
      /\ \A c \in Clients : c \notin here => conns'[c] = conns[c]
      /\ \A c \in Clients : c \in here => conns'[c] = reset
  BY <1>1, <1>4, EmptySeq
<1>6. /\ loops' \in [Loops -> LoopType]
      /\ \A m \in Loops : /\ loops'[m].pc = loops[m].pc
                          /\ loops'[m].client = loops[m].client
                          /\ loops'[m].endpoint = loops[m].endpoint
  <2> DEFINE new == [loops[l] EXCEPT !.open = FALSE]
  <2>1. /\ new \in LoopType /\ new.pc = loops[l].pc /\ new.client = loops[l].client
        /\ new.endpoint = loops[l].endpoint
    BY DEF LoopType
  <2>2. loops' = [loops EXCEPT ![l] = new]
    BY <1>1
  <2> HIDE DEF new
  <2> QED BY <2>1, <2>2
<1>7. ConnsOK' /\ DialOK'
  BY <1>4, <1>5, <1>6 DEF ConnsOK, DialOK
<1>8. BacklogOK'
  <2>1. Len(backlog'[l]) = 0 /\ \A m \in Loops \ {l} : backlog'[m] = backlog[m]
    BY <1>1, EmptySeq
  <2>2. \A m \in Loops \ {l} : \A i \in 1..Len(backlog[m]) : backlog[m][i] \notin here
    BY <1>2 DEF BacklogOK
  <2>3. \A m \in Loops : \A i \in 1..Len(backlog'[m]) :
           m # l /\ backlog'[m] = backlog[m] /\ conns'[backlog'[m][i]].in = "queued"
    BY <2>1, <2>2, <1>5, Waiting DEF BacklogOK
  <2> QED BY <2>3 DEF BacklogOK
<1>9. HeldOK'
  <2>1. \A m \in Loops : Holds(m)' <=> Holds(m)
    BY <1>6 DEF Holds
  <2>2. \A c \in Clients : conns[c].in = "open" => conns'[c] = conns[c]
    BY <1>3, <1>5
  <2>3. \A c \in Clients : conns'[c].in = "open" => conns'[c] = conns[c]
    BY <1>4, <1>5
  <2>4. \A m \in Loops : Holds(m)' =>
          /\ loops'[m].client \in Clients
          /\ conns'[loops'[m].client].in = "open" /\ conns'[loops'[m].client].out = "none"
    <3> SUFFICES ASSUME NEW m \in Loops, Holds(m)
                 PROVE  /\ loops'[m].client \in Clients
                        /\ conns'[loops'[m].client].in = "open"
                        /\ conns'[loops'[m].client].out = "none"
      BY <2>1
    <3>1. /\ loops[m].client \in Clients /\ conns[loops[m].client].in = "open"
          /\ conns[loops[m].client].out = "none"
      BY DEF HeldOK
    <3> QED BY <1>6, <2>2, <3>1
  <2>5. \A m, k \in Loops :
          Holds(m)' /\ Holds(k)' /\ loops'[m].client = loops'[k].client => m = k
    BY <1>6, <2>1 DEF HeldOK
  <2>6. \A d \in Clients : conns'[d].in = "open" /\ conns'[d].out = "none" =>
          \E m \in Loops : Holds(m)' /\ loops'[m].client = d
    <3> SUFFICES ASSUME NEW d \in Clients, conns'[d].in = "open", conns'[d].out = "none"
                 PROVE  \E m \in Loops : Holds(m)' /\ loops'[m].client = d
      OBVIOUS
    <3>1. PICK m \in Loops : Holds(m) /\ loops[m].client = d
      BY <2>3 DEF HeldOK
    <3> QED BY <1>6, <2>1, <3>1
  <2> QED BY <2>4, <2>5, <2>6 DEF HeldOK
<1>10. LB!TypeOK' /\ LB!IndexInRange'
  BY <1>1, BalancerPointwise, BalancerPointwisePrime DEF BalancerOK
<1>11. up' \subseteq IPs /\ panicked' \in BOOLEAN
  BY <1>1
<1>12. IInv'
  BY <1>5, <1>6, <1>7, <1>8, <1>9, <1>10, <1>11 DEF IInv, TypeOK, LoopType, ConnType, Dirs
<1> QED BY <1>3, <1>5, <1>12

-----------------------------------------------------------------------------
(***************************************************************************)
(* The steps of one connection that is free: its copiers and its peers.    *)
(***************************************************************************)
LEMMA FreeStep ==
    ASSUME IInv, NEW c \in Clients, NEW conn \in ConnType, Free(conns[c]), Free(conn),
           conns' = [conns EXCEPT ![c] = conn],
           UNCHANGED <<services, reply, up, loops, backlog, panicked>>
    PROVE  IInv'
<1>1. LB!TypeOK' /\ LB!IndexInRange'
  BY IInvParts, BalancerPointwise, BalancerPointwisePrime DEF BalancerOK
<1>2. /\ conns' \in [Clients -> ConnType]
      /\ \A d \in Clients : conns'[d] = conns[d] \/ (Free(conns[d]) /\ Free(conns'[d]))
  BY IInvParts
<1>3. up' \subseteq IPs /\ panicked' \in BOOLEAN
  BY IInvParts
<1> QED BY <1>1, <1>2, <1>3, ConnsOnly

\* What the copiers and peers do to the record of a proxied connection.
LEMMA ProxiedSteps ==
    ASSUME NEW conn \in ConnType, Proxied(conn), NEW dir \in Dirs
    PROVE  /\ LET new == [conn EXCEPT ![Src(dir)] = "eof"]
              IN  conn[Src(dir)] = "open" => new \in ConnType /\ Proxied(new)
           /\ LET new == [conn EXCEPT ![Dest(dir)] = "closed", !.copy[dir] = "closing"]
              IN  conn.copy[dir] # "done" => new \in ConnType /\ Proxied(new)
           /\ LET new == [conn EXCEPT !.copy[dir] = "closing"]
              IN  conn.copy[dir] # "done" => new \in ConnType /\ Proxied(new)
           /\ LET new == [conn EXCEPT ![Src(dir)] = "closed", !.copy[dir] = "done"]
              IN  new \in ConnType /\ Proxied(new)
<1>1. CASE dir = "toBackend"
  <2>1. Src(dir) = "in" /\ Dest(dir) = "out"
    BY <1>1 DEF Src, Dest
  <2> QED BY <1>1, <2>1 DEF ConnType, Proxied, Dirs, SocketStates
<1>2. CASE dir = "fromBackend"
  <2>1. Src(dir) = "out" /\ Dest(dir) = "in"
    BY <1>2 DEF Src, Dest
  <2> QED BY <1>2, <2>1 DEF ConnType, Proxied, Dirs, SocketStates
<1> QED BY <1>1, <1>2 DEF Dirs

LEMMA PeerEndsOK ==
    ASSUME IInv, NEW c \in Clients, NEW side \in {"in", "out"}, PeerEnds(c, side)
    PROVE  IInv'
<1>1. conns[c] \in ConnType /\ Proxied(conns[c]) /\ conns[c][side] = "open"
  BY IInvParts DEF PeerEnds, ConnsOK, Alone
<1>2. PICK dir \in Dirs : Src(dir) = side
  BY DEF Src, Dirs
<1> DEFINE new == [conns[c] EXCEPT ![side] = "eof"]
<1>3. new \in ConnType /\ Proxied(new)
  BY <1>1, <1>2, ProxiedSteps
<1>4. conns' = [conns EXCEPT ![c] = new]
  BY DEF PeerEnds
<1> HIDE DEF new
<1> QED BY <1>1, <1>3, <1>4, FreeStep DEF PeerEnds, Free

LEMMA CopyOK ==
    ASSUME IInv, NEW c \in Clients, NEW dir \in Dirs,
           CopyEnds(c, dir) \/ CopyFails(c, dir) \/ CopyDone(c, dir)
    PROVE  IInv'
<1>1. conns[c] \in ConnType /\ Proxied(conns[c])
  BY IInvParts DEF CopyEnds, CopyFails, CopyDone, ConnsOK, Alone
<1>2. CASE CopyEnds(c, dir)
  <2> DEFINE new == [conns[c] EXCEPT ![Dest(dir)] = "closed", !.copy[dir] = "closing"]
  <2>1. new \in ConnType /\ Proxied(new)
    BY <1>1, <1>2, ProxiedSteps DEF CopyEnds
  <2>2. conns' = [conns EXCEPT ![c] = new]
    BY <1>2 DEF CopyEnds
  <2> HIDE DEF new
  <2> QED BY <1>1, <1>2, <2>1, <2>2, FreeStep DEF CopyEnds, Free
<1>3. CASE CopyFails(c, dir)
  <2> DEFINE new == [conns[c] EXCEPT !.copy[dir] = "closing"]
  <2>1. new \in ConnType /\ Proxied(new)
    BY <1>1, <1>3, ProxiedSteps DEF CopyFails
  <2>2. conns' = [conns EXCEPT ![c] = new]
    BY <1>3 DEF CopyFails
  <2> HIDE DEF new
  <2> QED BY <1>1, <1>3, <2>1, <2>2, FreeStep DEF CopyFails, Free
<1>4. CASE CopyDone(c, dir)
  <2> DEFINE new == [conns[c] EXCEPT ![Src(dir)] = "closed", !.copy[dir] = "done"]
  <2>1. new \in ConnType /\ Proxied(new)
    BY <1>1, <1>4, ProxiedSteps DEF CopyDone
  <2>2. conns' = [conns EXCEPT ![c] = new]
    BY <1>4 DEF CopyDone
  <2> HIDE DEF new
  <2> QED BY <1>1, <1>4, <2>1, <2>2, FreeStep DEF CopyDone, Free
<1> QED BY <1>2, <1>3, <1>4

LEMMA ForgetOK ==
    ASSUME IInv, NEW c \in Clients, Forget(c)
    PROVE  IInv'
<1>1. conns[c] \in ConnType /\ (Alone(conns[c]) \/ Proxied(conns[c]))
  BY IInvParts DEF ConnsOK
<1>2. Free(conns[c])
  BY <1>1 DEF Forget, Over, Free, Alone, ConnType, Dirs
<1>3. NoConn \in ConnType /\ Free(NoConn)
  BY DEF NoConn, ConnType, SocketStates, Dirs, Free, Alone
<1> HIDE DEF NoConn
<1> QED BY <1>2, <1>3, FreeStep DEF Forget

LEMMA BackendChangesOK ==
    ASSUME IInv, NEW ip \in IPs, BackendChanges(ip)
    PROVE  IInv'
<1>1. LB!TypeOK' /\ LB!IndexInRange'
  BY IInvParts, BalancerPointwise, BalancerPointwisePrime DEF BackendChanges, BalancerOK
<1>2. ASSUME NEW c \in Clients, conns[c].out = "open"
      PROVE  LET new == [conns[c] EXCEPT !.out = "eof"]
             IN  new \in ConnType /\ Free(conns[c]) /\ Free(new)
  <2>1. conns[c] \in ConnType /\ Proxied(conns[c])
    BY <1>2, IInvParts DEF ConnsOK, Alone
  <2> QED BY <1>2, <2>1 DEF ConnType, SocketStates, Proxied, Free
<1>3. /\ conns' \in [Clients -> ConnType]
      /\ \A c \in Clients : conns'[c] = conns[c] \/ (Free(conns[c]) /\ Free(conns'[c]))
  BY <1>2, IInvParts DEF BackendChanges
<1>4. up' \subseteq IPs /\ panicked' \in BOOLEAN
  BY IInvParts DEF BackendChanges
<1> QED BY <1>1, <1>3, <1>4, ConnsOnly DEF BackendChanges

-----------------------------------------------------------------------------
(***************************************************************************)
(* The steps of a loop that keeps its client, or has none.                 *)
(***************************************************************************)
\* A loop's record with another pc, address and number of attempts.
LEMMA SetPc ==
    ASSUME NEW loop \in LoopType, NEW pc \in {"check", "accept", "next", "dial", "done"}
    PROVE  LET new == [loop EXCEPT !.pc = pc]
           IN  new \in LoopType /\ new.pc = pc
<1> QED BY DEF LoopType

LEMMA SetEndpoint ==
    ASSUME NEW loop \in LoopType, NEW e \in LB!Addresses
    PROVE  LET new == [loop EXCEPT !.pc = "dial", !.endpoint = e]
           IN  new \in LoopType /\ new.pc = "dial" /\ new.endpoint = e /\ new.client = loop.client
<1> QED BY DEF LoopType

LEMMA SetLoop ==
    ASSUME NEW loop \in LoopType
    PROVE  /\ LET new == [loop EXCEPT !.pc = "next", !.attempt = loop.attempt + 1, !.endpoint = None]
              IN  loop.attempt + 1 # DialAttempts =>
                    new \in LoopType /\ new.pc = "next" /\ new.client = loop.client
           /\ LET new == [loop EXCEPT !.alive = FALSE]
              IN  new \in LoopType /\ new.pc = loop.pc /\ new.client = loop.client
                  /\ new.endpoint = loop.endpoint
<1>1. loop.attempt + 1 # DialAttempts => loop.attempt + 1 \in 0 .. DialAttempts - 1
  BY DataPlaneAssumption DEF LoopType
<1> QED BY <1>1 DEF LoopType

\* One loop moves on, with the client it had, if it had one.
LEMMA LoopMoves ==
    ASSUME IInv, LB!TypeOK', LB!IndexInRange', UNCHANGED <<up, backlog, conns, panicked>>,
           NEW l \in Loops, NEW new \in LoopType,
           loops' = [loops EXCEPT ![l] = new],
           new.pc \in {"next", "dial"} <=> Holds(l),
           Holds(l) => new.client = loops[l].client,
           new.pc = "dial" => new.endpoint \in LB!Addresses
    PROVE  IInv'
<1>1. loops' \in [Loops -> LoopType]
  BY IInvParts
<1>2. \A m \in Loops :
        /\ loops'[m].pc \in {"next", "dial"} <=> Holds(m)
        /\ Holds(m) => loops'[m].client = loops[m].client
        /\ loops'[m].pc = "dial" => loops'[m].endpoint \in LB!Addresses
  BY IInvParts DEF Holds, DialOK
<1> QED BY <1>1, <1>2, LoopsOnly

LEMMA BalancerSame ==
    ASSUME IInv, UNCHANGED <<services, reply>>
    PROVE  LB!TypeOK' /\ LB!IndexInRange'
<1> QED BY IInvParts, BalancerPointwise, BalancerPointwisePrime DEF BalancerOK

LEMMA LoopOK ==
    ASSUME IInv, NEW l \in Loops,
           \/ CheckAlive(l) \/ AcceptClosed(l) \/ AcceptFails(l) \/ SetDead(l)
           \/ TryNextEndpoint(l) \/ DialFails(l)
    PROVE  IInv'
<1>1. loops[l] \in LoopType
  BY IInvParts
<1>2. CASE CheckAlive(l) \/ AcceptClosed(l) \/ AcceptFails(l)
  <2>1. PICK pc \in {"check", "accept", "done"} : loops' = [loops EXCEPT ![l].pc = pc]
    BY <1>2 DEF CheckAlive, AcceptClosed, AcceptFails
  <2> DEFINE new == [loops[l] EXCEPT !.pc = pc]
  <2>2. new \in LoopType /\ new.pc = pc
    BY <1>1, <2>1 DEF LoopType
  <2>3. loops' = [loops EXCEPT ![l] = new]
    BY <2>1
  <2>4. ~Holds(l)
    BY <1>2 DEF CheckAlive, AcceptClosed, AcceptFails, At, Holds
  <2>5. UNCHANGED <<services, reply, up, backlog, conns, panicked>>
    BY <1>2 DEF CheckAlive, AcceptClosed, AcceptFails
  <2> HIDE DEF new
  <2> QED BY <2>1, <2>2, <2>3, <2>4, <2>5, LoopMoves, BalancerSame
<1>3. CASE SetDead(l)
  <2> DEFINE new == [loops[l] EXCEPT !.alive = FALSE]
  <2>1. /\ new \in LoopType /\ new.pc = loops[l].pc /\ new.client = loops[l].client
        /\ new.endpoint = loops[l].endpoint
    BY <1>1, SetLoop
  <2>2. loops' = [loops EXCEPT ![l] = new]
    BY <1>3 DEF SetDead
  <2>3. UNCHANGED <<services, reply, up, backlog, conns, panicked>>
    BY <1>3 DEF SetDead
  <2>4. loops[l].pc = "dial" => loops[l].endpoint \in LB!Addresses
    BY IInvParts DEF DialOK
  <2> HIDE DEF new
  <2> QED BY <2>1, <2>2, <2>3, <2>4, LoopMoves, BalancerSame DEF Holds
<1>4. CASE TryNextEndpoint(l)
  <2>1. /\ LB!TypeOK' /\ LB!IndexInRange'
        /\ reply'.err = "nil" => reply'.endpoint \in LB!Addresses
    BY <1>4, NextEndpointOK DEF TryNextEndpoint
  <2>2. Holds(l) /\ UNCHANGED <<up, backlog, panicked>>
    BY <1>4 DEF TryNextEndpoint, At, Holds
  <2>3. CASE reply'.err = "nil"
    <3> DEFINE new == [loops[l] EXCEPT !.pc = "dial", !.endpoint = reply'.endpoint]
    <3>1. /\ new \in LoopType /\ new.pc = "dial" /\ new.endpoint = reply'.endpoint
          /\ new.client = loops[l].client
      BY <1>1, <2>1, <2>3, SetEndpoint
    <3>2. loops' = [loops EXCEPT ![l] = new] /\ UNCHANGED conns
      BY <1>4, <2>3 DEF TryNextEndpoint
    <3> HIDE DEF new
    <3> QED BY <2>1, <2>2, <2>3, <3>1, <3>2, LoopMoves
  <2>4. CASE reply'.err # "nil"
    BY <1>4, <2>1, <2>2, <2>4, RefuseOK DEF TryNextEndpoint
  <2> QED BY <2>3, <2>4
<1>5. CASE DialFails(l)
  <2>1. Holds(l) /\ UNCHANGED <<services, reply, up, backlog, panicked>>
    BY <1>5 DEF DialFails, At, Holds
  <2>2. CASE loops[l].attempt + 1 = DialAttempts
    BY <1>5, <2>1, <2>2, RefuseOK, BalancerSame DEF DialFails
  <2>3. CASE loops[l].attempt + 1 # DialAttempts
    <3> DEFINE new == [loops[l] EXCEPT !.pc = "next", !.attempt = loops[l].attempt + 1,
                                       !.endpoint = None]
    <3>1. new \in LoopType /\ new.pc = "next" /\ new.client = loops[l].client
      BY <1>1, <2>3, SetLoop
    <3>2. loops' = [loops EXCEPT ![l] = new] /\ UNCHANGED conns
      BY <1>5, <2>3 DEF DialFails
    <3> HIDE DEF new
    <3> QED BY <2>1, <3>1, <3>2, LoopMoves, BalancerSame
  <2> QED BY <2>2, <2>3
<1> QED BY <1>2, <1>3, <1>4, <1>5

-----------------------------------------------------------------------------
LEMMA InitIInv == Init => IInv
<1> SUFFICES ASSUME Init PROVE IInv
  OBVIOUS
<1>1. BalancerOK
  <2>1. PICK e \in Endpoints :
          services = [sp \in Names \X PortNames |->
              IF sp # svcPort THEN None
              ELSE IF e = <<>> THEN LB!EmptyState
              ELSE [endpoints |-> LB!buildPortsToEndpointsMap(e, service)[portName], index |-> 0]]
    BY DEF Init
  <2> DEFINE first == [endpoints |-> LB!buildPortsToEndpointsMap(e, service)[portName], index |-> 0]
  <2>2. e # <<>> => EntryOK(first)
    <3>1. e # <<>> => portName \in DOMAIN LB!buildPortsToEndpointsMap(e, service)
      BY DataPlaneAssumption DEF LB!buildPortsToEndpointsMap
    <3> QED BY <3>1, BuiltOK
  <2> HIDE DEF first
  <2>3. services = [sp \in Names \X PortNames |->
              IF sp # svcPort THEN None ELSE IF e = <<>> THEN LB!EmptyState ELSE first]
    BY <2>1 DEF first
  <2>4. EntryOK(None) /\ EntryOK(LB!EmptyState)
    BY EmptyStateOK DEF EntryOK
  <2>5. reply = None
    BY DEF Init
  <2> QED BY <2>2, <2>3, <2>4, <2>5 DEF BalancerOK, LB!ServicePortNames
<1> DEFINE loop == [pc |-> "check", client |-> None, attempt |-> 0,
                    endpoint |-> None, alive |-> TRUE, open |-> TRUE]
<1>2. loop \in LoopType /\ loop.pc = "check"
  <2>1. 0 \in 0 .. DialAttempts - 1
    BY DataPlaneAssumption
  <2> QED BY <2>1 DEF LoopType
<1>3. NoConn \in ConnType /\ Alone(NoConn) /\ NoConn.in = "none"
  BY DEF NoConn, ConnType, SocketStates, Dirs, Alone
<1>4. /\ loops = [l \in Loops |-> loop]
      /\ backlog = [l \in Loops |-> <<>>]
      /\ conns = [c \in Clients |-> NoConn]
      /\ up \subseteq IPs /\ panicked = FALSE
  BY DEF Init
<1> HIDE DEF loop, NoConn
<1>5. /\ loops \in [Loops -> LoopType] /\ backlog \in [Loops -> Seq(Clients)]
      /\ conns \in [Clients -> ConnType]
  BY <1>2, <1>3, <1>4, EmptySeq
<1>6. DialOK /\ ConnsOK
  BY <1>2, <1>3, <1>4 DEF DialOK, ConnsOK
<1>7. BacklogOK
  <2>1. \A l \in Loops : Len(backlog[l]) = 0
    BY <1>4, EmptySeq
  <2> QED BY <2>1 DEF BacklogOK
<1>8. HeldOK
  BY <1>2, <1>3, <1>4 DEF HeldOK, Holds
<1> QED BY <1>1, <1>4, <1>5, <1>6, <1>7, <1>8, IInvParts, BalancerPointwise

LEMMA NextIInv == IInv /\ [Next]_vars => IInv'
<1> SUFFICES ASSUME IInv, [Next]_vars PROVE IInv'
  OBVIOUS
<1>1. CASE UNCHANGED vars
  BY <1>1, IInvParts, BalancerSame, ConnsOnly DEF vars
<1>2. ASSUME NEW l \in Loops, LoopStep(l) PROVE IInv'
  BY <1>2, LoopOK, AcceptOK, DialSucceedsOK DEF LoopStep
<1>3. ASSUME NEW l \in Loops, TooManyFDs(l) PROVE IInv'
  BY <1>3, IInvParts, BalancerSame, ConnsOnly DEF TooManyFDs
<1>4. ASSUME Reconfigure PROVE IInv'
  BY <1>4, IInvParts, ReconfigureOK, ConnsOnly DEF Reconfigure
<1>5. ASSUME NEW c \in Clients, NEW dir \in Dirs, CopyStep(c, dir) \/ CopyFails(c, dir)
      PROVE  IInv'
  BY <1>5, CopyOK DEF CopyStep
<1> QED
  BY <1>1, <1>2, <1>3, <1>4, <1>5, ConnectOK, LoopOK, CloseOK, ForgetOK, PeerEndsOK,
     BackendChangesOK DEF Next, Dirs

\* What the loops, the copiers and their sockets have to do with each other, in
\* every state (utils.go:175-263).
THEOREM Invariance == Spec => []IInv
<1> QED BY InitIInv, NextIInv, PTL DEF Spec

\* The sockets, loops and copiers are well typed, for any portals, clients and
\* backends; the loops dial nothing but addresses of the balancer.
THEOREM TypeCorrect == Spec => []TypeOK
<1>1. IInv => TypeOK
  BY DEF IInv
<1> QED BY Invariance, <1>1, PTL

\* No accepted client is ever left without a loop or a copier that works for
\* it (utils.go:205-238).
THEOREM NoClientAbandoned == Spec => []NoAbandonedClient
<1>1. IInv => NoAbandonedClient
  <2> SUFFICES ASSUME IInv, NEW c \in Clients, conns[c].in = "open"
               PROVE  \/ \E l \in Loops : loops[l].client = c /\ loops[l].pc \in {"next", "dial"}
                      \/ \E dir \in DOMAIN conns[c].copy : conns[c].copy[dir] \in {"copying", "closing"}
    BY DEF NoAbandonedClient
  <2>1. CASE Alone(conns[c])
    BY <2>1, IInvParts DEF Alone, HeldOK, Holds
  <2>2. CASE Proxied(conns[c])
    <3>1. "toBackend" \in DOMAIN conns[c].copy
      BY IInvParts DEF ConnType, Dirs
    <3>2. conns[c].copy["toBackend"] \in {"copying", "closing"}
      BY <2>2 DEF Proxied, Dirs
    <3> QED BY <3>1, <3>2
  <2> QED BY <2>1, <2>2, IInvParts DEF ConnsOK
<1> QED BY Invariance, <1>1, PTL

\* However the two copiers interleave, both sockets are closed when both have
\* returned (utils.go:241-263).
THEOREM SocketsClosed == Spec => []BothSocketsClosed
<1>1. IInv => BothSocketsClosed
  <2> SUFFICES ASSUME IInv, NEW c \in Clients,
                      \A dir \in DOMAIN conns[c].copy : conns[c].copy[dir] = "done"
               PROVE  conns[c].in = "closed" /\ conns[c].out = "closed"
    BY DEF BothSocketsClosed
  <2>1. DOMAIN conns[c].copy = Dirs
    BY IInvParts DEF ConnType
  <2> QED BY <2>1, IInvParts DEF ConnsOK, Alone, Proxied, Dirs
<1> QED BY Invariance, <1>1, PTL

\* Stopping a portal leaves every accepted connection as it is (utils.go:17).
THEOREM StopUntouched == Spec => StopLeavesConnections
<1> DEFINE Kept == \A c \in Clients :
              /\ \E l \in Loops : loops[l].open /\ ~loops'[l].open
              /\ conns[c].in # "queued"
              => conns'[c] = conns[c]
<1>1. ASSUME IInv, [Next]_vars PROVE [Kept]_vars
  <2>1. ASSUME NEW l \in Loops, Close(l) PROVE Kept
    BY <1>1, <2>1, CloseOK
  <2>2. ASSUME \A l \in Loops : ~Close(l), NEW m \in Loops, loops[m].open
        PROVE  loops'[m].open \/ UNCHANGED vars
    <3>1. loops \in [Loops -> LoopType]
      BY <1>1, IInvParts
    <3>2. CASE UNCHANGED loops
      BY <2>2, <3>2
    <3>3. ASSUME NEW l \in Loops,
                 \/ CheckAlive(l) \/ Accept(l) \/ AcceptClosed(l) \/ AcceptFails(l) \/ SetDead(l)
                 \/ TryNextEndpoint(l) \/ DialSucceeds(l) \/ DialFails(l)
          PROVE  loops'[m].open
      <4>1. CASE CheckAlive(l) \/ AcceptClosed(l) \/ AcceptFails(l) \/ SetDead(l)
        BY <2>2, <3>1, <4>1 DEF CheckAlive, AcceptClosed, AcceptFails, SetDead, LoopType
      <4>2. CASE DialSucceeds(l) \/ Refuse(l)
        BY <2>2, <3>1, <4>2, SMTT(30) DEF DialSucceeds, Refuse, LoopType
      <4>3. CASE Accept(l)
        BY <2>2, <3>1, <4>3 DEF Accept, LoopType
      <4>4. CASE ~Refuse(l) /\ TryNextEndpoint(l)
        BY <2>2, <3>1, <4>4 DEF TryNextEndpoint, LoopType
      <4>5. CASE ~Refuse(l) /\ DialFails(l)
        BY <2>2, <3>1, <4>5 DEF DialFails, LoopType
      <4> QED BY <3>3, <4>1, <4>2, <4>3, <4>4, <4>5
    <3> QED
      BY <1>1, <2>2, <3>2, <3>3 DEF Next, LoopStep, TooManyFDs, Connect, Forget, PeerEnds, CopyStep,
           CopyEnds, CopyDone, CopyFails, Reconfigure, BackendChanges
  <2> QED BY <2>1, <2>2
<1> QED BY Invariance, <1>1, PTL DEF Spec, StopLeavesConnections

-----------------------------------------------------------------------------
(***************************************************************************)
(* The attempts of one tryConnect see every endpoint, if nobody else       *)
(* advances the index meanwhile, nothing changes and no dial times out.    *)
(***************************************************************************)
Undisturbed ==
    /\ \A l, m \in Loops : l = m
    /\ "churn" \notin World /\ "timeout" \notin World
    /\ \A e \in Endpoints : Len(e) <= DialAttempts

\* Position p of a list of n is one of the k that NextEndpoint returned last,
\* if the index is i now.
Recent(p, n, i, k) == k >= n \/ (p <= i /\ p > i - k) \/ p > n + i - k

Down(a) == a[1] \notin up

EndpointsOf == services[svcPort].endpoints
IndexOf == services[svcPort].index

\* What a loop knows after `attempt` failed dials, before and during the next.
Tried ==
    /\ services[svcPort] \in LB!BalancerState
    /\ Len(EndpointsOf) <= DialAttempts
    /\ \A l \in Loops : loops[l].pc = "next" =>
          \A p \in 1..Len(EndpointsOf) :
             Recent(p, Len(EndpointsOf), IndexOf, loops[l].attempt) => Down(EndpointsOf[p])
    /\ \A l \in Loops : loops[l].pc = "dial" =>
          \A p \in 1..Len(EndpointsOf) :
             Recent(p, Len(EndpointsOf), IndexOf, loops[l].attempt + 1) =>
                Down(EndpointsOf[p]) \/ EndpointsOf[p] = loops[l].endpoint
    /\ \A c \in Clients : conns[c].in = "refused" =>
          \A p \in 1..Len(EndpointsOf) : Down(EndpointsOf[p])

\* One more call adds the position it returned.
LEMMA RecentNext ==
    ASSUME NEW n \in Nat \ {0}, NEW i \in 0 .. n - 1, NEW k \in Nat, NEW p \in 1..n,
           Recent(p, n, (i + 1) % n, k + 1)
    PROVE  p = i + 1 \/ Recent(p, n, i, k)
<1>1. i + 1 < n => (i + 1) % n = i + 1
  OBVIOUS
<1>2. i + 1 = n => (i + 1) % n = 0
  OBVIOUS
<1>3. CASE i + 1 < n
  BY <1>1, <1>3 DEF Recent
<1>4. CASE i + 1 = n
  BY <1>2, <1>4 DEF Recent
<1> QED BY <1>3, <1>4

LEMMA RecentNone ==
    ASSUME NEW n \in Nat, NEW i \in Nat, NEW p \in 1..n
    PROVE  ~Recent(p, n, i, 0)
<1> QED BY DEF Recent

LEMMA RecentAll ==
    ASSUME NEW n \in Nat, NEW i \in Nat, NEW p \in 1..n, NEW k \in Nat, k >= n
    PROVE  Recent(p, n, i, k)
<1> QED BY DEF Recent

LEMMA InitTried == Undisturbed /\ Init => Tried
<1> SUFFICES ASSUME Undisturbed, Init PROVE Tried
  OBVIOUS
<1>1. PICK e \in Endpoints :
          services = [sp \in Names \X PortNames |->
              IF sp # svcPort THEN None
              ELSE IF e = <<>> THEN LB!EmptyState
              ELSE [endpoints |-> LB!buildPortsToEndpointsMap(e, service)[portName], index |-> 0]]
  BY DEF Init
<1> DEFINE list == LB!buildPortsToEndpointsMap(e, service)[portName]
<1>2. CASE e = <<>>
  <2>1. services[svcPort] = [endpoints |-> <<>>, index |-> 0]
    BY <1>1, <1>2, SvcPort DEF LB!EmptyState, LB!ServicePortNames
  <2>2. services[svcPort] \in LB!BalancerState /\ Len(EndpointsOf) <= DialAttempts
    BY <2>1, EmptySeq, DataPlaneAssumption DEF LB!BalancerState, EndpointsOf
  <2> QED BY <2>2 DEF Init, Tried, NoConn
<1>3. CASE e # <<>>
  <2>1. portName \in DOMAIN LB!buildPortsToEndpointsMap(e, service)
    BY <1>3, DataPlaneAssumption DEF LB!buildPortsToEndpointsMap
  <2>2. list \in Seq(LB!Addresses) /\ Len(list) = Len(e) /\ Len(e) <= DialAttempts
    BY <2>1, BuiltOK DEF Undisturbed
  <2> HIDE DEF list
  <2>3. services[svcPort] = [endpoints |-> list, index |-> 0]
    BY <1>1, <1>3, SvcPort DEF list, LB!ServicePortNames
  <2>4. services[svcPort] \in LB!BalancerState /\ Len(EndpointsOf) <= DialAttempts
    BY <2>2, <2>3 DEF LB!BalancerState, EndpointsOf
  <2> QED BY <2>4 DEF Init, Tried, NoConn
<1> QED BY <1>2, <1>3

\* Steps that leave the balancer, the backends and the loops' attempts alone
\* and refuse nobody.
LEMMA TriedSame ==
    ASSUME Tried, UNCHANGED <<services, up>>,
           \A l \in Loops :
              /\ loops'[l].pc \in {"next", "dial"} =>
                    /\ loops'[l].pc = loops[l].pc
                    /\ loops'[l].attempt = loops[l].attempt
                    /\ loops'[l].endpoint = loops[l].endpoint,
           \A c \in Clients : conns'[c].in = "refused" => conns[c].in = "refused"
    PROVE  Tried'
<1>1. EndpointsOf' = EndpointsOf /\ IndexOf' = IndexOf /\ \A a : Down(a)' <=> Down(a)
  BY DEF EndpointsOf, IndexOf, Down
<1> QED BY <1>1 DEF Tried

LEMMA TriedNextEndpoint ==
    ASSUME IInv, Tried, Undisturbed, NEW l \in Loops, TryNextEndpoint(l)
    PROVE  Tried'
<1> DEFINE n == Len(EndpointsOf)
           k == loops[l].attempt
<1>1. /\ loops[l] \in LoopType /\ loops[l].pc = "next" /\ k \in Nat
      /\ \A m \in Loops : m = l
      /\ UNCHANGED up
  BY IInvParts DEF TryNextEndpoint, At, Undisturbed, LoopType
<1>2. /\ services[svcPort] \in LB!BalancerState /\ EndpointsOf \in Seq(LB!Addresses)
      /\ IndexOf \in Nat /\ n \in Nat
  BY LenProperties DEF Tried, LB!BalancerState, EndpointsOf, IndexOf
<1>3. services[svcPort] # None
  BY <1>2, BalancerAssumption DEF LB!BalancerState, LB!Addresses
<1>4. loops \in [Loops -> LoopType] /\ conns \in [Clients -> ConnType] /\ loops[l].client \in Clients
  BY <1>1, IInvParts DEF HeldOK, Holds
<1>5. CASE LB!MissingEndpoints(svcPort)
  <2>1. n = 0 /\ UNCHANGED services /\ reply'.err # "nil"
    BY <1>5 DEF LB!MissingEndpoints, EndpointsOf, LB!ErrMissingEndpoints
  <2>2. EndpointsOf' = EndpointsOf /\ services'[svcPort] = services[svcPort]
    BY <2>1 DEF EndpointsOf
  <2> QED BY <1>2, <2>1, <2>2 DEF Tried
<1>6. CASE LB!TakeNextEndpoint(svcPort)
  <2> DEFINE state == services[svcPort]
             i == (IndexOf + 1) % n
             next == [endpoints |-> EndpointsOf, index |-> i]
  <2>1. /\ n > 0 /\ services' = [services EXCEPT ![svcPort] = next]
        /\ reply'.err = "nil" /\ reply'.endpoint = EndpointsOf[IndexOf + 1]
    BY <1>6 DEF LB!TakeNextEndpoint, LB!NextIndex, EndpointsOf, IndexOf
  <2>2. IndexOf \in 0 .. n - 1
    <3>1. EntryOK(services[svcPort])
      BY IInvParts, BalancerPointwise, SvcPort DEF BalancerOK
    <3> QED BY <1>2, <1>3, <2>1, <3>1, EmptySeq DEF EntryOK, EndpointsOf, IndexOf
  <2>3. i \in Nat
    BY <1>2, <2>1, <2>2
  <2>4. services'[svcPort] = next
    BY <2>1, IInvParts, BalancerPointwise, SvcPort DEF BalancerOK
  <2>5. /\ next \in LB!BalancerState /\ EndpointsOf' = EndpointsOf /\ IndexOf' = i
    BY <1>2, <2>3, <2>4 DEF LB!BalancerState, EndpointsOf, IndexOf
  <2>6. /\ loops'[l].pc = "dial" /\ loops'[l].attempt = k
        /\ loops'[l].endpoint = EndpointsOf[IndexOf + 1]
        /\ UNCHANGED conns
    BY <1>4, <2>1 DEF TryNextEndpoint, LoopType
  <2>7. ASSUME NEW p \in 1..n, Recent(p, n, i, k + 1)
        PROVE  Down(EndpointsOf[p]) \/ EndpointsOf[p] = EndpointsOf[IndexOf + 1]
    <3>1. p = IndexOf + 1 \/ Recent(p, n, IndexOf, k)
      BY <1>1, <1>2, <2>1, <2>2, <2>7, RecentNext
    <3> QED BY <1>1, <3>1 DEF Tried
  <2>8. n <= DialAttempts
    BY DEF Tried
  <2> HIDE DEF i, next
  <2>9. \A m \in Loops : loops'[m].pc = "dial" /\ loops'[m].attempt = k
                         /\ loops'[m].endpoint = EndpointsOf[IndexOf + 1]
    BY <1>1, <2>6
  <2>10. \A a : Down(a)' <=> Down(a)
    BY <1>1 DEF Down
  <2>11. \A c \in Clients : conns'[c].in = "refused" =>
            \A p \in 1..n : Down(EndpointsOf[p])
    BY <2>6 DEF Tried
  <2> QED BY <2>4, <2>5, <2>7, <2>8, <2>9, <2>10, <2>11 DEF Tried
<1>7. LB!MissingEndpoints(svcPort) \/ LB!TakeNextEndpoint(svcPort)
  BY <1>3 DEF TryNextEndpoint, LB!NextEndpoint, LB!MissingServiceEntry
<1> QED BY <1>5, <1>6, <1>7

LEMMA TriedDialFails ==
    ASSUME IInv, Tried, Undisturbed, NEW l \in Loops, DialFails(l)
    PROVE  Tried'
<1> DEFINE n == Len(EndpointsOf)
           k == loops[l].attempt
<1>1. /\ loops[l].pc = "dial" /\ k \in Nat /\ n \in Nat /\ IndexOf \in Nat /\ n <= DialAttempts
      /\ UNCHANGED <<services, up>>
      /\ \A m \in Loops : m = l
  BY IInvParts, LenProperties
     DEF DialFails, At, Undisturbed, LoopType, Tried, LB!BalancerState, EndpointsOf, IndexOf
<1>2. loops[l].endpoint[1] \notin up
  BY DEF DialFails, Undisturbed
<1>3. \A p \in 1..n : Recent(p, n, IndexOf, k + 1) => Down(EndpointsOf[p])
  BY <1>1, <1>2 DEF Tried, Down
<1>4. EndpointsOf' = EndpointsOf /\ IndexOf' = IndexOf /\ \A a : Down(a)' <=> Down(a)
  BY <1>1 DEF EndpointsOf, IndexOf, Down
<1>5. loops \in [Loops -> LoopType] /\ conns \in [Clients -> ConnType] /\ loops[l].client \in Clients
  BY <1>1, IInvParts DEF HeldOK, Holds
<1>6. CASE k + 1 = DialAttempts
  <2>1. \A p \in 1..n : Down(EndpointsOf[p])
    BY <1>1, <1>3, <1>6, RecentAll
  <2>2. \A m \in Loops : loops'[m].pc = "check"
    BY <1>1, <1>5, <1>6 DEF DialFails, Refuse, LoopType
  <2> QED BY <1>1, <1>4, <2>1, <2>2 DEF Tried
<1>7. CASE k + 1 # DialAttempts
  <2>1. UNCHANGED conns /\ loops'[l].pc = "next" /\ loops'[l].attempt = k + 1
    BY <1>5, <1>7 DEF DialFails, LoopType
  <2>2. \A m \in Loops : loops'[m].pc = "next" /\ loops'[m].attempt = k + 1
    BY <1>1, <2>1
  <2> QED BY <1>1, <1>3, <1>4, <2>1, <2>2 DEF Tried
<1> QED BY <1>6, <1>7

LEMMA TriedAccept ==
    ASSUME IInv, Tried, Undisturbed, NEW l \in Loops, Accept(l)
    PROVE  Tried'
<1>1. /\ Len(EndpointsOf) \in Nat /\ IndexOf \in Nat /\ UNCHANGED <<services, up>>
      /\ \A m \in Loops : m = l
  BY LenProperties DEF Accept, Undisturbed, Tried, LB!BalancerState, EndpointsOf, IndexOf
<1>2. EndpointsOf' = EndpointsOf /\ IndexOf' = IndexOf /\ \A a : Down(a)' <=> Down(a)
  BY <1>1 DEF EndpointsOf, IndexOf, Down
<1>3. loops \in [Loops -> LoopType] /\ conns \in [Clients -> ConnType]
  BY IInvParts
<1>4. \A m \in Loops : loops'[m].pc = "next" /\ loops'[m].attempt = 0
  BY <1>1, <1>3 DEF Accept, LoopType
<1>5. \A p \in 1..Len(EndpointsOf) : ~Recent(p, Len(EndpointsOf), IndexOf, 0)
  BY <1>1, RecentNone
<1>6. \A c \in Clients : conns'[c].in = "refused" => conns[c].in = "refused"
  BY <1>3 DEF Accept, ConnType
<1> QED BY <1>1, <1>2, <1>4, <1>5, <1>6 DEF Tried

\* No other step refuses anybody.
LEMMA TriedLoop ==
    ASSUME IInv, Tried, NEW l \in Loops,
           \/ CheckAlive(l) \/ AcceptClosed(l) \/ AcceptFails(l)
           \/ DialSucceeds(l) \/ TooManyFDs(l) \/ SetDead(l) \/ Close(l)
    PROVE  Tried'
<1>1. loops \in [Loops -> LoopType] /\ conns \in [Clients -> ConnType]
  BY IInvParts
<1>2. CASE UNCHANGED <<loops, conns, services, up>>
  BY <1>2, TriedSame
<1>3. CASE CheckAlive(l) \/ AcceptClosed(l) \/ AcceptFails(l)
  <2>1. UNCHANGED <<services, up, conns>>
    BY <1>3 DEF CheckAlive, AcceptClosed, AcceptFails
  <2>2. PICK pc \in {"check", "accept", "done"} : loops' = [loops EXCEPT ![l].pc = pc]
    BY <1>3 DEF CheckAlive, AcceptClosed, AcceptFails
  <2>3. \A m \in Loops : loops'[m].pc = pc \/ loops'[m] = loops[m]
    BY <1>1, <2>2 DEF LoopType
  <2> QED BY <2>1, <2>3, TriedSame
<1>4. CASE SetDead(l)
  BY <1>1, <1>4, TriedSame DEF SetDead, LoopType
<1>5. CASE Close(l)
  <2>1. \A m \in Loops : /\ loops'[m].pc = loops[m].pc /\ loops'[m].attempt = loops[m].attempt
                         /\ loops'[m].endpoint = loops[m].endpoint
    BY <1>1, <1>5 DEF Close, LoopType
  <2>2. \A d \in Clients : conns'[d].in = "refused" => conns[d].in = "refused"
    BY <1>5 DEF Close, NoConn
  <2> QED BY <1>5, <2>1, <2>2, TriedSame DEF Close
<1>6. CASE DialSucceeds(l)
  <2>1. loops[l].client \in Clients /\ loops[l].pc = "dial"
    BY <1>6, IInvParts DEF DialSucceeds, At, HeldOK, Holds
  <2>2. \A d \in Clients : conns'[d].in = conns[d].in
    BY <1>1, <1>6, <2>1 DEF DialSucceeds, ConnType
  <2>3. \A m \in Loops : loops'[m].pc = "check" \/ loops'[m] = loops[m]
    BY <1>1, <1>6 DEF DialSucceeds, LoopType
  <2> QED BY <1>6, <2>2, <2>3, TriedSame DEF DialSucceeds
<1> QED BY <1>2, <1>3, <1>4, <1>5, <1>6 DEF TooManyFDs

LEMMA TriedConn ==
    ASSUME IInv, Tried, NEW c \in Clients, NEW side \in {"in", "out"}, NEW dir \in Dirs,
           \/ \E l \in Loops : Connect(c, l)
           \/ Forget(c) \/ PeerEnds(c, side) \/ CopyStep(c, dir) \/ CopyFails(c, dir)
    PROVE  Tried'
<1>1. loops \in [Loops -> LoopType] /\ conns \in [Clients -> ConnType]
  BY IInvParts
<1>2. CASE (\E l \in Loops : Connect(c, l)) \/ Forget(c)
  <2>1. \A d \in Clients : conns'[d].in = "refused" => conns[d].in = "refused"
    BY <1>1, <1>2 DEF Connect, Forget, NoConn, ConnType
  <2> QED BY <1>2, <2>1, TriedSame DEF Connect, Forget
<1>3. CASE PeerEnds(c, side) \/ CopyStep(c, dir) \/ CopyFails(c, dir)
  <2>1. UNCHANGED <<services, up, loops>>
    BY <1>3 DEF PeerEnds, CopyStep, CopyEnds, CopyDone, CopyFails
  <2>2. \A d \in Clients \ {c} : conns'[d] = conns[d]
    BY <1>1, <1>3 DEF PeerEnds, CopyStep, CopyEnds, CopyDone, CopyFails
  <2>3. conns[c].in # "refused" /\ conns'[c].in # "refused"
    <3>1. Proxied(conns[c])
      BY <1>3, IInvParts DEF PeerEnds, CopyStep, CopyEnds, CopyDone, CopyFails, ConnsOK, Alone
    <3>2. conns[c] \in ConnType /\ conns[c].in # "refused"
      BY <1>1, <3>1 DEF Proxied
    <3>3. CASE PeerEnds(c, side)
      BY <1>1, <3>2, <3>3 DEF PeerEnds, ConnType
    <3>4. CASE CopyFails(c, dir)
      BY <1>1, <3>2, <3>4 DEF CopyFails, ConnType
    <3>5. CASE CopyStep(c, dir)
      <4>1. \/ conns'[c] = [conns[c] EXCEPT ![Dest(dir)] = "closed", !.copy[dir] = "closing"]
            \/ conns'[c] = [conns[c] EXCEPT ![Src(dir)] = "closed", !.copy[dir] = "done"]
        BY <1>1, <3>5 DEF CopyStep, CopyEnds, CopyDone
      <4>2. CASE dir = "toBackend"
        BY <3>2, <4>1, <4>2 DEF Src, Dest, ConnType
      <4>3. CASE dir = "fromBackend"
        BY <3>2, <4>1, <4>3 DEF Src, Dest, ConnType
      <4> QED BY <4>2, <4>3 DEF Dirs
    <3> QED BY <1>3, <3>2, <3>3, <3>4, <3>5
  <2> QED BY <2>1, <2>2, <2>3, TriedSame
<1> QED BY <1>2, <1>3

LEMMA NextTried == IInv /\ (Undisturbed => Tried) /\ [Next]_vars => (Undisturbed => Tried)'
<1> SUFFICES ASSUME IInv, Undisturbed, Tried, [Next]_vars PROVE Tried'
  BY DEF Undisturbed
<1>1. ~Reconfigure /\ \A ip \in IPs : ~BackendChanges(ip)
  BY DEF Undisturbed, Reconfigure, BackendChanges
<1>2. CASE UNCHANGED vars
  BY <1>2, TriedSame DEF vars
<1>3. ASSUME NEW l \in Loops,
             LoopStep(l) \/ AcceptFails(l) \/ TooManyFDs(l) \/ SetDead(l) \/ Close(l)
      PROVE  Tried'
  BY <1>3, TriedLoop, TriedAccept, TriedNextEndpoint, TriedDialFails DEF LoopStep
<1>4. "in" \in {"in", "out"} /\ "toBackend" \in Dirs
  BY DEF Dirs
<1>5. ASSUME NEW c \in Clients, (\E l \in Loops : Connect(c, l)) \/ Forget(c)
      PROVE  Tried'
  BY <1>4, <1>5, TriedConn
<1>6. ASSUME NEW c \in Clients, NEW side \in {"in", "out"}, PeerEnds(c, side)
      PROVE  Tried'
  BY <1>4, <1>6, TriedConn
<1>7. ASSUME NEW c \in Clients, NEW dir \in Dirs, CopyStep(c, dir) \/ CopyFails(c, dir)
      PROVE  Tried'
  BY <1>4, <1>7, TriedConn
<1> QED BY <1>1, <1>2, <1>3, <1>5, <1>6, <1>7 DEF Next, Dirs

\* A loop that has the balancer to itself, with backends that stay as they are
\* and no more of them than dial attempts, refuses a client only if all are
\* down: the attempts of one tryConnect dial every endpoint (utils.go:175-202).
THEOREM RefusalMeansAllDown == Spec => [](Undisturbed => RefusedOnlyIfAllDown)
<1>1. Init => (Undisturbed => Tried)
  BY InitTried
<1>2. IInv /\ (Undisturbed => Tried) /\ [Next]_vars => (Undisturbed => Tried)'
  BY NextTried
<1>3. (Undisturbed => Tried) => (Undisturbed => RefusedOnlyIfAllDown)
  <2> SUFFICES ASSUME Tried, NEW c \in Clients, conns[c].in = "refused",
                      NEW a \in Range(services[svcPort].endpoints)
               PROVE  a[1] \notin up
    BY DEF RefusedOnlyIfAllDown
  <2>1. EndpointsOf \in Seq(LB!Addresses)
    BY DEF Tried, LB!BalancerState, EndpointsOf
  <2>2. PICK p \in 1..Len(EndpointsOf) : a = EndpointsOf[p]
    BY <2>1, LenProperties DEF EndpointsOf, Range
  <2> QED BY <2>2 DEF Tried, Down
<1> QED BY Invariance, <1>1, <1>2, <1>3, PTL DEF Spec
=============================================================================
