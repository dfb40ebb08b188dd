------------------------------ MODULE TcpProxy ------------------------------
(***************************************************************************)
(* The data plane of the userspace proxy for TCP                           *)
(* (pkg/proxy/userspace/utils.go): the proxy loops of the portals of one   *)
(* service port, the connections they accept and the two copiers of each   *)
(* connection, all goroutines of one process, against stopProxy            *)
(* (proxier.go:393-405), changes of the balancer, and backends that come   *)
(* and go.  The loops share the balancer's state of the service port.      *)
(***************************************************************************)
EXTENDS Integers, Sequences, Functions

CONSTANTS Names, PortNames, Ports, IPs, Services, Endpoints, None,
          service,       \* the service the loops work for
          portName,      \* and its port
          Loops,         \* portals of that port, one ProxyLoop each
          Clients,       \* a client has at most one connection at a time
          DialAttempts,  \* len(endpointDialTimeout)
          World          \* what may happen to the loops

ASSUME DataPlaneAssumption ==
    /\ service \in Services
    /\ portName \in DOMAIN service.ports
    /\ DialAttempts \in Nat \ {0}
    /\ World \subseteq {"stop", "churn", "accept", "timeout", "fds"}

\* What LoadBalancerRR assumes of the objects it is given.
ASSUME BalancerAssumption ==
    /\ \A s \in Services :
          /\ s.name \in Names
          /\ DOMAIN s.ports \subseteq PortNames
          /\ \A p \in DOMAIN s.ports : s.ports[p].port \in Ports
    /\ Endpoints \subseteq Seq(IPs)
    /\ None \notin [endpoints : Seq(IPs \X Ports), index : Nat]

VARIABLES services, reply,  \* the balancer
          up,               \* backends that accept connections
          loops,            \* goroutine and listener of each portal
          backlog,          \* connections the listener has not handed over
          conns,            \* per client: both sockets and both copiers
          panicked

vars == <<services, reply, up, loops, backlog, conns, panicked>>

LB == INSTANCE LoadBalancerRR

svcPort == <<service.name, portName>>

\* No connection: `in` and `out` are the two sockets, `copy` the copiers.
NoConn == [in |-> "none", out |-> "none", to |-> None,
           copy |-> [dir \in {"toBackend", "fromBackend"} |-> "none"]]

\* The socket a copier reads from and the one it writes to.
Src(dir) == IF dir = "toBackend" THEN "in" ELSE "out"
Dest(dir) == IF dir = "toBackend" THEN "out" ELSE "in"

-----------------------------------------------------------------------------
\* The loops run, and the balancer has been given one endpoint object.
Init ==
    /\ up \in SUBSET IPs
    /\ \E e \in Endpoints :
          services = [sp \in Names \X PortNames |->
              IF sp # svcPort THEN None
              ELSE IF e = <<>> THEN LB!EmptyState
              ELSE [endpoints |-> LB!buildPortsToEndpointsMap(e, service)[portName], index |-> 0]]
    /\ reply = None
    /\ loops = [l \in Loops |-> [pc |-> "check", client |-> None, attempt |-> 0,
                                 endpoint |-> None, alive |-> TRUE, open |-> TRUE]]
    /\ backlog = [l \in Loops |-> <<>>]
    /\ conns = [c \in Clients |-> NoConn]
    /\ panicked = FALSE

At(l, pc) == ~panicked /\ loops[l].pc = pc

\* A client opens a connection to a listening portal.
Connect(c, l) ==
    /\ ~panicked
    /\ conns[c] = NoConn
    /\ loops[l].open
    /\ conns' = [conns EXCEPT ![c].in = "queued"]
    /\ backlog' = [backlog EXCEPT ![l] = Append(@, c)]
    /\ UNCHANGED <<services, reply, up, loops, panicked>>

-----------------------------------------------------------------------------
\* ProxyLoop: "The service port was closed or replaced."
CheckAlive(l) ==
    /\ At(l, "check")
    /\ loops' = [loops EXCEPT ![l].pc = IF loops[l].alive THEN "accept" ELSE "done"]
    /\ UNCHANGED <<services, reply, up, backlog, conns, panicked>>

Accept(l) ==
    /\ At(l, "accept")
    /\ loops[l].open
    /\ backlog[l] # <<>>
    /\ backlog' = [backlog EXCEPT ![l] = Tail(@)]
    /\ conns' = [conns EXCEPT ![Head(backlog[l])].in = "open"]
    /\ loops' = [loops EXCEPT ![l].pc = "next", ![l].client = Head(backlog[l]),
                              ![l].attempt = 0]
    /\ UNCHANGED <<services, reply, up, panicked>>

\* Mistake: trying Accept again on a closed listener.
AcceptClosedIgnored(l) ==
    /\ At(l, "accept")
    /\ ~loops[l].open
    /\ UNCHANGED vars

AcceptClosed(l) ==
    /\ At(l, "accept")
    /\ ~loops[l].open
    /\ loops' = [loops EXCEPT ![l].pc = "done"]
    /\ UNCHANGED <<services, reply, up, backlog, conns, panicked>>

AcceptFails(l) ==
    /\ "accept" \in World
    /\ At(l, "accept")
    /\ loops' = [loops EXCEPT ![l].pc = IF loops[l].alive THEN "check" ELSE "done"]
    /\ UNCHANGED <<services, reply, up, backlog, conns, panicked>>

\* Mistake: forgetting inConn.Close() when no backend can be reached.
RefuseWithoutClose(l) ==
    /\ loops' = [loops EXCEPT ![l].pc = "check", ![l].client = None, ![l].endpoint = None]
    /\ UNCHANGED <<conns>>

\* tryConnect failed: inConn.Close() and back to the top of the loop.
Refuse(l) ==
    /\ loops' = [loops EXCEPT ![l].pc = "check", ![l].client = None, ![l].endpoint = None]
    /\ conns' = [conns EXCEPT ![loops[l].client].in = "refused"]

\* tryConnect asks the balancer; an error ends it at once.
TryNextEndpoint(l) ==
    /\ At(l, "next")
    /\ LB!NextEndpoint(svcPort)
    /\ IF reply'.err = "nil"
       THEN /\ loops' = [loops EXCEPT ![l].pc = "dial", ![l].endpoint = reply'.endpoint]
            /\ UNCHANGED conns
       ELSE Refuse(l)
    /\ UNCHANGED <<up, backlog, panicked>>

\* The dial succeeds; proxyTCP starts the two copiers.
DialSucceeds(l) ==
    /\ At(l, "dial")
    /\ loops[l].endpoint[1] \in up
    /\ conns' = [conns EXCEPT ![loops[l].client].out = "open",
                              ![loops[l].client].to = loops[l].endpoint[1],
                              ![loops[l].client].copy = [dir \in DOMAIN @ |-> "copying"]]
    /\ loops' = [loops EXCEPT ![l].pc = "check", ![l].client = None, ![l].endpoint = None]
    /\ UNCHANGED <<services, reply, up, backlog, panicked>>

\* Mistakes: dialling without a limit; one attempt too few.
DialFailsForever(l) ==
    /\ At(l, "dial")
    /\ loops[l].endpoint[1] \notin up
    /\ loops' = [loops EXCEPT ![l].pc = "next", ![l].attempt = @ + 1, ![l].endpoint = None]
    /\ UNCHANGED <<services, reply, up, backlog, conns, panicked>>

DialFailsEarly(l) ==
    /\ At(l, "dial")
    /\ loops[l].endpoint[1] \notin up \/ "timeout" \in World
    /\ IF loops[l].attempt + 2 >= DialAttempts
       THEN Refuse(l)
       ELSE /\ loops' = [loops EXCEPT ![l].pc = "next", ![l].attempt = @ + 1,
                                      ![l].endpoint = None]
            /\ UNCHANGED conns
    /\ UNCHANGED <<services, reply, up, backlog, panicked>>

\* The dial fails or times out; the next attempt asks the balancer again.
DialFails(l) ==
    /\ At(l, "dial")
    /\ loops[l].endpoint[1] \notin up \/ "timeout" \in World
    /\ IF loops[l].attempt + 1 = DialAttempts
       THEN Refuse(l)
       ELSE /\ loops' = [loops EXCEPT ![l].pc = "next", ![l].attempt = @ + 1,
                                      ![l].endpoint = None]
            /\ UNCHANGED conns
    /\ UNCHANGED <<services, reply, up, backlog, panicked>>

\* isTooManyFDsError of Accept or of the dial panics.
TooManyFDs(l) ==
    /\ "fds" \in World
    /\ At(l, "accept") \/ At(l, "dial")
    /\ panicked' = TRUE
    /\ UNCHANGED <<services, reply, up, loops, backlog, conns>>

LoopStep(l) ==
    \/ CheckAlive(l) \/ Accept(l) \/ AcceptClosed(l)
    \/ TryNextEndpoint(l) \/ DialSucceeds(l) \/ DialFails(l)

-----------------------------------------------------------------------------
\* The client or the backend ends its side: the copier that reads it sees EOF.
PeerEnds(c, side) ==
    /\ ~panicked
    /\ side \in {"in", "out"}
    /\ conns[c].out # "none"
    /\ conns[c][side] = "open"
    /\ conns' = [conns EXCEPT ![c][side] = "eof"]
    /\ UNCHANGED <<services, reply, up, loops, backlog, panicked>>

\* Mistake: the copier returns without closing the sockets.
CopyEndsWithoutClose(c, dir) ==
    /\ ~panicked
    /\ conns[c].copy[dir] = "copying"
    /\ conns[c][Src(dir)] \in {"eof", "closed"}
    /\ conns' = [conns EXCEPT ![c].copy[dir] = "done"]
    /\ UNCHANGED <<services, reply, up, loops, backlog, panicked>>

\* copyBytes: io.Copy returns at EOF of its source or because the other
\* copier closed it; dest.Close() comes first.
CopyEnds(c, dir) ==
    /\ ~panicked
    /\ conns[c].copy[dir] = "copying"
    /\ conns[c][Src(dir)] \in {"eof", "closed"}
    /\ conns' = [conns EXCEPT ![c] = [@ EXCEPT ![Dest(dir)] = "closed", !.copy[dir] = "closing"]]
    /\ UNCHANGED <<services, reply, up, loops, backlog, panicked>>

\* copyBytes: writing to a socket the other copier closed fails.
CopyFails(c, dir) ==
    /\ ~panicked
    /\ conns[c].copy[dir] = "copying"
    /\ conns[c][Dest(dir)] = "closed"
    /\ conns' = [conns EXCEPT ![c].copy[dir] = "closing"]
    /\ UNCHANGED <<services, reply, up, loops, backlog, panicked>>

\* copyBytes: src.Close(), wg.Done().
CopyDone(c, dir) ==
    /\ ~panicked
    /\ conns[c].copy[dir] = "closing"
    /\ conns' = [conns EXCEPT ![c] = [@ EXCEPT ![Src(dir)] = "closed", !.copy[dir] = "done"]]
    /\ UNCHANGED <<services, reply, up, loops, backlog, panicked>>

CopyStep(c, dir) == CopyEnds(c, dir) \/ CopyDone(c, dir)

\* wg.Wait() has returned, or the client was refused or reset: the client may
\* come back with a new connection.
Over(c) ==
    \/ conns[c].in \in {"refused", "reset"}
    \/ \A dir \in DOMAIN conns[c].copy : conns[c].copy[dir] = "done"

Forget(c) ==
    /\ ~panicked
    /\ Over(c)
    /\ conns' = [conns EXCEPT ![c] = NoConn]
    /\ UNCHANGED <<services, reply, up, loops, backlog, panicked>>

-----------------------------------------------------------------------------
\* stopProxyInternal: setAlive(false) ...
SetDead(l) ==
    /\ "stop" \in World
    /\ ~panicked
    /\ loops[l].alive
    /\ loops' = [loops EXCEPT ![l].alive = FALSE]
    /\ UNCHANGED <<services, reply, up, backlog, conns, panicked>>

\* Mistake: closing the accepted connections together with the listener.
CloseEverything(l) ==
    /\ ~panicked
    /\ ~loops[l].alive /\ loops[l].open
    /\ loops' = [loops EXCEPT ![l].open = FALSE]
    /\ backlog' = [backlog EXCEPT ![l] = <<>>]
    /\ conns' = [c \in Clients |->
          IF c \in Range(backlog[l]) THEN [NoConn EXCEPT !.in = "reset"]
          ELSE IF conns[c].out # "none" THEN [conns[c] EXCEPT !.in = "closed"] ELSE conns[c]]
    /\ UNCHANGED <<services, reply, up, panicked>>

\* ... and then socket.Close(); the stack resets what was not accepted.
Close(l) ==
    /\ ~panicked
    /\ ~loops[l].alive /\ loops[l].open
    /\ loops' = [loops EXCEPT ![l].open = FALSE]
    /\ backlog' = [backlog EXCEPT ![l] = <<>>]
    /\ conns' = [c \in Clients |->
          IF c \in Range(backlog[l]) THEN [NoConn EXCEPT !.in = "reset"] ELSE conns[c]]
    /\ UNCHANGED <<services, reply, up, panicked>>

\* The sink changes the balancer between two calls of the loops.
Reconfigure ==
    /\ "churn" \in World
    /\ ~panicked
    /\ \/ \E old, e \in Endpoints : LB!OnEndpointsUpdate(old, e, service)
       \/ LB!DeleteService(svcPort)
    /\ UNCHANGED <<up, loops, backlog, conns, panicked>>

\* A backend goes down, taking its connections with it, or comes back.
BackendChanges(ip) ==
    /\ "churn" \in World
    /\ ~panicked
    /\ up' = IF ip \in up THEN up \ {ip} ELSE up \cup {ip}
    /\ conns' = [c \in Clients |->
          IF ip \in up /\ conns[c].to = ip /\ conns[c].out = "open"
          THEN [conns[c] EXCEPT !.out = "eof"] ELSE conns[c]]
    /\ UNCHANGED <<services, reply, loops, backlog, panicked>>

Next ==
    \/ \E c \in Clients, l \in Loops : Connect(c, l)
    \/ \E l \in Loops : LoopStep(l) \/ AcceptFails(l) \/ TooManyFDs(l) \/ SetDead(l) \/ Close(l)
    \/ \E c \in Clients :
          \/ Forget(c)
          \/ \E side \in {"in", "out"} : PeerEnds(c, side)
          \/ \E dir \in {"toBackend", "fromBackend"} : CopyStep(c, dir) \/ CopyFails(c, dir)
    \/ Reconfigure
    \/ \E ip \in IPs : BackendChanges(ip)

Spec == Init /\ [][Next]_vars

(***************************************************************************)
(* Fairness: the Go scheduler runs every goroutine, a dial ends within its *)
(* timeout, and stopProxyInternal does not stop between its two calls.     *)
(***************************************************************************)
Fairness ==
    /\ \A l \in Loops : WF_vars(LoopStep(l)) /\ WF_vars(Close(l))
    /\ \A c \in Clients, dir \in {"toBackend", "fromBackend"} : WF_vars(CopyStep(c, dir))

FairSpec == Spec /\ Fairness

-----------------------------------------------------------------------------
SocketStates == {"none", "queued", "open", "eof", "closed", "refused", "reset"}

\* Type invariant of the loops and connections.
TypeOK ==
    /\ LB!TypeOK
    /\ up \subseteq IPs
    /\ loops \in [Loops ->
          [pc : {"check", "accept", "next", "dial", "done"}, client : Clients \cup {None},
           attempt : 0 .. DialAttempts - 1, endpoint : LB!Addresses \cup {None},
           alive : BOOLEAN, open : BOOLEAN]]
    /\ backlog \in [Loops -> Seq(Clients)]
    /\ conns \in [Clients ->
          [in : SocketStates, out : SocketStates, to : IPs \cup {None},
           copy : [{"toBackend", "fromBackend"} -> {"none", "copying", "closing", "done"}]]]
    /\ panicked \in BOOLEAN

\* Every accepted connection is in somebody's hands: a loop that is looking
\* for its backend, or two copiers; a loop that leaves ProxyLoop leaves none
\* behind (utils.go:205-238).
NoAbandonedClient ==
    \A c \in Clients :
        conns[c].in = "open" =>
            \/ \E l \in Loops : loops[l].client = c /\ loops[l].pc \in {"next", "dial"}
            \/ \E dir \in DOMAIN conns[c].copy : conns[c].copy[dir] \in {"copying", "closing"}

\* When wg.Wait() of proxyTCP returns, both sockets are closed, whichever
\* copier ended first and however their closes interleaved (utils.go:241-263).
BothSocketsClosed ==
    \A c \in Clients :
        (\A dir \in DOMAIN conns[c].copy : conns[c].copy[dir] = "done") =>
            conns[c].in = "closed" /\ conns[c].out = "closed"

\* A loop that has the balancer to itself refuses a client only if none of
\* the service's backends is up, as long as there are no more of them than
\* dial attempts: the attempts of one tryConnect see every endpoint.
RefusedOnlyIfAllDown ==
    \A c \in Clients :
        conns[c].in = "refused" /\ services[svcPort] # None =>
            \A a \in Range(services[svcPort].endpoints) : a[1] \notin up

\* "When Close() is called, no new connections are allowed but existing
\* connections are left untouched" (utils.go:17): stopping a portal changes
\* no connection that was accepted before.
StopLeavesConnections ==
    [][\A c \in Clients :
        /\ \E l \in Loops : loops[l].open /\ ~loops'[l].open
        /\ conns[c].in # "queued"
        => conns'[c] = conns[c]]_vars

\* Every queued client is connected to a backend or told that it cannot be.
ClientsAnswered ==
    \A c \in Clients :
        conns[c].in = "queued" ~> conns[c].out # "none" \/ conns[c].in \in {"refused", "reset"}

\* When one peer ends, the whole connection ends.
ConnectionsEnd ==
    \A c \in Clients : (conns[c].in = "eof" \/ conns[c].out = "eof") ~> Over(c)

\* The loop of a stopped portal ends.
StoppedLoopsEnd == \A l \in Loops : ~loops[l].alive ~> loops[l].pc = "done"
=============================================================================
