------------------------- MODULE MCUserspaceProxier -------------------------
(***************************************************************************)
(* Instances of UserspaceProxier.  Each set of service objects is one way  *)
(* in which services change over time.                                     *)
(***************************************************************************)
EXTENDS UserspaceProxier

CONSTANTS a, b,              \* services
          web, dns,          \* port names
          ca, cb, x,         \* cluster IPs of a and b, an external IP
          ip1, ip2           \* endpoint addresses

MCGenerations == 1..2

Port(port, nodePort, protocol) ==
    [port |-> port, nodePort |-> nodePort, protocol |-> protocol]

Service(name, clusterIP, externalIPs, ports) ==
    [name |-> name, clusterIPs |-> <<clusterIP>>, externalIPs |-> externalIPs, ports |-> ports]

MCPorts == {53, 80, 81}

\* Two services of one port each; a gains and loses an external IP and a
\* node port.  No two portals share an address.
OnePort ==
    { Service(a, ca, {}, [p \in {web} |-> Port(80, 0, "TCP")]),
      Service(a, ca, {x}, [p \in {web} |-> Port(80, 30080, "TCP")]),
      Service(b, cb, {}, [p \in {web} |-> Port(80, 30081, "TCP")]) }

\* One service that gains and loses a port and an external IP.
TwoPorts ==
    { Service(a, ca, {}, [p \in {web} |-> Port(80, 0, "TCP")]),
      Service(a, ca, {x}, [p \in {dns} |-> Port(53, 0, "UDP")]),
      Service(a, ca, {}, [p \in {web, dns} |->
          IF p = web THEN Port(80, 0, "TCP") ELSE Port(53, 0, "UDP")]) }

\* One service that exchanges a port for a node port of the other.
PortForNodePort ==
    { Service(a, ca, {}, [p \in {dns} |-> Port(53, 30053, "UDP")]),
      Service(a, ca, {}, [p \in {web, dns} |->
          IF p = web THEN Port(80, 0, "TCP") ELSE Port(53, 0, "UDP")]) }

\* The same service, which may also come without a cluster IP.
TwoPortsOrHeadless == TwoPorts \cup
    { [name |-> a, clusterIPs |-> <<>>, externalIPs |-> {},
       ports |-> [p \in {web} |-> Port(80, 0, "TCP")]] }

\* The service's port is given another number.
Renumbered ==
    { Service(a, ca, {}, [p \in {web} |-> Port(n, 0, "TCP")]) : n \in {80, 81} }

OnlyA == {s \in OnePort : s.name = a}

NoEndpoints == {}
OneEndpoint == {<<ip1>>}
IPv4Endpoints == {<<ip1>>, <<ip2, ip1>>}
DisjointEndpoints == {<<ip1>>, <<ip2>>}
=============================================================================
