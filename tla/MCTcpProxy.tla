----------------------------- MODULE MCTcpProxy -----------------------------
(***************************************************************************)
(* Instances of TcpProxy: one service port, up to four backends.           *)
(***************************************************************************)
EXTENDS TcpProxy

CONSTANTS svc, web, ip1, ip2, ip3, ip4

MCPorts == {80}

MCService == [name |-> svc, ports |-> [p \in {web} |-> [port |-> 80]]]

MCServices == {MCService}

NoneOrOne == {<<>>, <<ip1>>}
\* As many backends as there are dial attempts, and fewer.
UpToFourBackends == {<<>>, <<ip1, ip2>>, <<ip1, ip2, ip3, ip4>>}
=============================================================================
