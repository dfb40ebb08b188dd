------------------------- MODULE MCWinkernelProxier -------------------------
(***************************************************************************)
(* Instances of WinkernelProxier.                                          *)
(***************************************************************************)
EXTENDS WinkernelProxier, Sequences

CONSTANTS a, b,        \* two ports of a service
          va,          \* its cluster IP
          ip1, ip2,    \* addresses of pods
          over, l2     \* an overlay network and another one

MCRemoteIds == [ip : {ip1}, n : 1..2] \cup [ip : {va}, n : {1}]
TwoAddressesRemoteIds == MCRemoteIds \cup [ip : {ip2}, n : {1}]

MCLocalIds == {[ip |-> None, n |-> 1]}

\* Neither of the two ports has a node port.
MCBaseInfos ==
    { [name |-> a, clusterIP |-> va, port |-> 80, nodePort |-> 0, protocol |-> "TCP"],
      [name |-> b, clusterIP |-> va, port |-> 443, nodePort |-> 0, protocol |-> "TCP"] }
MCPolicyIds == [port : {80, 443}, n : {1}]

\* Both may use the same address, each comes and goes on its own.
MCEndpoints == [name : {a, b}, ips : {{}, {ip1}}]

\* One port with a node port, and two addresses.
NodePortBaseInfos ==
    {[name |-> a, clusterIP |-> va, port |-> 80, nodePort |-> 30080, protocol |-> "TCP"]}
NodePortPolicyIds == [port : {80}, n : {1, 2}] \cup [port : {30080}, n : {1}]
TwoEndpoints == [name : {a}, ips : {{}, {ip1, ip2}}]

\* A pod on the overlay network, with the address as its second one.
MCCniEndpoints == {[ips |-> <<ip2, ip1>>, network |-> over]}

MCServices ==
    { [name |-> a, clusterIP |-> va,
       ports |-> [p \in {"web"} |-> [port |-> 80, nodePort |-> 0, protocol |-> "TCP"]]] }
=============================================================================
