-------------------------- MODULE MCLoadBalancerRR --------------------------
(***************************************************************************)
(* One service that is renumbered and grows a second port, and endpoint    *)
(* objects with zero to three addresses (disjoint, overlapping and the     *)
(* same addresses in another order).                                       *)
(***************************************************************************)
EXTENDS LoadBalancerRR

CONSTANTS svc, web, dns, ip1, ip2, ip3

MCPorts == {80, 81}

MCServices ==
    { [name |-> svc, ports |-> [p \in {web} |-> [port |-> 80]]],
      [name |-> svc, ports |-> [p \in {web, dns} |-> [port |-> 81]]] }

MCEndpoints == {<<>>, <<ip1>>, <<ip1, ip2>>, <<ip2, ip1>>, <<ip2, ip3, ip1>>}

(***************************************************************************)
(* Plausible mistakes, for checking that the properties notice them.       *)
(***************************************************************************)
=============================================================================
