------------------------ MODULE MCEndpointSliceCache ------------------------
(***************************************************************************)
(* An instance of EndpointSliceCache: two slices of one service that list  *)
(* the same addresses differently, and a second service.                   *)
(***************************************************************************)
EXTENDS EndpointSliceCache

CONSTANTS svc, other, s1, s2, web, dns, ip1, ip2, v6

Endpoint(address, nodeName, conditions) ==
    [addresses |-> <<address>>, nodeName |-> nodeName, conditions |-> conditions]

Port(name, port) == <<[name |-> name, port |-> port]>>

Slice(service, name, ports, endpoints) ==
    [service |-> service, name |-> name, ports |-> ports, endpoints |-> endpoints]

\* An address moves between s1 and s2, is local in one of them only, is
\* listed in another order or with other conditions, on ports of the same
\* number or out of order; a slice has no usable port, no usable endpoint or
\* no service.
MCSlices ==
    { Slice(svc, s1, Port(web, 80),
            <<Endpoint(ip1, "here", "ready"), Endpoint(ip2, None, "ready")>>),
      Slice(svc, s1, Port(web, 80),
            <<Endpoint(ip2, None, "ready"), Endpoint(ip1, "here", "ready")>>),
      Slice(svc, s1, Port(web, 81) \o Port(dns, 81),
            <<Endpoint(ip2, "there", "terminating")>>),
      Slice(svc, s2, Port(web, 80),
            <<Endpoint(ip1, None, "ready"), Endpoint(v6, None, "ready")>>),
      Slice(svc, s2, Port(dns, 81) \o Port(web, 80),
            <<Endpoint(ip2, None, "terminating"),
              [addresses |-> <<>>, nodeName |-> None, conditions |-> "ready"]>>),
      Slice(other, s1, Port(web, 80), <<Endpoint(ip2, None, "ready")>>),
      Slice(other, s1, Port(web, None), <<Endpoint(ip2, None, "ready")>>),
      Slice(None, s2, <<>>, <<>>) }
=============================================================================
