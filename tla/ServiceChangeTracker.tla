------------------------ MODULE ServiceChangeTracker ------------------------
(***************************************************************************)
(* The ServiceChangeTracker (pkg/proxy/service.go): the changes of         *)
(* services that have not been applied yet, and the last object of every   *)
(* service.  Update holds the tracker's lock and is one step.              *)
(*                                                                         *)
(* A service object is [name, clusterIP, ports], ports a function from     *)
(* port names to [port, nodePort, protocol].                               *)
(***************************************************************************)
CONSTANTS Names, None,
          makeServiceInfo(_)   \* what the Proxier makes of a BaseServiceInfo

VARIABLES items,               \* name -> [previous, current], or None
          PersistentServices   \* name -> service object, or None

\* Returns "" (None) for every service: the code that looked at the
\* service's addresses is commented out (util/utils.go:355-379).
GetClusterIPByFamily(service) == None

newBaseServiceInfo(port, service) ==
    [clusterIP |-> GetClusterIPByFamily(service), port |-> port.port,
     nodePort |-> port.nodePort, protocol |-> port.protocol]

\* nil (None) for no service and for a service without a cluster IP.
serviceToServiceMap(service) ==
    IF service = None THEN None
    ELSE IF GetClusterIPByFamily(service) = None THEN None
    ELSE [p \in DOMAIN service.ports |->
             makeServiceInfo(newBaseServiceInfo(service.ports[p], service))]

Init ==
    /\ items = [n \in Names |-> None]
    /\ PersistentServices = [n \in Names |-> None]

\* The change of one service since its map was applied, for the object seen
\* before (previous) and the one seen now; None when there is none.
Change(previous, current, name) ==
    LET was == IF items[name] = None THEN serviceToServiceMap(previous)
                                     ELSE items[name].previous
        is == serviceToServiceMap(current)
    IN  IF was = is THEN None ELSE [previous |-> was, current |-> is]

\* <nil, service> adds, <old, service> updates and <service, nil> deletes.
Subject(previous, current) == IF current = None THEN previous ELSE current

UpdatedItems(previous, current) ==
    LET svc == Subject(previous, current)
    IN  IF svc = None THEN items
        ELSE [items EXCEPT ![svc.name] = Change(previous, current, svc.name)]

\* PersistentServices with the service, also with one that is deleted.
Recorded(previous, current) ==
    LET svc == Subject(previous, current)
    IN  IF svc = None THEN PersistentServices
        ELSE [PersistentServices EXCEPT ![svc.name] = svc]

Update(previous, current) ==
    /\ items' = UpdatedItems(previous, current)
    /\ PersistentServices' = Recorded(previous, current)
=============================================================================
