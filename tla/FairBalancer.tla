---------------------------- MODULE FairBalancer ----------------------------
(***************************************************************************)
(* What a load balancer owes the proxy loops, without an order or an       *)
(* index: for every service port a pool of addresses and the part of it    *)
(* that the current round has not returned yet.                            *)
(***************************************************************************)
CONSTANTS Names, PortNames, None

VARIABLES pool,       \* service port -> set of addresses, or None
          remaining,  \* service port -> addresses still due in this round
          reply       \* the last answer

fairVars == <<pool, remaining, reply>>

ServiceKeys == Names \X PortNames

Init ==
    /\ pool = [sp \in ServiceKeys |-> None]
    /\ remaining = [sp \in ServiceKeys |-> {}]
    /\ reply = None

\* The API changed the pools; a port whose round is touched starts afresh.
Reconfigure ==
    /\ \A sp \in ServiceKeys :
          \/ pool'[sp] = pool[sp] /\ remaining'[sp] = remaining[sp]
          \/ remaining'[sp] = IF pool'[sp] = None THEN {} ELSE pool'[sp]
    /\ UNCHANGED reply

\* Any address still due may be returned; the last one opens a new round.
Serve(sp) ==
    \E e \in remaining[sp] :
        /\ reply' = [svcPort |-> sp, endpoint |-> e, err |-> "nil"]
        /\ remaining' = [remaining EXCEPT ![sp] =
                            IF remaining[sp] = {e} THEN pool[sp] ELSE remaining[sp] \ {e}]
        /\ UNCHANGED pool

\* An error says exactly why nothing can be returned.
Refuse(sp) ==
    /\ \/ /\ pool[sp] = None
          /\ reply' = [svcPort |-> sp, endpoint |-> None, err |-> "missing service entry"]
       \/ /\ pool[sp] = {}
          /\ reply' = [svcPort |-> sp, endpoint |-> None, err |-> "missing endpoints"]
    /\ UNCHANGED <<pool, remaining>>

Next == Reconfigure \/ \E sp \in ServiceKeys : Serve(sp) \/ Refuse(sp)

Spec == Init /\ [][Next]_fairVars
=============================================================================
