--------------------------- MODULE HostnameRegister ---------------------------
(***************************************************************************)
(* What mdns_hostname_set promises, without the queue, the service task    *)
(* and the semaphore: the hostname is a register.  A call writes its name  *)
(* at one moment between its beginning and its return, it returns only     *)
(* after that moment, and it does return.  A conflict on the network may   *)
(* replace the name by the next one at any time.                           *)
(***************************************************************************)
CONSTANTS Names, NoName, Mangled

VARIABLES
    name,     \* the hostname
    request   \* the call in progress: what it wants, and whether it has it

registerVars == <<name, request>>
NoRequest == [wants |-> NoName, done |-> FALSE]

Init == name = NoName /\ request = NoRequest

Ask(n) ==
    /\ request = NoRequest
    /\ request' = [wants |-> n, done |-> FALSE] /\ UNCHANGED name
Apply ==
    /\ request # NoRequest /\ ~request.done
    /\ name' = request.wants /\ request' = [request EXCEPT !.done = TRUE]
Return ==
    /\ request.done
    /\ request' = NoRequest /\ UNCHANGED name
Conflict ==
    /\ name # NoName
    /\ name' = Mangled[name] /\ UNCHANGED request

Next == (\E n \in Names : Ask(n)) \/ Apply \/ Return \/ Conflict

Spec == Init /\ [][Next]_registerVars /\ WF_registerVars(Apply) /\ WF_registerVars(Return)
=============================================================================
