---------------------------- MODULE LeasePromise ----------------------------
(***************************************************************************)
(* What the backend promises its frontends about leases, without probes,   *)
(* generations, tombstones or idle deadlines: a lease is granted to a      *)
(* request nobody has taken back, it ends when its frontend leaves or is   *)
(* lost, and the service does not stop under a lease or a request.         *)
(***************************************************************************)
CONSTANTS Names, Calls, ClientOf

VARIABLES
    leases,     \* the frontends that hold a lease
    asks,       \* the requests that may still be granted
    lost,       \* the frontends known to be gone from the bus
    stopped     \* the service has decided to exit

vars == <<leases, asks, lost, stopped>>

Init == leases = {} /\ asks = {} /\ lost = {} /\ stopped = FALSE

AsksOf(c) == {k \in asks : ClientOf[k] = c}

Ask(k) ==
    /\ k \notin asks /\ ClientOf[k] \notin lost
    /\ asks' = asks \cup {k}
    /\ UNCHANGED <<leases, lost, stopped>>

Grant(k) ==
    /\ k \in asks
    /\ leases' = leases \cup {ClientOf[k]} /\ asks' = asks \ {k}
    /\ UNCHANGED <<lost, stopped>>

Refuse(k) ==
    /\ k \in asks
    /\ asks' = asks \ {k}
    /\ UNCHANGED <<leases, lost, stopped>>

\* Leaving takes back every request of the frontend along with its lease.
Leave(c) ==
    /\ leases' = leases \ {c} /\ asks' = asks \ AsksOf(c)
    /\ UNCHANGED <<lost, stopped>>

Lose(c) ==
    /\ c \notin lost
    /\ lost' = lost \cup {c}
    /\ leases' = leases \ {c} /\ asks' = asks \ AsksOf(c)
    /\ UNCHANGED stopped

Stop ==
    /\ ~stopped /\ leases = {} /\ asks = {}
    /\ stopped' = TRUE
    /\ UNCHANGED <<leases, asks, lost>>

Next ==
    \/ \E k \in Calls : Ask(k) \/ Grant(k) \/ Refuse(k)
    \/ \E c \in Names : Leave(c) \/ Lose(c)
    \/ Stop

Spec == Init /\ [][Next]_vars
=============================================================================
