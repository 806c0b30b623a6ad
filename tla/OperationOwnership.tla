------------------------- MODULE OperationOwnership -------------------------
(***************************************************************************)
(* What BackendController promises its callers and the adapter, without    *)
(* locks, queues, tasks or deadlines: one owner at a time of the ordinary  *)
(* mutations, risk-reducing cleanups that go ahead of the mutations that   *)
(* have not started, and a teardown that begins when nobody is inside.     *)
(***************************************************************************)
EXTENDS Naturals

CONSTANTS Requests, Class, NoOne, Kinds

VARIABLES
    owner,      \* the mutation that owns the VPN, or NoOne
    pending,    \* the kinds of cleanup accepted and not finished
    calling,    \* those of them the adapter is executing
    admitting,  \* whether new work is accepted
    shut        \* whether the adapter is being or has been torn down

vars == <<owner, pending, calling, admitting, shut>>

Init ==
    /\ owner = NoOne /\ pending = {} /\ calling = {}
    /\ admitting = TRUE /\ shut = FALSE

\* A mutation starts alone and behind every accepted cleanup.
Begin(r) ==
    /\ owner = NoOne /\ pending = {} /\ admitting
    /\ owner' = r
    /\ UNCHANGED <<pending, calling, admitting, shut>>

End ==
    /\ owner # NoOne
    /\ owner' = NoOne
    /\ UNCHANGED <<pending, calling, admitting, shut>>

Accept(k) ==
    /\ admitting /\ k \notin pending
    /\ pending' = pending \cup {k}
    /\ UNCHANGED <<owner, calling, admitting, shut>>

\* The mutations a cleanup may run beside.
MayRunBeside(k) ==
    \/ owner = NoOne
    \/ IF k = "disconnect" THEN Class[owner] = "connect"
                           ELSE Class[owner] # "capture-start"

Call(k) ==
    /\ k \in pending /\ calling = {} /\ ~shut
    /\ MayRunBeside(k)
    /\ calling' = {k}
    /\ UNCHANGED <<owner, pending, admitting, shut>>

Return(k) ==
    /\ k \in calling
    /\ calling' = {}
    /\ UNCHANGED <<owner, pending, admitting, shut>>

Retire(k) ==
    /\ k \in pending \ calling
    /\ pending' = pending \ {k}
    /\ UNCHANGED <<owner, calling, admitting, shut>>

StopAdmitting ==
    /\ admitting' = FALSE
    /\ UNCHANGED <<owner, pending, calling, shut>>

Shut ==
    /\ ~admitting /\ ~shut /\ owner = NoOne /\ calling = {}
    /\ shut' = TRUE
    /\ UNCHANGED <<owner, pending, calling, admitting>>

\* The teardown ran out of time and was given up.
Abandon ==
    /\ shut
    /\ shut' = FALSE
    /\ UNCHANGED <<owner, pending, calling, admitting>>

\* The process ends in the middle of a call that cannot be confirmed.
Exit ==
    /\ owner # NoOne \/ calling # {}
    /\ owner' = NoOne /\ pending' = {} /\ calling' = {}
    /\ admitting' = FALSE /\ shut' = FALSE

Next ==
    \/ \E r \in Requests : Begin(r)
    \/ End
    \/ \E k \in Kinds : Accept(k) \/ Call(k) \/ Return(k) \/ Retire(k)
    \/ StopAdmitting \/ Shut \/ Abandon \/ Exit

Spec == Init /\ [][Next]_vars
=============================================================================
