----------------------------- MODULE AgentLease -----------------------------
(***************************************************************************)
(* The transient lease as the resident agent and the service each know it. *)
(* AgentClient says how the two sides move.                                *)
(***************************************************************************)

VARIABLES
    agent,          \* AgentVpnClient
    backend         \* the newest process of the service

\* A lease the agent counts on, to queue a connection behind it, is one that its
\* service holds: neither the reply of a registration it has withdrawn nor that
\* of an earlier process is taken for the answer to the present one.
LeaseIsHeld ==
    agent.lease.active /\ backend.alive /\ agent.process = backend.process => backend.held

================================================================================
