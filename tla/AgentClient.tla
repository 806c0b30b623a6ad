----------------------------- MODULE AgentClient -----------------------------
(***************************************************************************)
(* The resident agent and the service it drives: AgentVpnClient with the   *)
(* transient lease, the queued connection, the operation whose completion  *)
(* may be unknown and the recovery reads, over a bus, and of the backend   *)
(* what answers it (lifetime, dbus_service).                               *)
(*                                                                         *)
(* The agent never waits: every handler sends calls and goes on, and any   *)
(* of them may be answered late, time out although it is carried out, or   *)
(* be answered by a process that is gone.                                  *)
(*                                                                         *)
(* Simplifications:                                                        *)
(*  - a reply whose service, lease or operation generation is out of date  *)
(*    is discarded by its handler: here the call is no longer waited for;  *)
(*  - the reconnection preference does not change and the service proves   *)
(*    its identity;                                                        *)
(*  - of a snapshot: ready, busy, connected, signed in, and whether the    *)
(*    agent understands its version;                                       *)
(*  - one agent is the only frontend.                                      *)
(***************************************************************************)
EXTENDS Integers, Sequences, FiniteSets, AgentLease

CONSTANTS
    MaxRequests,    \* bound of the model: what the user asks for
    MaxTimeouts,    \* bound of the model: replies the bus gives up on
    MaxProcesses,   \* bound of the model: processes of the service
    MaxInbox        \* bound of the model: the service goes on once the agent has read

ASSUME AgentAssumption == {MaxRequests, MaxTimeouts, MaxProcesses, MaxInbox} \subseteq Nat

VARIABLES
    toAgent,        \* what the bus brings to the agent
    requests,       \* requests of the user so far
    timeouts        \* and replies the bus gave up on

vars == <<agent, backend, toAgent, requests, timeouts>>

OperationKinds == {"connect", "disconnect"}
NoLease == [pending |-> FALSE, active |-> FALSE, mayExist |-> FALSE, same |-> FALSE]
NoView == [ready |-> FALSE, busy |-> FALSE, up |-> FALSE, in |-> FALSE, understood |-> TRUE]
NewAgent == [at |-> "none", process |-> 0, healthy |-> FALSE, view |-> NoView,
             applied |-> "no", lease |-> NoLease, intent |-> "none", phase |-> "idle",
             waiting |-> {}, out |-> <<>>, timer |-> FALSE, tries |-> 0]

\* At most one of what stands in the way of a connection: not ready, signed out,
\* or of a version the agent does not understand.
Started(process) ==
    {b \in [process : {process}, alive : {TRUE}, ready : BOOLEAN, in : BOOLEAN,
            understood : BOOLEAN, up : {FALSE}, held : {FALSE}, generation : {0}, jobs : {{}}] :
         \/ b.ready /\ (b.in \/ b.understood)
         \/ b.in /\ b.understood}

Init ==
    /\ agent = NewAgent /\ requests = 0 /\ timeouts = 0
    /\ \/ backend = [CHOOSE b \in Started(0) : TRUE EXCEPT !.alive = FALSE] /\ toAgent = <<>>
       \/ backend \in Started(1) /\ toAgent = <<[kind |-> "found", id |-> 1]>>

-----------------------------------------------------------------------------
(* What the handlers of the agent are made of: each takes the agent and    *)
(* returns it.                                                             *)

UsedIds(a) ==
    {c.id : c \in a.waiting \cup backend.jobs}
    \cup {a.out[i].id : i \in DOMAIN a.out} \cup {toAgent[i].id : i \in DOMAIN toAgent}

\* The bus gives every call a serial of its own; here it is used again once
\* nothing under way has it.
NewId(a) == CHOOSE i \in 1 .. Cardinality(UsedIds(a)) + 1 : i \notin UsedIds(a)

Send(a, kind) ==
    LET call == [kind |-> kind, id |-> NewId(a)]
    IN [a EXCEPT !.out = Append(@, call), !.waiting = @ \cup {call}]

Forget(a, kinds) == [a EXCEPT !.waiting = {c \in @ : c.kind \notin kinds}]

\* clearPendingConnection: an intent of its own.
Clear(a) == [a EXCEPT !.intent = "none", !.lease.same = FALSE]

\* Mutant: the reply of a registration that was withdrawn is still waited for.
ReleaseOnly(a) ==
    IF a.lease.mayExist
    THEN [a EXCEPT !.lease = NoLease,
              !.out = IF a.at = "available" THEN Append(@, [kind |-> "unregister", id |-> 0]) ELSE @]
    ELSE a

\* releaseTransientLease: nobody waits for the registration, nor for its end.
Release(a) ==
    IF a.lease.mayExist
    THEN [Forget(a, {"register"}) EXCEPT !.lease = NoLease,
              !.out = IF a.at = "available" THEN Append(@, [kind |-> "unregister", id |-> 0]) ELSE @]
    ELSE a

Acquire(a) ==
    IF a.at # "available" \/ a.lease.pending \/ a.lease.active THEN a
    ELSE [Send(a, "register") EXCEPT
              !.lease = [pending |-> TRUE, active |-> FALSE, mayExist |-> TRUE, same |-> TRUE]]

ApplyPreference(a) ==
    IF a.at # "available" \/ a.applied = "pending" THEN a
    ELSE [Send(a, "prefer") EXCEPT !.applied = "pending"]

Authorize(a) ==
    IF a.at # "idle" THEN a ELSE [Send(a, "authorize") EXCEPT !.at = "authorizing"]

RequestSnapshot(a) == IF a.at = "available" THEN Send(a, "snapshot") ELSE Authorize(a)

\* A new generation of operations: the earlier ones and their reads are outdated.
CallOperation(a, kind) ==
    [Send(Forget(a, OperationKinds \cup {"snapshot"}), kind) EXCEPT
         !.phase = "awaiting", !.view.busy = TRUE]

DispatchPending(a) ==
    IF \/ a.intent = "none" \/ a.at # "available" \/ ~a.healthy \/ ~a.view.ready
       \/ ~a.lease.active \/ a.applied # "yes" \/ a.view.busy
    THEN a
    ELSE IF ~a.view.in \/ (a.intent = "auto" /\ a.view.up)
         THEN Release(Clear(a))
         ELSE CallOperation(Clear(a), "connect")

ScheduleRead(a) ==
    IF a.at \in {"none", "identity", "rejected"} \/ a.timer \/ a.tries = 3 THEN a
    ELSE [a EXCEPT !.timer = TRUE, !.tries = @ + 1]

AcquireForIntent(a) == IF a.intent = "none" THEN a ELSE Acquire(a)

\* Dispatch may begin a successor; only the generation that waited for this
\* reading gives its lease back.
ApplySnapshot(a, view) ==
    IF ~view.understood THEN Release(Clear([a EXCEPT !.healthy = FALSE]))
    ELSE LET read == [a EXCEPT !.healthy = TRUE, !.view = view,
                          !.timer = @ /\ a.at # "available",
                          !.tries = IF a.at = "available" THEN 0 ELSE @]
             next == DispatchPending(read)
         IN IF next.phase = "reconciling" /\ view.ready /\ ~next.view.busy /\ next.intent = "none"
            THEN Release([next EXCEPT !.phase = "idle"])
            ELSE next

\* A call reaches the process it is sent to at once; its answer takes its time.
InTransit == agent.out # <<>> /\ backend.alive /\ agent.process = backend.process

-----------------------------------------------------------------------------
(* The user. *)

\* queueConnection, connectGroup
QueueConnection(intent) ==
    /\ ~InTransit /\ requests < MaxRequests /\ requests' = requests + 1
    /\ LET asked == [agent EXCEPT !.intent = intent, !.lease.same = FALSE]
           sure == Acquire(asked)
       IN agent' = IF agent.at # "available" \/ ~agent.healthy
                   THEN RequestSnapshot([asked EXCEPT !.tries = 0])
                   ELSE DispatchPending(
                            IF sure.applied = "yes" THEN sure ELSE ApplyPreference(sure))
    /\ UNCHANGED <<backend, toAgent, timeouts>>

Disconnect ==
    /\ ~InTransit /\ requests < MaxRequests /\ requests' = requests + 1
    /\ agent' = IF /\ agent.at = "available" /\ agent.healthy /\ agent.view.ready
                   /\ agent.view.up \/ agent.view.busy
                THEN CallOperation(Clear(agent), "disconnect")
                ELSE Release(Clear(agent))
    /\ UNCHANGED <<backend, toAgent, timeouts>>

-----------------------------------------------------------------------------
(* Replies.  An outcome is "ok", "refused", or "unknown" when the service   *)
(* may still carry the call out.                                           *)

OnAuthorize(a, outcome) ==
    CASE outcome = "ok" ->
             AcquireForIntent(RequestSnapshot(ApplyPreference([a EXCEPT !.at = "available"])))
      [] outcome = "refused" -> [a EXCEPT !.at = "rejected"]
      [] OTHER -> ScheduleRead([a EXCEPT !.at = "idle"])

OnPreference(a, outcome) ==
    IF outcome = "ok" THEN DispatchPending([a EXCEPT !.applied = "yes"])
    ELSE Release(Clear([a EXCEPT !.applied = "no"]))

\* A reply serves a newer request too, or gives back the lease nobody wants.
OnRegister(a, outcome) ==
    LET done == [a EXCEPT !.lease.pending = FALSE, !.lease.active = (outcome = "ok")]
    IN IF outcome = "ok"
       THEN IF ~a.lease.same /\ a.intent = "none" THEN Release(done) ELSE DispatchPending(done)
       ELSE IF a.lease.same THEN Release(Clear(done)) ELSE AcquireForIntent(Release(done))

OnSnapshot(a, outcome, view) ==
    IF outcome = "ok" THEN ApplySnapshot(AcquireForIntent(a), view)
    ELSE LET failed == [a EXCEPT !.healthy = FALSE, !.view.busy = FALSE, !.phase = "idle"]
         IN Release(Clear(IF outcome = "unknown" THEN ScheduleRead(failed) ELSE failed))

Reconcile(a) == [a EXCEPT !.phase = IF @ = "idle" THEN @ ELSE "reconciling"]

\* Mutant: nothing is read after an operation that may still complete.
OnOperationUnread(a, outcome) ==
    CASE outcome = "ok" -> RequestSnapshot(Reconcile(a))
      [] outcome = "unknown" -> [Reconcile(a) EXCEPT !.view.busy = TRUE]
      [] OTHER ->
             LET ended == [a EXCEPT !.phase = "idle", !.view.busy = FALSE]
             IN IF a.intent # "none" THEN RequestSnapshot(ended) ELSE Release(ended)

OnOperation(a, outcome) ==
    CASE outcome = "ok" -> RequestSnapshot(Reconcile(a))
      [] outcome = "unknown" -> RequestSnapshot([Reconcile(a) EXCEPT !.view.busy = TRUE])
      [] OTHER ->
             LET ended == [a EXCEPT !.phase = "idle", !.view.busy = FALSE]
             IN IF a.intent # "none" THEN RequestSnapshot(ended) ELSE Release(ended)

Finished(a, call, outcome, view) ==
    LET rest == [a EXCEPT !.waiting = @ \ {call}]
    IN CASE call.kind = "authorize" -> OnAuthorize(rest, outcome)
         [] call.kind = "prefer" -> OnPreference(rest, outcome)
         [] call.kind = "register" -> OnRegister(rest, outcome)
         [] call.kind = "snapshot" -> OnSnapshot(rest, outcome, view)
         [] OTHER -> OnOperation(rest, outcome)

Message == Head(toAgent)

TakeReply ==
    /\ ~InTransit /\ toAgent # <<>> /\ Message.kind = "reply"
    /\ agent' = IF \E call \in agent.waiting : call.id = Message.id
                THEN Finished(agent, CHOOSE call \in agent.waiting : call.id = Message.id,
                              Message.outcome, Message.view)
                ELSE agent
    /\ toAgent' = Tail(toAgent)
    /\ UNCHANGED <<backend, requests, timeouts>>

\* The bus gives up on a reply: five seconds, two minutes for an operation.
TimeOut(call) ==
    /\ ~InTransit /\ call \in agent.waiting
    /\ timeouts < MaxTimeouts /\ timeouts' = timeouts + 1
    /\ agent' = Finished(agent, call, "unknown", NoView)
    /\ UNCHANGED <<backend, toAgent, requests>>

\* SnapshotChanged of the process the agent is bound to.
TakeSignal ==
    /\ ~InTransit /\ toAgent # <<>> /\ Message.kind = "signal"
    /\ agent' = IF agent.at \in {"none", "identity"} \/ Message.id # -agent.process
                THEN agent ELSE ApplySnapshot(agent, Message.view)
    /\ toAgent' = Tail(toAgent)
    /\ UNCHANGED <<backend, requests, timeouts>>

\* onServiceRegistered, onServiceUnregistered: nothing of the process before counts.
TakeOwner ==
    /\ ~InTransit /\ toAgent # <<>> /\ Message.kind \in {"found", "lost"}
    /\ LET fresh == [NewAgent EXCEPT !.intent = agent.intent]
       IN agent' = IF Message.kind = "lost" THEN fresh
                   ELSE [fresh EXCEPT !.at = "identity", !.process = Message.id,
                                      !.view = agent.view]
    /\ toAgent' = Tail(toAgent)
    /\ UNCHANGED <<backend, requests, timeouts>>

VerifyIdentity ==
    /\ ~InTransit /\ agent.at = "identity"
    /\ agent' = Authorize([agent EXCEPT !.at = "idle"])
    /\ UNCHANGED <<backend, toAgent, requests, timeouts>>

RecoveryRead ==
    /\ ~InTransit /\ agent.timer
    /\ agent' = RequestSnapshot([agent EXCEPT !.timer = FALSE])
    /\ UNCHANGED <<backend, toAgent, requests, timeouts>>

-----------------------------------------------------------------------------
(* The service, as the agent meets it. *)

View(b) == [ready |-> b.ready, busy |-> \E job \in b.jobs : job.at = "running",
            up |-> b.up, in |-> b.in, understood |-> b.understood]

Reply(call, outcome) ==
    [kind |-> "reply", id |-> call.id, outcome |-> outcome, view |-> View(backend)]

Heard == Len(toAgent) <= MaxInbox

Probing(b) == {job \in b.jobs : job.at = "probing"}

\* A change of the snapshot is signalled; the answer of the call follows it.
Publish(b, replies) ==
    /\ backend' = b
    /\ toAgent' = toAgent
           \o (IF View(b) = View(backend) THEN <<>>
               ELSE <<[kind |-> "signal", id |-> -b.process, view |-> View(b)]>>)
           \o replies

\* The bus delivers in order.  UnregisterClient and GetSnapshot are carried out
\* with their message; a coroutine starts later.
Receive ==
    /\ InTransit
    /\ agent' = [agent EXCEPT !.out = Tail(@)]
    /\ LET call == Head(agent.out)
       IN CASE call.kind = "unregister" ->
                   Publish([backend EXCEPT !.held = FALSE,
                                !.generation = IF Probing(backend) # {} THEN @ + 1 ELSE 0], <<>>)
            [] call.kind = "snapshot" -> Publish(backend, <<Reply(call, "ok")>>)
            [] OTHER ->
                   Publish([backend EXCEPT !.jobs = @ \cup
                       {[kind |-> call.kind, id |-> call.id, at |-> "queued", seen |-> 0]}], <<>>)
    /\ UNCHANGED <<requests, timeouts>>

\* A registration captures its generation; an operation is refused or begins.
JobBegins(job) ==
    /\ job \in backend.jobs /\ job.at = "queued" /\ backend.alive /\ ~InTransit /\ Heard
    /\ job.kind \notin {"authorize", "prefer"}
    /\ LET others == backend.jobs \ {job}
           begun(at) == [backend EXCEPT !.jobs = others \cup
                            {[job EXCEPT !.at = at, !.seen = backend.generation]}]
       IN CASE job.kind = "register" -> Publish(begun("probing"), <<>>)
            [] OTHER ->
                   IF backend.ready /\ (job.kind = "disconnect"
                                        \/ (backend.in /\ ~View(backend).busy))
                   THEN Publish(begun("running"), <<>>)
                   ELSE Publish([backend EXCEPT !.jobs = others], <<Reply(job, "refused")>>)
    /\ UNCHANGED <<agent, requests, timeouts>>

\* A registration that was overtaken takes no effect, and is answered all the same.
JobEnds(job, outcome) ==
    /\ job \in backend.jobs /\ backend.alive /\ ~InTransit /\ Heard
    /\ job.at # "queued" \/ job.kind \in {"authorize", "prefer"}
    /\ LET rest == [backend EXCEPT !.jobs = @ \ {job}]
       IN CASE job.kind = "register" ->
                   Publish([rest EXCEPT
                       !.held = @ \/ (outcome = "ok" /\ job.seen = backend.generation),
                       !.generation = IF Probing(rest) = {} THEN 0 ELSE @],
                       <<Reply(job, outcome)>>)
            [] job.kind = "disconnect" ->
                   Publish([rest EXCEPT !.up = @ /\ outcome # "ok"], <<Reply(job, outcome)>>)
            [] job.kind = "connect" ->
                   \E up \in {backend.up, outcome = "ok"} :
                       Publish([rest EXCEPT !.up = up], <<Reply(job, outcome)>>)
            [] OTHER -> Publish(rest, <<Reply(job, outcome)>>)
    /\ UNCHANGED <<agent, requests, timeouts>>

BecomesReady ==
    /\ ~InTransit /\ Heard /\ backend.alive /\ ~backend.ready
    /\ Publish([backend EXCEPT !.ready = TRUE], <<>>)
    /\ UNCHANGED <<agent, requests, timeouts>>

\* It crashes, or leaves because it is idle; its name is lost on the bus.
Dies ==
    /\ ~InTransit /\ Heard /\ backend.alive
    /\ backend' = [backend EXCEPT !.alive = FALSE, !.jobs = {}]
    /\ toAgent' = Append(toAgent, [kind |-> "lost", id |-> 0])
    /\ UNCHANGED <<agent, requests, timeouts>>

\* Activated by the agent, or started by somebody else.
Starts ==
    /\ ~backend.alive /\ backend.process < MaxProcesses
    /\ backend' \in Started(backend.process + 1)
    /\ toAgent' = Append(toAgent, [kind |-> "found", id |-> backend.process + 1])
    /\ UNCHANGED <<agent, requests, timeouts>>

-----------------------------------------------------------------------------

Deliver == TakeReply \/ TakeSignal \/ TakeOwner \/ VerifyIdentity
Serve ==
    \/ Receive \/ BecomesReady
    \/ \E job \in backend.jobs : JobBegins(job)
    \/ \E job \in backend.jobs, outcome \in {"ok", "refused"} : JobEnds(job, outcome)

Next ==
    \/ Deliver \/ Serve \/ RecoveryRead \/ Dies \/ Starts
    \/ \E call \in agent.waiting : TimeOut(call)
    \/ \E intent \in {"user", "auto"} : QueueConnection(intent)
    \/ Disconnect

Spec == Init /\ [][Next]_vars

\* The agent's loop, its timer and the bus go on; a process that lives answers.
FairSpec == Spec /\ WF_vars(Deliver) /\ WF_vars(Serve) /\ WF_vars(RecoveryRead)

-----------------------------------------------------------------------------

CallKinds == {"authorize", "prefer", "register", "snapshot"} \cup OperationKinds
Calls == [kind : CallKinds, id : Nat]
Leases == [pending : BOOLEAN, active : BOOLEAN, mayExist : BOOLEAN, same : BOOLEAN]
Views == [ready : BOOLEAN, busy : BOOLEAN, up : BOOLEAN, in : BOOLEAN, understood : BOOLEAN]
Agents == [at : {"none", "identity", "idle", "authorizing", "rejected", "available"},
           process : Nat, healthy : BOOLEAN, view : Views, applied : {"no", "pending", "yes"},
           lease : Leases, intent : {"none", "user", "auto"},
           phase : {"idle", "awaiting", "reconciling"}, waiting : SUBSET Calls,
           out : Seq([kind : CallKinds \cup {"unregister"}, id : Nat]),
           timer : BOOLEAN, tries : 0 .. 3]
Jobs == [kind : CallKinds, id : Nat, at : {"queued", "probing", "running"}, seen : Nat]
Backends == [process : Nat, alive : BOOLEAN, ready : BOOLEAN, in : BOOLEAN,
             understood : BOOLEAN, up : BOOLEAN, held : BOOLEAN, generation : Nat,
             jobs : SUBSET Jobs]
Messages == [kind : {"found", "lost"}, id : Nat]
            \cup [kind : {"signal"}, id : Int, view : Views]
            \cup [kind : {"reply"}, id : Nat, outcome : {"ok", "refused"}, view : Views]

TypeOK ==
    /\ agent \in Agents /\ backend \in Backends /\ toAgent \in Seq(Messages)
    /\ requests \in Nat /\ timeouts \in Nat

\* However calls time out, are refused, or are carried out by a process that
\* dies: the agent does not show an operation for ever, and it does not keep a
\* lease when no connection is queued any more.
AgentSettles ==
    /\ agent.view.busy ~> ~agent.view.busy
    /\ agent.lease.mayExist ~> (~agent.lease.mayExist \/ agent.intent # "none")

================================================================================
