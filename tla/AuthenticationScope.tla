-------------------------- MODULE AuthenticationScope --------------------------
(***************************************************************************)
(* Who waits for whom around the authentication scope of the adapter: the  *)
(* security key (fido_interaction, begin_fido2), whose operation holds the *)
(* scope while a thread of Core waits for a user; the notices of Core's    *)
(* refreshers (refresher_events), whose one worker wants the scope; a read *)
(* that finds the session expired; sign-out; and the shutdown of the       *)
(* adapter, which joins them all.  task_scope and async_utils are the      *)
(* rules these tasks follow: a scope belongs to a task and the children it *)
(* delegates to, and accepted work is joined, never abandoned.             *)
(*                                                                         *)
(* Simplifications:                                                        *)
(*  - what the operations do to the session on disk is AccountTransition;  *)
(*    here a sign-in, a sign-out and an expiry only move the session of    *)
(*    this process;                                                        *)
(*  - the controller runs one operation at a time, and its shutdown has    *)
(*    drained operations and reads before it closes the adapter            *)
(*    (CloseIsLast of Controller);                                         *)
(*  - deadlines are left out: they end the process, and without them every *)
(*    wait must end by itself;                                             *)
(*  - Core posts the end of an assertion after what its prompts posted;    *)
(*  - password sign-in is over: the process starts with its second factor  *)
(*    pending, or signed in.                                               *)
(***************************************************************************)
EXTENDS Sequences, Naturals

CONSTANT MaxPrompts     \* bound of the model: prompts of one assertion

ASSUME PromptsAssumption == MaxPrompts \in Nat

VARIABLES
    scope,      \* the task that owns the authentication scope
    op,         \* the controller's operation, and whether it is cancelled
    child,      \* _authenticate_fido2, the delegated child of a security key operation
    key,        \* the FidoInteraction and Core's thread in it
    posts,      \* status callbacks the thread has handed to the loop
    auth,       \* _auth_state
    session,    \* signed in, restart required, services once started, updates
                \* degraded, the epoch, and the generation and epoch Core's
                \* callback is bound to
    relay,      \* RefresherFailureRelay
    read,       \* an account read that failed, with its epoch
    closing,    \* the shutdown
    signedOut   \* ghost: a sign-out has ended

fidoVars == <<child, key, posts>>
vars == <<scope, op, fidoVars, auth, session, relay, read, closing, signedOut>>

Prompts == {"fido_waiting", "fido_touch", "fido_pin"}
NoInteraction == [live |-> FALSE, cancelled |-> FALSE, woken |-> FALSE, event |-> "none",
                  thread |-> "none", result |-> "none", prompts |-> 0]
NoNotice == [kind |-> "none", epoch |-> 0, generation |-> 0]
NoOp == [kind |-> "none", at |-> "none", cancelled |-> FALSE]
NoRead == [at |-> "none", epoch |-> 0]

Init ==
    /\ scope = "free" /\ op = NoOp /\ child = "none" /\ key = NoInteraction /\ posts = <<>>
    /\ \/ /\ auth = "two_factor"
          /\ session = [on |-> FALSE, leaving |-> FALSE, started |-> FALSE, degraded |-> FALSE,
                        epoch |-> 1, bound |-> 0, boundEpoch |-> 0]
       \/ /\ auth = "signed_in"
          /\ session = [on |-> TRUE, leaving |-> FALSE, started |-> TRUE, degraded |-> FALSE,
                        epoch |-> 1, bound |-> 1, boundEpoch |-> 1]
    /\ relay = [generation |-> session.bound, closed |-> FALSE, pending |-> NoNotice,
                worker |-> "none", taken |-> NoNotice]
    /\ read = NoRead /\ closing = "no" /\ signedOut = FALSE

Invalidated(r) == [r EXCEPT !.generation = @ + 1, !.pending = NoNotice]

-----------------------------------------------------------------------------
(* A security key: the operation, its child and the prompt thread. *)

\* The controller's _require_ready: what is published asks for no recovery.
Ready == auth \notin {"expired", "authentication_unknown"} /\ ~session.leaving

BeginFido ==
    /\ op = NoOp /\ closing = "no" /\ Ready
    /\ op' = [NoOp EXCEPT !.kind = "fido", !.at = "queued"]
    /\ UNCHANGED <<scope, fidoVars, auth, session, relay, read, closing, signedOut>>

\* Inside the scope the state is looked at again, and the child gets the scope.
FidoEnters ==
    /\ op.kind = "fido" /\ op.at = "queued" /\ ~op.cancelled /\ scope = "free"
    /\ IF auth \notin {"two_factor", "fido_error"}
       THEN op' = NoOp /\ UNCHANGED <<scope, child, key, auth>>
       ELSE /\ scope' = "fido" /\ op' = [op EXCEPT !.at = "inside"]
            /\ child' = "starting" /\ auth' = "fido_waiting"
            /\ key' = [NoInteraction EXCEPT !.live = TRUE]
    /\ UNCHANGED <<posts, session, relay, read, closing, signedOut>>

\* The task of the operation is cancelled; a sign-out that has begun shields itself.
CancelOperation ==
    /\ op # NoOp /\ ~op.cancelled /\ (op.kind = "fido" \/ op.at = "queued")
    /\ op' = [op EXCEPT !.cancelled = TRUE]
    /\ UNCHANGED <<scope, fidoVars, auth, session, relay, read, closing, signedOut>>

\* Cancelled while it waits for the scope, it never enters.
Withdraw ==
    /\ op.at = "queued" /\ op.cancelled
    /\ op' = NoOp
    /\ UNCHANGED <<scope, fidoVars, auth, session, relay, read, closing, signedOut>>

\* cancel(): the flag first, the waiting prompt after it.  Asked by the user, or
\* by the join of a cancelled operation.
CancelKey ==
    /\ key.live /\ ~key.cancelled
    /\ key' = [key EXCEPT !.cancelled = TRUE]
    /\ UNCHANGED <<scope, op, child, posts, auth, session, relay, read, closing, signedOut>>

WakePrompt ==
    /\ key.live /\ key.cancelled /\ ~key.woken
    /\ key' = [key EXCEPT !.woken = TRUE, !.event = IF @ = "none" THEN @ ELSE "set"]
    /\ UNCHANGED <<scope, op, child, posts, auth, session, relay, read, closing, signedOut>>

SubmitPin ==
    /\ key.live /\ key.event # "none"
    /\ key' = [key EXCEPT !.event = "set"] /\ auth' = "fido_waiting"
    /\ UNCHANGED <<scope, op, child, posts, session, relay, read, closing, signedOut>>

\* Core's thread shows a prompt, or is about to ask for the PIN.
Prompt ==
    /\ key.thread = "working" /\ key.prompts < MaxPrompts
    /\ \/ key' = [key EXCEPT !.prompts = @ + 1] /\ posts' = Append(posts, "fido_touch")
       \/ key' = [key EXCEPT !.prompts = @ + 1, !.thread = "asking"] /\ UNCHANGED posts
    /\ UNCHANGED <<scope, op, child, auth, session, relay, read, closing, signedOut>>

\* Mutant: the flag was looked at before the lock was taken.
RequestPinLate ==
    /\ key.thread = "asking"
    /\ key' = [key EXCEPT !.thread = "waiting", !.event = "unset"]
    /\ posts' = Append(posts, "fido_pin")
    /\ UNCHANGED <<scope, op, child, auth, session, relay, read, closing, signedOut>>

\* request_pin under its lock: refused after a cancellation, or an event to wait for.
RequestPin ==
    /\ key.thread = "asking"
    /\ IF key.cancelled
       THEN key' = [key EXCEPT !.thread = "working"] /\ UNCHANGED posts
       ELSE /\ key' = [key EXCEPT !.thread = "waiting", !.event = "unset"]
            /\ posts' = Append(posts, "fido_pin")
    /\ UNCHANGED <<scope, op, child, auth, session, relay, read, closing, signedOut>>

PinArrives ==
    /\ key.thread = "waiting" /\ key.event = "set"
    /\ key' = [key EXCEPT !.thread = "working", !.event = "none"]
    /\ UNCHANGED <<scope, op, child, posts, auth, session, relay, read, closing, signedOut>>

AssertionEnds ==
    /\ key.thread = "working"
    /\ \E result \in {"assertion", "error"} :
           key' = [key EXCEPT !.thread = "returned", !.result = result]
    /\ UNCHANGED <<scope, op, child, posts, auth, session, relay, read, closing, signedOut>>

DeliverStatus ==
    /\ posts # <<>>
    /\ auth' = Head(posts) /\ posts' = Tail(posts)
    /\ UNCHANGED <<scope, op, child, key, session, relay, read, closing, signedOut>>

ChildStarts ==
    /\ child = "starting"
    /\ IF key.cancelled
       THEN child' = "done" /\ auth' = "two_factor" /\ UNCHANGED key
       ELSE child' = "assertion" /\ key' = [key EXCEPT !.thread = "working"] /\ UNCHANGED auth
    /\ UNCHANGED <<scope, op, posts, session, relay, read, closing, signedOut>>

AssertionArrives ==
    /\ child = "assertion" /\ key.thread = "returned" /\ posts = <<>>
    /\ IF key.cancelled
       THEN child' = "done" /\ auth' = "two_factor"
       ELSE IF key.result = "error"
            THEN child' = "done" /\ auth' = "fido_error"
            ELSE child' = "submitting" /\ UNCHANGED auth
    /\ UNCHANGED <<scope, op, key, posts, session, relay, read, closing, signedOut>>

\* The services start, and Core's callback is bound to a new generation.
ServicesStart ==
    /\ relay' = Invalidated(relay)
    /\ session' = [session EXCEPT !.on = TRUE, !.started = TRUE,
                       !.boundEpoch = session.epoch, !.bound = relay'.generation]

\* They fail after they were begun: the refresher is told to stop again.
ServicesFail(on, leaving) ==
    /\ relay' = Invalidated(Invalidated(relay))
    /\ session' = [session EXCEPT !.on = on, !.leaving = leaving, !.started = TRUE,
                       !.boundEpoch = session.epoch, !.bound = relay.generation + 1]

\* Core refuses the assertion, or accepts it and the services start.  They may
\* fail: after an answer that was lost Core stays signed in; else the sign-in is
\* recorded and rolled back as far as Core lets it.  When the record cannot be
\* written either, the operation ends there and the last prompt stays shown.
SubmitAssertion ==
    /\ child = "submitting" /\ child' = "done"
    /\ \/ auth' = "signed_in" /\ ServicesStart
       \/ auth' \in {"fido_error", "authentication_unknown"} /\ UNCHANGED <<relay, session>>
       \/ auth' = "signed_in_degraded" /\ \E recorded \in BOOLEAN : ServicesFail(TRUE, recorded)
       \/ auth' \in {"signed_out", "authentication_unknown"} /\ ServicesFail(FALSE, TRUE)
       \/ auth' = auth /\ ServicesFail(FALSE, FALSE)
    /\ UNCHANGED <<scope, op, key, posts, read, closing, signedOut>>

\* join_owned: the operation ends after its child, cancelled or not.
FidoLeaves ==
    /\ op.kind = "fido" /\ op.at = "inside" /\ child = "done"
    /\ scope' = "free" /\ op' = NoOp /\ child' = "none" /\ key' = NoInteraction
    /\ UNCHANGED <<posts, auth, session, relay, read, closing, signedOut>>

-----------------------------------------------------------------------------
(* The notices of Core's refreshers. *)

\* The callback Core holds still leads to the relay.
CallbackLeads == session.bound # 0 /\ session.bound = relay.generation /\ ~relay.closed

\* One notice is kept, and the end of the session replaces any other.
Report(kind) ==
    /\ CallbackLeads
    /\ LET notice == [kind |-> kind, epoch |-> session.boundEpoch, generation |-> session.bound]
       IN relay' = [relay EXCEPT
              !.pending = IF @ = NoNotice \/ kind = "authentication" THEN notice ELSE @,
              !.worker = IF @ = "none" THEN "ready" ELSE @]
    /\ UNCHANGED <<scope, op, fidoVars, auth, session, read, closing, signedOut>>

Current(notice) ==
    /\ ~relay.closed /\ notice.generation = relay.generation
    /\ notice.epoch = session.epoch /\ session.on /\ ~session.leaving

\* _drain takes the notice, or returns.
WorkerTakes ==
    /\ relay.worker = "ready"
    /\ relay' = IF relay.pending = NoNotice
                THEN [relay EXCEPT !.worker = "ended", !.taken = NoNotice]
                ELSE [relay EXCEPT !.pending = NoNotice, !.taken = relay.pending,
                                   !.worker = "handling"]
    /\ UNCHANGED <<scope, op, fidoVars, auth, session, read, closing, signedOut>>

\* Mutant: the done callback gives the place back and looks no further.
FinishedForgetting ==
    /\ relay.worker = "ended"
    /\ relay' = [relay EXCEPT !.worker = "none"]
    /\ UNCHANGED <<scope, op, fidoVars, auth, session, read, closing, signedOut>>

\* _finished, the done callback: a notice that came meanwhile gets a new worker.
Finished ==
    /\ relay.worker = "ended"
    /\ relay' = [relay EXCEPT !.worker =
                     IF relay.pending # NoNotice /\ ~relay.closed THEN "ready" ELSE "none"]
    /\ UNCHANGED <<scope, op, fidoVars, auth, session, read, closing, signedOut>>

\* _handle_refresher_failure in the scope: what is no longer current is dropped.
NoticeEnters ==
    /\ relay.worker = "handling" /\ scope = "free"
    /\ IF Current(relay.taken)
       THEN scope' = "notice" /\ relay' = [relay EXCEPT !.worker = "inside"]
       ELSE relay' = [relay EXCEPT !.worker = "ready"] /\ UNCHANGED scope
    /\ UNCHANGED <<op, fidoVars, auth, session, read, closing, signedOut>>

\* The first half of _expire_session publishes and moves the epoch.
Expired == [session EXCEPT !.on = FALSE, !.epoch = @ + 1]

NoticeExpires ==
    /\ relay.worker = "inside" /\ relay.taken.kind = "authentication"
    /\ session.epoch = relay.taken.epoch
    /\ session' = Expired /\ auth' = "expired"
    /\ UNCHANGED <<scope, op, fidoVars, relay, read, closing, signedOut>>

\* The second half stops the refreshers; an update failure only shows itself.
NoticeEnds ==
    /\ relay.worker = "inside" /\ scope' = "free"
    /\ \/ /\ relay.taken.kind = "authentication" /\ session.epoch # relay.taken.epoch
          /\ relay' = [Invalidated(relay) EXCEPT !.worker = "ready"]
          /\ UNCHANGED session
       \/ /\ relay.taken.kind = "update"
          /\ relay' = [relay EXCEPT !.worker = "ready"]
          /\ session' = [session EXCEPT !.degraded = TRUE]
    /\ UNCHANGED <<op, fidoVars, auth, read, closing, signedOut>>

\* The handler raises, and _refresher_handler_failed gives the session up.
NoticeFails ==
    /\ relay.worker = "inside"
    /\ scope' = "free" /\ relay' = [relay EXCEPT !.worker = "ready"]
    /\ IF Current(relay.taken)
       THEN auth' = "authentication_unknown" /\ session' = [session EXCEPT !.on = FALSE]
       ELSE UNCHANGED <<auth, session>>
    /\ UNCHANGED <<op, fidoVars, read, closing, signedOut>>

-----------------------------------------------------------------------------
(* Reads and sign-out. *)

\* _raise_session_error: Core wants a new authentication for a read of this epoch.
ReadFails ==
    /\ read = NoRead /\ closing = "no" /\ session.on /\ ~session.leaving
    /\ read' = [at |-> "failed", epoch |-> session.epoch]
    /\ UNCHANGED <<scope, op, fidoVars, auth, session, relay, closing, signedOut>>

ReadEnters ==
    /\ read.at = "failed" /\ scope = "free"
    /\ IF read.epoch # session.epoch
       THEN read' = NoRead /\ UNCHANGED <<scope, session, auth>>
       ELSE /\ read' = [read EXCEPT !.at = "inside"] /\ scope' = "read"
            /\ session' = Expired /\ auth' = "expired"
    /\ UNCHANGED <<op, fidoVars, relay, closing, signedOut>>

ReadLeaves ==
    /\ read.at = "inside"
    /\ read' = NoRead /\ scope' = "free" /\ relay' = Invalidated(relay)
    /\ UNCHANGED <<op, fidoVars, auth, session, closing, signedOut>>

\* logout; cancel_login does the same once the services were started.
SignOut ==
    /\ op = NoOp /\ closing = "no" /\ ~signedOut
    /\ auth # "authentication_unknown"
    /\ op' = [NoOp EXCEPT !.kind = "signOut", !.at = "queued"]
    /\ UNCHANGED <<scope, fidoVars, auth, session, relay, read, closing, signedOut>>

\* The restart fence and the epoch move before anything is awaited.
SignOutEnters ==
    /\ op.kind = "signOut" /\ op.at = "queued" /\ ~op.cancelled /\ scope = "free"
    /\ scope' = "signOut" /\ op' = [op EXCEPT !.at = "inside"]
    /\ session' = [session EXCEPT !.leaving = TRUE, !.epoch = @ + 1]
    /\ UNCHANGED <<fidoVars, auth, relay, read, closing, signedOut>>

SignOutLeaves ==
    /\ op.kind = "signOut" /\ op.at = "inside"
    /\ scope' = "free" /\ op' = NoOp /\ relay' = Invalidated(relay)
    /\ session' = [session EXCEPT !.on = FALSE] /\ auth' = "signed_out" /\ signedOut' = TRUE
    /\ UNCHANGED <<fidoVars, read, closing>>

-----------------------------------------------------------------------------
(* Shutdown. *)

BeginClose ==
    /\ closing = "no" /\ closing' = "drain"
    /\ UNCHANGED <<scope, op, fidoVars, auth, session, relay, read, signedOut>>

\* close(): no more callbacks are taken, before any lock is.
CloseFence ==
    /\ closing = "drain" /\ op = NoOp /\ read = NoRead
    /\ relay' = [Invalidated(relay) EXCEPT !.closed = TRUE] /\ closing' = "worker"
    /\ UNCHANGED <<scope, op, fidoVars, auth, session, read, signedOut>>

\* _retire_refresher_error_handler joins the worker outside the scope.
CloseJoinsWorker ==
    /\ closing = "worker" /\ relay.worker \in {"none", "ended"}
    /\ closing' = "scope"
    /\ UNCHANGED <<scope, op, fidoVars, auth, session, relay, read, signedOut>>

CloseEnters ==
    /\ closing = "scope" /\ scope = "free"
    /\ scope' = "close" /\ closing' = "inside"
    /\ UNCHANGED <<op, fidoVars, auth, session, relay, read, signedOut>>

\* _close: Core's callbacks lead nowhere and its scheduler stops.
CloseEnds ==
    /\ closing = "inside"
    /\ closing' = "done" /\ scope' = "free"
    /\ session' = [session EXCEPT !.bound = 0] /\ relay' = Invalidated(relay)
    /\ UNCHANGED <<op, fidoVars, auth, read, signedOut>>

-----------------------------------------------------------------------------

Kinds == {"update", "authentication"}

KeySteps ==
    \/ WakePrompt \/ RequestPin \/ PinArrives \/ DeliverStatus
    \/ ChildStarts \/ AssertionArrives \/ SubmitAssertion \/ FidoLeaves \/ Withdraw

NoticeSteps == WorkerTakes \/ Finished \/ NoticeExpires \/ NoticeEnds

CloseSteps == CloseFence \/ CloseJoinsWorker \/ CloseEnds

Next ==
    \/ KeySteps \/ NoticeSteps \/ CloseSteps
    \/ BeginFido \/ FidoEnters \/ CancelOperation \/ CancelKey \/ SubmitPin
    \/ Prompt \/ AssertionEnds
    \/ \E kind \in Kinds : Report(kind)
    \/ NoticeEnters \/ NoticeFails
    \/ ReadFails \/ ReadEnters \/ ReadLeaves \/ SignOut \/ SignOutEnters \/ SignOutLeaves
    \/ BeginClose \/ CloseEnters

Spec == Init /\ [][Next]_vars

\* The loop runs what is ready; asyncio.Lock serves its waiters in order; Core's
\* assertion ends once it is cancelled; join_owned passes a cancellation on to
\* the key, and shutdown cancels what it drains.  The user promises nothing.
FairSpec ==
    /\ Spec
    /\ WF_vars(KeySteps) /\ WF_vars(NoticeSteps) /\ WF_vars(CloseSteps)
    /\ WF_vars(ReadLeaves) /\ WF_vars(SignOutLeaves)
    /\ SF_vars(FidoEnters) /\ SF_vars(NoticeEnters) /\ SF_vars(ReadEnters)
    /\ SF_vars(SignOutEnters) /\ SF_vars(CloseEnters)
    /\ WF_vars(key.cancelled /\ AssertionEnds)
    /\ WF_vars(op.cancelled /\ CancelKey)
    /\ WF_vars(closing = "drain" /\ CancelOperation)

-----------------------------------------------------------------------------

Notices == {NoNotice} \cup [kind : Kinds, epoch : Nat, generation : Nat]
Operations == [kind : {"none", "fido", "signOut"}, at : {"none", "queued", "inside"},
               cancelled : BOOLEAN]
Interactions == [live : BOOLEAN, cancelled : BOOLEAN, woken : BOOLEAN,
                 event : {"none", "unset", "set"}, prompts : 0 .. MaxPrompts,
                 thread : {"none", "working", "asking", "waiting", "returned"},
                 result : {"none", "assertion", "error"}]
Sessions == [on : BOOLEAN, leaving : BOOLEAN, started : BOOLEAN, degraded : BOOLEAN,
             epoch : Nat, bound : Nat, boundEpoch : Nat]
Relays == [generation : Nat, closed : BOOLEAN, pending : Notices, taken : Notices,
           worker : {"none", "ready", "handling", "inside", "ended"}]
Reads == [at : {"none", "failed", "inside"}, epoch : Nat]

TypeOK ==
    /\ scope \in {"free", "fido", "notice", "read", "signOut", "close"}
    /\ op \in Operations
    /\ child \in {"none", "starting", "assertion", "submitting", "done"}
    /\ key \in Interactions
    /\ posts \in Seq(Prompts)
    /\ auth \in Prompts \cup {"two_factor", "fido_error", "signed_in", "signed_in_degraded",
                              "expired", "authentication_unknown", "signed_out"}
    /\ session \in Sessions /\ relay \in Relays /\ read \in Reads
    /\ closing \in {"no", "drain", "worker", "scope", "inside", "done"}
    /\ signedOut \in BOOLEAN

\* A notice that waits has a worker that will see it.
NoticeKept == relay.pending # NoNotice => relay.worker # "none"

\* A notice or a failed read of an earlier session says nothing of a signed-out one.
SignOutStands == signedOut => auth = "signed_out" /\ ~session.on

\* Once the operation is over no prompt is on its way, and none is shown but the
\* last one of an assertion Core accepted, where neither the services could start
\* nor the record be written: the services then keep others from signing in.
PromptOver ==
    ~key.live =>
        /\ posts = <<>> /\ key = NoInteraction
        /\ auth \in Prompts => session.started /\ ~session.on

\* A closed adapter has nobody in the scope, no worker and no thread of its own,
\* and Core's callback leads nowhere.
QuietAfterClose ==
    closing = "done" =>
        /\ scope = "free" /\ op = NoOp /\ read = NoRead /\ ~key.live
        /\ relay.worker \in {"none", "ended"} /\ relay.pending = NoNotice
        /\ ~CallbackLeads

\* However the callbacks of Core, the prompt thread, the callers and the shutdown
\* fall, nothing is left behind: no notice without a worker, no prompt after its
\* operation (PromptOver says where one stays shown), no word of an old session,
\* no work after close.
NothingLeftBehind == NoticeKept /\ SignOutStands /\ PromptOver /\ QuietAfterClose

\* Nobody waits for ever for the scope: a cancelled security key is released
\* even if the user never answers, a notice is taken, a cancelled operation is
\* over, and shutdown ends with all of them.
ScopeNeverStuck ==
    /\ key.cancelled ~> ~key.live
    /\ op.cancelled ~> op = NoOp
    /\ (relay.pending # NoNotice) ~> (relay.pending = NoNotice)
    /\ (closing # "no") ~> (closing = "done")

================================================================================
