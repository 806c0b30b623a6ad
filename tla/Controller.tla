----------------------------- MODULE Controller -----------------------------
(***************************************************************************)
(* BackendController of backend/proton_vpn_kde_backend/controller.py: the  *)
(* owner of every request that reaches Proton's networking core.           *)
(*                                                                         *)
(* A foreground operation holds the operation lock for its whole           *)
(* transaction; a settings operation or an account operation also takes    *)
(* the settings lock or the session side-effect lock inside it.            *)
(* Disconnect and capture Stop are cleanups: they bypass the operation     *)
(* lock, wait for the owners they may not race and hold back every         *)
(* operation that has not started.  close() drains all of them.            *)
(*                                                                         *)
(* Simplifications:                                                        *)
(*  - time is a nondeterministic expiry: every wait with a deadline may    *)
(*    run out at any moment (the *Expire actions and Watchdog);            *)
(*  - asyncio.Lock wakes its waiters in FIFO order, here in any order;     *)
(*  - a rejected request changes nothing and is the absence of a step;     *)
(*  - _active_operation_task and _packet_capture_start_task are the        *)
(*    requests the operation lock names: both are set and cleared between  *)
(*    two awaits together with the lock;                                   *)
(*  - a settings object is the number of the save that produced it, an     *)
(*    answer of the provider is that number and the session it was read in;*)
(*  - the close of an adapter whose start failed is not called.            *)
(***************************************************************************)
EXTENDS Naturals, FiniteSets

CONSTANTS
    Requests,   \* identities of the requests the D-Bus layer may have in flight
    Class,      \* the entry point each of them calls
    Kinds,      \* the cleanups clients ask for
    MaxReads,   \* MAX_ACCOUNT_READS
    MaxEpoch,   \* bound of the model: sign-ins and sign-outs
    MaxSaves,   \* bound of the model: settings saves
    NoOne,      \* a lock nobody holds, a dependency that does not exist
    Closer      \* the task that runs _close_once

Classes == {"connect", "capture-start", "fido", "login", "logout",
            "kill-switch-off", "support", "scalar-write", "family-write",
            "preference", "browse", "settings-read", "nps"}

ASSUME ControllerAssumption ==
    /\ Class \in [Requests -> Classes]
    /\ Kinds \subseteq {"disconnect", "capture-stop"}
    /\ MaxReads \in Nat /\ MaxEpoch \in Nat /\ MaxSaves \in Nat
    /\ NoOne \notin Requests /\ Closer \notin Requests /\ NoOne # Closer

VARIABLES
    ready,      \* snapshot.ready
    account,    \* what snapshot.logged_in and snapshot.auth_state say
    epoch,      \* _session_epoch
    closing,    \* _closing
    process,    \* whether the retirement boundary was crossed
    pc,         \* where each request is
    epochOf,    \* the session epoch a request captured
    cancelled,  \* tasks asked to cancel: <<"caller", r>> and its <<"child", r>>
    lock,       \* holder of the operation, settings and side-effect locks
    cleanup,    \* _cleanup_operations with the progress of each task
    close,      \* progress of _close_once
    drained,    \* the accepted tasks _close_once waits for
    saved,      \* the settings object Core has persisted
    answer,     \* what the provider answered a request, not yet handed over
    delivered   \* the last answer handed to a client

requestVars == <<pc, epochOf, answer, cancelled, lock>>
dataVars == <<saved, delivered>>
closeVars == <<close, drained>>
lifeVars == <<ready, account, epoch, closing, process>>
vars == <<lifeVars, requestVars, cleanup, closeVars, dataVars>>

-----------------------------------------------------------------------------
(* What the entry points differ in. *)

ReadClasses == {"browse", "settings-read"}      \* _accepted_account_read
WriteClasses == {"scalar-write", "family-write"}
DataClasses == ReadClasses \cup WriteClasses \cup {"nps"}
Foreground(r) == Class[r] \notin ReadClasses \cup {"nps"}
NeedsSession(r) ==
    Class[r] \notin {"fido", "login", "logout", "kill-switch-off", "preference"}
Cancellable(r) == Class[r] \in {"connect", "capture-start", "fido"}
\* Mutant: settings are read without their lock.
InnerLockOfWriters(r) ==
    CASE Class[r] \in {"scalar-write", "family-write"} -> "settings"
      [] Class[r] \in {"login", "logout", "fido", "nps"} -> "side-effect"
      [] OTHER -> "none"

InnerLock(r) ==
    CASE Class[r] \in {"scalar-write", "family-write", "settings-read"} -> "settings"
      [] Class[r] \in {"login", "logout", "fido", "nps"} -> "side-effect"
      [] OTHER -> "none"

Accounts == {"signed_in", "signed_out", "expired", "unknown"}
Locks == {"operation", "settings", "side-effect"}

NoCleanup == [status |-> "none", epoch |-> 0,
              foreground |-> NoOne, capture |-> NoOne]
Registered(k) == cleanup[k].status # "none"
CleanupPending == \E k \in Kinds : Registered(k)

InProvider(r) == pc[r] \in {"core", "answered", "refresh", "refreshed"}
Running(r) == pc[r] \in {"begun", "waiting"} \/ InProvider(r)
Live(r) == r # NoOne /\ Running(r)
Owner == IF lock["operation"] \in Requests THEN lock["operation"] ELSE NoOne
\* Mutant: the capture Start forgets to register its task.
CaptureStartUnknown == NoOne

CaptureStart ==
    IF Owner # NoOne /\ Class[Owner] = "capture-start" THEN Owner ELSE NoOne

NoAnswer == [epoch |-> 0, save |-> 0]
NothingAccepted == [tasks |-> {}, cleanups |-> {}]

Init ==
    /\ ready = FALSE /\ account = "signed_out" /\ epoch = 0
    /\ closing = FALSE /\ process = "running"
    /\ pc = [r \in Requests |-> "idle"]
    /\ epochOf = [r \in Requests |-> 0]
    /\ cancelled = {}
    /\ lock = [l \in Locks |-> NoOne]
    /\ cleanup = [k \in Kinds |-> NoCleanup]
    /\ close = "open" /\ drained = NothingAccepted
    /\ saved = 0
    /\ answer = [r \in Requests |-> NoAnswer]
    /\ delivered = NoAnswer

-----------------------------------------------------------------------------
(* Startup and the snapshots of the adapter. *)

Start(a) ==
    /\ ~ready /\ ~closing
    /\ a # "expired"
    /\ ready' = TRUE /\ account' = a
    /\ UNCHANGED <<epoch, closing, process, requestVars, cleanup, closeVars, dataVars>>

\* Mutant: only a sign-in starts a new session epoch.
EpochAfterSignIn(a) ==
    IF a = "signed_in" /\ account # "signed_in" THEN epoch + 1 ELSE epoch

EpochAfter(a) ==
    IF (a = "signed_in") # (account = "signed_in") THEN epoch + 1 ELSE epoch

\* An unknown account state lasts until the process is restarted.
AdapterSnapshot(a) ==
    /\ ready /\ account # "unknown" /\ a # account
    /\ EpochAfter(a) <= MaxEpoch
    /\ account' = a /\ epoch' = EpochAfter(a)
    /\ UNCHANGED <<ready, closing, process, requestVars, cleanup, closeVars, dataVars>>

-----------------------------------------------------------------------------
(* Foreground operations: _run_operation and _serialized_operation. *)

Admitted(r) ==
    CASE Class[r] = "preference" -> TRUE
      [] Class[r] = "logout" -> ready /\ ~closing /\ account # "unknown"
      [] Class[r] = "kill-switch-off" -> ready /\ ~closing /\ account = "signed_out"
      [] NeedsSession(r) -> ready /\ ~closing /\ account = "signed_in"
      [] OTHER -> ready /\ ~closing /\ account \in {"signed_in", "signed_out"}

\* The end of a request's task: its locks are released, its locals forgotten
\* and the cancellation asked of it with them.
Finish(r) ==
    /\ pc' = [pc EXCEPT ![r] = "idle"]
    /\ lock' = [l \in Locks |-> IF lock[l] = r THEN NoOne ELSE lock[l]]
    /\ cancelled' = cancelled \ {<<"caller", r>>, <<"child", r>>}
    /\ epochOf' = [epochOf EXCEPT ![r] = 0]
    /\ answer' = [answer EXCEPT ![r] = NoAnswer]

\* Mutants: the lock is not consulted, the cleanups are not consulted.
MayEnterUnlocked == ~CleanupPending
MayEnterBesideCleanup == lock["operation"] = NoOne

\* The operation lock is free and no cleanup waits for the foreground.
MayEnter == lock["operation"] = NoOne /\ ~CleanupPending

\* The request owns the operation lock; the child that runs it is only created.
Enter(r) ==
    /\ lock' = [lock EXCEPT !["operation"] = r]
    /\ pc' = [pc EXCEPT ![r] = "begun"]

Issue(r) ==
    /\ Foreground(r) /\ pc[r] = "idle" /\ Admitted(r)
    /\ lock["operation"] = NoOne \/ Class[r] = "preference"
    /\ \/ MayEnter /\ ~closing /\ Enter(r)
       \/ /\ ~MayEnter \/ \E s \in Requests : pc[s] = "queued"
          /\ pc' = [pc EXCEPT ![r] = "queued"]
          /\ UNCHANGED lock
    /\ epochOf' = [epochOf EXCEPT ![r] = epoch]
    /\ UNCHANGED <<lifeVars, answer, cancelled, cleanup, closeVars, dataVars>>

\* Closing and the session are rechecked as the lock is taken.
Acquire(r) ==
    /\ pc[r] = "queued" /\ MayEnter
    /\ IF closing \/ epochOf[r] # epoch
         THEN Finish(r)
         ELSE Enter(r) /\ UNCHANGED <<epochOf, answer, cancelled>>
    /\ UNCHANGED <<lifeVars, cleanup, closeVars, dataVars>>

QueuedExpire(r) ==
    /\ pc[r] = "queued"
    /\ Finish(r)
    /\ UNCHANGED <<lifeVars, cleanup, closeVars, dataVars>>

\* _execute_operation, the child's first turn: it calls the adapter or asks for
\* the inner lock.  It does not look at the session again.
ExecuteOperation(r) ==
    /\ pc[r] = "begun"
    /\ pc' = [pc EXCEPT ![r] = IF InnerLock(r) = "none" THEN "core" ELSE "waiting"]
    /\ UNCHANGED <<lifeVars, epochOf, answer, cancelled, lock, cleanup, closeVars, dataVars>>

(***************************************************************************)
(* The retirement boundary: os._exit takes every task and lock with it.    *)
(* The watchdog crosses it at the deadline of the running operation, the   *)
(* adapter when it cannot confirm that a Down or a capture Stop took effect.*)
(***************************************************************************)
Retire ==
    /\ process' = "retired" /\ ready' = FALSE /\ closing' = TRUE
    /\ pc' = [r \in Requests |-> "idle"]
    /\ epochOf' = [r \in Requests |-> 0]
    /\ answer' = [r \in Requests |-> NoAnswer]
    /\ cancelled' = {} /\ lock' = [l \in Locks |-> NoOne]
    /\ cleanup' = [k \in Kinds |-> NoCleanup]
    /\ close' = "open" /\ drained' = NothingAccepted
    /\ UNCHANGED <<account, epoch, dataVars>>

Watchdog == Owner # NoOne /\ Retire

-----------------------------------------------------------------------------
(* Account reads and the inner locks. *)

\* A cancelled read keeps its slot until its provider call has returned.
ReadSlots == {r \in Requests : Class[r] \in ReadClasses /\ pc[r] # "idle"}

IssueRead(r) ==
    /\ ~Foreground(r) /\ pc[r] = "idle" /\ Admitted(r)
    /\ Class[r] \in ReadClasses => Cardinality(ReadSlots) < MaxReads
    /\ pc' = [pc EXCEPT ![r] = IF InnerLock(r) = "none" THEN "core" ELSE "waiting"]
    /\ epochOf' = [epochOf EXCEPT ![r] = epoch]
    /\ UNCHANGED <<lifeVars, answer, cancelled, lock, cleanup, closeVars, dataVars>>

\* The task that waits for the inner lock is an operation's child, a read's caller.
Waiter(r) == IF Foreground(r) THEN <<"child", r>> ELSE <<"caller", r>>

\* Mutant: any signed-in session will do.
AnySession(r) == account = "signed_in"

CurrentSession(r) == epochOf[r] = epoch /\ account = "signed_in"

\* _serialized_settings_access and _serialized_session_side_effect.
TakeInnerLock(r) ==
    /\ pc[r] = "waiting" /\ lock[InnerLock(r)] = NoOne
    /\ Waiter(r) \notin cancelled
    /\ IF closing \/ (~Foreground(r) /\ ~CurrentSession(r))
         THEN Finish(r)
         ELSE /\ lock' = [lock EXCEPT ![InnerLock(r)] = r]
              /\ pc' = [pc EXCEPT ![r] = "core"]
              /\ UNCHANGED <<epochOf, answer, cancelled>>
    /\ UNCHANGED <<lifeVars, cleanup, closeVars, dataVars>>

WithdrawWaiting(r) ==
    /\ pc[r] = "waiting" /\ Waiter(r) \in cancelled
    /\ Finish(r)
    /\ UNCHANGED <<lifeVars, cleanup, closeVars, dataVars>>

\* The provider reads the account, or persists and applies a settings object.
ProviderAnswers(r) ==
    /\ pc[r] = "core"
    /\ Class[r] \in DataClasses
    /\ saved' = IF Class[r] \in WriteClasses THEN saved + 1 ELSE saved
    /\ saved' <= MaxSaves
    /\ answer' = [answer EXCEPT ![r] = [epoch |-> epoch, save |-> saved']]
    /\ pc' = [pc EXCEPT ![r] = "answered"]
    /\ UNCHANGED <<lifeVars, epochOf, cancelled, lock, cleanup, closeVars, delivered>>

\* The call ends without an answer to hand over: done, failed or cancelled.
Return(r) ==
    /\ pc[r] = "core"
    /\ Finish(r)
    /\ UNCHANGED <<lifeVars, cleanup, closeVars, dataVars>>

\* A browsing or survey answer says nothing about the settings object.
HandOver(r) ==
    IF Class[r] \in WriteClasses \cup {"settings-read"} THEN answer[r]
    ELSE [delivered EXCEPT !.epoch = answer[r].epoch]

\* A read is handed over only to the session that asked for it.
DeliverRead(r) ==
    /\ pc[r] = "answered" /\ ~Foreground(r)
    /\ delivered' = IF CurrentSession(r) /\ <<"caller", r>> \notin cancelled
                      THEN HandOver(r) ELSE delivered
    /\ Finish(r)
    /\ UNCHANGED <<lifeVars, cleanup, closeVars, saved>>

\* A confirmed save is published; split tunnelling and DNS then reread the rest.
PublishWrite(r) ==
    /\ pc[r] = "answered" /\ Foreground(r)
    /\ delivered' = HandOver(r)
    /\ \/ Class[r] = "scalar-write" /\ Finish(r)
       \/ /\ Class[r] = "family-write"
          /\ pc' = [pc EXCEPT ![r] = "refresh"]
          /\ epochOf' = [epochOf EXCEPT ![r] = epoch]
          /\ UNCHANGED <<answer, cancelled, lock>>
    /\ UNCHANGED <<lifeVars, cleanup, closeVars, saved>>

\* _refresh_settings_after_commit: the provider answers, or fails and is ignored.
RefreshAnswers(r) ==
    /\ pc[r] = "refresh"
    /\ \/ /\ answer' = [answer EXCEPT ![r] = [epoch |-> epoch, save |-> saved]]
          /\ pc' = [pc EXCEPT ![r] = "refreshed"]
          /\ UNCHANGED <<epochOf, cancelled, lock>>
       \/ Finish(r)
    /\ UNCHANGED <<lifeVars, cleanup, closeVars, saved, delivered>>

PublishRefresh(r) ==
    /\ pc[r] = "refreshed"
    /\ delivered' = IF epochOf[r] = epoch THEN HandOver(r) ELSE delivered
    /\ Finish(r)
    /\ UNCHANGED <<lifeVars, cleanup, closeVars, saved>>

-----------------------------------------------------------------------------
(* Cleanups: _run_cleanup, _execute_cleanup and _retire_cleanup. *)

\* Cancelling a caller reaches its child only where the child compensates.
CancelOf(r) ==
    {<<"caller", r>>}
      \cup (IF Cancellable(r) \/ Class[r] \in ReadClasses THEN {<<"child", r>>} ELSE {})

SetStatus(k, status) == cleanup' = [cleanup EXCEPT ![k].status = status]

\* A second call of the same session joins the registered task: no step.
RunCleanup(k) ==
    /\ ready /\ ~closing /\ ~Registered(k)
    /\ cleanup' = [cleanup EXCEPT ![k] =
         [status |-> "admitted", epoch |-> epoch,
          foreground |-> IF k = "disconnect" /\ Owner # NoOne
                           THEN IF Class[Owner] # "connect" THEN Owner ELSE NoOne
                           ELSE NoOne,
          capture |-> CaptureStart]]
    /\ UNCHANGED <<lifeVars, requestVars, closeVars, dataVars>>

\* Mutants: Disconnect preempts every foreground operation; a cleanup with
\* nothing left to wait for is given a status nobody serves.
AfterCaptureAtOnce(k) == "dispatch"
AfterCaptureReady(k) ==
    IF Live(cleanup[k].foreground) THEN "join-foreground" ELSE "ready"

AfterCapture(k) ==
    IF Live(cleanup[k].foreground) THEN "join-foreground" ELSE "dispatch"

BeginCleanup(k) ==
    /\ cleanup[k].status = "admitted"
    /\ IF Live(cleanup[k].capture)
         THEN /\ cancelled' = cancelled \cup CancelOf(cleanup[k].capture)
              /\ SetStatus(k, "join-capture")
         ELSE SetStatus(k, AfterCapture(k)) /\ UNCHANGED cancelled
    /\ UNCHANGED <<lifeVars, pc, epochOf, answer, lock, closeVars, dataVars>>

CleanupStep(k) ==
    /\ \/ /\ cleanup[k].status = "join-capture"
          /\ ~Live(cleanup[k].capture)
          /\ SetStatus(k, AfterCapture(k))
       \/ /\ cleanup[k].status = "join-foreground"
          /\ ~Live(cleanup[k].foreground)
          /\ SetStatus(k, "dispatch")
    /\ UNCHANGED <<lifeVars, requestVars, closeVars, dataVars>>

\* Mutant: a cleanup waits for the other one to leave the registry.
DispatchFreeWhenAlone(k) == \A j \in Kinds \ {k} : ~Registered(j)

\* _cleanup_dispatch_lock is held while the status is "core".
DispatchFree(k) == \A j \in Kinds \ {k} : cleanup[j].status # "core"

DispatchCleanup(k) ==
    /\ cleanup[k].status = "dispatch"
    /\ DispatchFree(k)
    /\ SetStatus(k, IF cleanup[k].epoch = epoch THEN "core" ELSE "done")
    /\ UNCHANGED <<lifeVars, requestVars, closeVars, dataVars>>

CleanupExpire(k) ==
    /\ cleanup[k].status \in {"admitted", "join-capture", "join-foreground", "dispatch"}
    /\ SetStatus(k, "done")
    /\ UNCHANGED <<lifeVars, requestVars, closeVars, dataVars>>

\* The adapter call returns or fails within the deadline it was passed.
CleanupReturn(k) ==
    /\ cleanup[k].status = "core"
    /\ SetStatus(k, "done")
    /\ UNCHANGED <<lifeVars, requestVars, closeVars, dataVars>>

CleanupUnconfirmed(k) == cleanup[k].status = "core" /\ Retire

RetireCleanup(k) ==
    /\ cleanup[k].status = "done"
    /\ cleanup' = [cleanup EXCEPT ![k] = NoCleanup]
    /\ UNCHANGED <<lifeVars, requestVars, closeVars, dataVars>>

-----------------------------------------------------------------------------
(* close() and _close_once. *)

Close ==
    /\ ready /\ close = "open"
    /\ closing' = TRUE /\ close' = "called"
    /\ UNCHANGED <<ready, account, epoch, process, requestVars, cleanup, drained, dataVars>>

\* The task registered as holder of an inner lock: the child of an operation.
HolderTask(l) == IF lock[l] \in Requests THEN {Waiter(lock[l])} ELSE {}
\* Mutant: shutdown treats the child of an operation as a task of its own.
OperationChildForgotten == {}

OperationChild == IF Owner # NoOne THEN {<<"child", Owner>>} ELSE {}
AcceptedTasks ==
    ({<<"caller", r>> : r \in ReadSlots}
       \cup (IF Owner # NoOne THEN {<<"caller", Owner>>} ELSE {})
       \cup HolderTask("settings") \cup HolderTask("side-effect"))
    \ OperationChild
\* Mutant: shutdown drains the ordinary tasks only.
AcceptedCleanupsForgotten == {}

AcceptedCleanups == {k \in Kinds : cleanup[k].status \notin {"none", "done"}}

Collect == drained' = [tasks |-> AcceptedTasks, cleanups |-> AcceptedCleanups]

CloseBegin ==
    /\ close = "called"
    /\ IF CaptureStart # NoOne
         THEN /\ cancelled' = cancelled \cup CancelOf(CaptureStart)
              /\ close' = "join-capture" /\ UNCHANGED drained
         ELSE Collect /\ close' = "drain" /\ UNCHANGED cancelled
    /\ UNCHANGED <<lifeVars, pc, epochOf, answer, lock, cleanup, dataVars>>

CloseJoined ==
    /\ close = "join-capture" /\ CaptureStart = NoOne
    /\ Collect /\ close' = "drain"
    /\ UNCHANGED <<lifeVars, requestVars, cleanup, dataVars>>

PendingTasks == {t \in drained.tasks : Running(t[2])}
PendingCleanups == {k \in drained.cleanups : cleanup[k].status \notin {"none", "done"}}

\* The grace period is over: ordinary work is cancelled, cleanups are not.
CloseGrace ==
    /\ close = "drain" /\ (PendingTasks # {} \/ PendingCleanups # {})
    /\ cancelled' = cancelled \cup
         UNION {IF t[1] = "caller" THEN CancelOf(t[2]) ELSE {t} : t \in PendingTasks}
    /\ close' = "drain-cancelled"
    /\ UNCHANGED <<lifeVars, pc, epochOf, answer, lock, cleanup, drained, dataVars>>

CloseDrained ==
    /\ close \in {"drain", "drain-cancelled"}
    /\ PendingTasks = {} /\ PendingCleanups = {}
    /\ close' = "operation" /\ drained' = NothingAccepted
    /\ UNCHANGED <<lifeVars, requestVars, cleanup, dataVars>>

\* Mutant: shutdown asks for the operation lock it already holds.
AfterLockAgain ==
    [l \in Locks |-> CASE l = "operation" -> "operation"
                       [] l = "settings" -> "side-effect"
                       [] l = "side-effect" -> "adapter"]

\* The operation lock, then the settings lock, then the side-effect lock.
AfterLock ==
    [l \in Locks |-> CASE l = "operation" -> "settings"
                       [] l = "settings" -> "side-effect"
                       [] l = "side-effect" -> "adapter"]

CloseTakesLock(l) ==
    /\ close = l /\ lock[l] = NoOne
    /\ lock' = [lock EXCEPT ![l] = Closer]
    /\ close' = AfterLock[l]
    /\ UNCHANGED <<lifeVars, pc, epochOf, answer, cancelled, cleanup, drained, dataVars>>

CloseEnds(result) ==
    /\ close' = result
    /\ lock' = [l \in Locks |-> IF lock[l] = Closer THEN NoOne ELSE lock[l]]
    /\ drained' = NothingAccepted
    /\ UNCHANGED <<lifeVars, pc, epochOf, answer, cancelled, cleanup, dataVars>>

CloseReturn == close = "adapter" /\ CloseEnds("closed")
CloseExpire == close \notin {"open", "called", "closed", "failed"} /\ CloseEnds("failed")

-----------------------------------------------------------------------------
RequestNext(r) ==
    \/ Issue(r) \/ Acquire(r) \/ QueuedExpire(r) \/ ExecuteOperation(r)
    \/ IssueRead(r) \/ TakeInnerLock(r) \/ WithdrawWaiting(r)
    \/ ProviderAnswers(r) \/ Return(r) \/ DeliverRead(r)
    \/ PublishWrite(r) \/ RefreshAnswers(r) \/ PublishRefresh(r)

CleanupNext(k) ==
    \/ RunCleanup(k) \/ BeginCleanup(k) \/ CleanupStep(k)
    \/ DispatchCleanup(k) \/ CleanupExpire(k) \/ CleanupReturn(k)
    \/ CleanupUnconfirmed(k) \/ RetireCleanup(k)

CloseNext ==
    \/ Close \/ CloseBegin \/ CloseJoined \/ CloseGrace \/ CloseDrained
    \/ \E l \in Locks : CloseTakesLock(l)
    \/ CloseReturn \/ CloseExpire

Next ==
    \/ \E a \in Accounts : Start(a) \/ AdapterSnapshot(a)
    \/ \E r \in Requests : RequestNext(r)
    \/ \E k \in Kinds : CleanupNext(k)
    \/ CloseNext
    \/ Watchdog

Spec == Init /\ [][Next]_vars

(***************************************************************************)
(* Fairness.  Ready tasks of the event loop run; provider calls return     *)
(* (their transports have timeouts); asyncio's locks are FIFO, so a waiter *)
(* that is passed over finitely often gets them.  No deadline is assumed   *)
(* to fire: what follows shows that no wait is part of a cycle.            *)
(***************************************************************************)
RequestStep(r) ==
    \/ ExecuteOperation(r) \/ WithdrawWaiting(r)
    \/ ProviderAnswers(r) \/ Return(r) \/ DeliverRead(r)
    \/ PublishWrite(r) \/ RefreshAnswers(r) \/ PublishRefresh(r)

CleanupTaskStep(k) ==
    BeginCleanup(k) \/ CleanupStep(k) \/ CleanupReturn(k) \/ RetireCleanup(k)

CloseTaskStep == CloseBegin \/ CloseJoined \/ CloseGrace \/ CloseDrained \/ CloseReturn

Fairness ==
    /\ \A r \in Requests :
         /\ WF_vars(RequestStep(r))
         /\ SF_vars(TakeInnerLock(r))
    /\ \A k \in Kinds :
         /\ WF_vars(CleanupTaskStep(k))
         /\ SF_vars(DispatchCleanup(k))
    /\ WF_vars(CloseTaskStep)
    /\ SF_vars(\E l \in Locks : CloseTakesLock(l))

FairSpec == Spec /\ Fairness

-----------------------------------------------------------------------------
(* Properties. *)

Places == {"idle", "queued", "begun", "waiting", "core", "answered", "refresh", "refreshed"}
Tasks == {"caller", "child"} \X Requests
Answers == [epoch : 0..MaxEpoch, save : 0..MaxSaves]
CleanupStatus == {"none", "admitted", "join-capture", "join-foreground",
                  "dispatch", "core", "done"}
CleanupRecords == [status : CleanupStatus, epoch : 0..MaxEpoch,
                   foreground : Requests \cup {NoOne}, capture : Requests \cup {NoOne}]
CloseStatus == {"open", "called", "join-capture", "drain", "drain-cancelled",
                "adapter", "closed", "failed"} \cup Locks

TypeOK ==
    /\ ready \in BOOLEAN /\ closing \in BOOLEAN
    /\ account \in Accounts /\ epoch \in 0..MaxEpoch
    /\ process \in {"running", "retired"}
    /\ pc \in [Requests -> Places]
    /\ epochOf \in [Requests -> 0..MaxEpoch]
    /\ cancelled \subseteq Tasks
    /\ lock \in [Locks -> Requests \cup {NoOne, Closer}]
    /\ cleanup \in [Kinds -> CleanupRecords]
    /\ close \in CloseStatus
    /\ drained \in [tasks : SUBSET Tasks, cleanups : SUBSET Kinds]
    /\ saved \in 0..MaxSaves
    /\ answer \in [Requests -> Answers]
    /\ delivered \in Answers

\* Every mutation the adapter is executing holds the operation lock, every
\* settings or account call its inner lock, whoever was cancelled meanwhile.
OneOwner ==
    \A r \in Requests :
        /\ Running(r) /\ Foreground(r) => lock["operation"] = r
        /\ InProvider(r) /\ InnerLock(r) # "none" => lock[InnerLock(r)] = r

\* Core applies protection outside its event lock: Down never runs beside a
\* foreground transaction other than the connection it cancels.
DownPreservesTransaction ==
    (\E k \in Kinds : k = "disconnect" /\ cleanup[k].status = "core") =>
        \A r \in Requests : Running(r) /\ Foreground(r) => Class[r] = "connect"

\* Neither Stop nor Down is sent while a capture Start may still compensate.
CleanupFollowsCaptureStart ==
    (\E k \in Kinds : cleanup[k].status = "core") =>
        \A r \in Requests : Running(r) => Class[r] # "capture-start"

\* Shutdown and cleanup cancel the child of an operation only where the child
\* compensates: never a login, a logout or a settings save.
TransactionsNeverCancelled ==
    \A r \in Requests :
        <<"child", r>> \in cancelled => Cancellable(r) \/ Class[r] \in ReadClasses

\* The provider is torn down after the last request has left it, and none
\* enters it afterwards.
CloseIsLast ==
    close \in {"adapter", "closed"} =>
        /\ \A r \in Requests : ~InProvider(r)
        /\ \A k \in Kinds : cleanup[k].status \in {"none", "done"}

\* A sign-in or a sign-out of a started backend.
AccountChanges == ready /\ (account = "signed_in") # (account' = "signed_in")

\* A request is started: an operation gets its lock, a read its provider call.
Started(r) ==
    IF Foreground(r) THEN lock["operation"] # r /\ lock'["operation"] = r
                     ELSE ~InProvider(r) /\ InProvider(r)'

\* What was accepted waits for locks, owners and other cleanups while the user
\* may sign out and another one in.  After such a change no task accepted before
\* counts as one of the current session; no cleanup reaches the adapter, no
\* operation gets its lock and no read its provider call outside the session
\* that accepted it; and one that needs a session starts signed in.  The child
\* of an operation reaches the adapter later, without another look.
DispatchInSession ==
    [][/\ AccountChanges =>
            /\ \A k \in Kinds : Registered(k)' => cleanup'[k].epoch # epoch'
            /\ \A r \in Requests : pc'[r] # "idle" => epochOf'[r] # epoch'
       /\ \A k \in Kinds :
            cleanup[k].status # "core" /\ cleanup'[k].status = "core"
              => cleanup[k].epoch = epoch
       /\ \A r \in Requests :
            Started(r) => epochOf'[r] = epoch /\ (NeedsSession(r) => account = "signed_in")]_vars

\* The settings a client was last given are never replaced by older ones.
SettingsOrder == [][delivered'.save >= delivered.save]_delivered

\* What a read hands over was read in the session it is handed to.
FreshAccountData ==
    [][\A r \in Requests :
         ~Foreground(r) /\ pc[r] = "answered" /\ pc'[r] = "idle"
            => delivered'.epoch = epoch]_delivered

\* Every accepted cleanup reaches its end: no owner it waits for waits for it.
CleanupRetires ==
    \A k \in Kinds : Registered(k) ~> ~Registered(k) \/ process = "retired"

\* Shutdown ends, without help from its deadline.
CloseTerminates ==
    close = "called" ~> close \in {"closed", "failed"} \/ process = "retired"

Promise == INSTANCE OperationOwnership WITH
    owner <- Owner,
    pending <- {k \in Kinds : Registered(k)},
    calling <- {k \in Kinds : cleanup[k].status = "core"},
    admitting <- ~closing,
    shut <- close \in {"adapter", "closed"}

\* The controller keeps the promise of serialized, preemptible ownership.
ImplementsOwnership == Promise!Spec
=============================================================================
