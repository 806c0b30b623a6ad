--------------------------- MODULE ControllerProofs ---------------------------
(***************************************************************************)
(* The proofs about Controller, for any set of requests, any classes of    *)
(* them and any number of sign-ins and saves: its types and locks; the     *)
(* safety properties that relate its cleanups, sessions and shutdown to    *)
(* the owner of the locks; and that it implements OperationOwnership.      *)
(***************************************************************************)
EXTENDS Controller, TLAPS

USE ControllerAssumption

\* The values every variable starts from and returns to have their types.
LEMMA NullTypes ==
    /\ 0 \in 0..MaxEpoch /\ 0 \in 0..MaxSaves
    /\ NoAnswer \in Answers
    /\ NoCleanup \in CleanupRecords
    /\ NothingAccepted \in [tasks : SUBSET Tasks, cleanups : SUBSET Kinds]
BY DEF NoAnswer, Answers, NoCleanup, CleanupRecords, CleanupStatus, NothingAccepted

\* The holder of the operation lock is a request or nobody.
LEMMA OwnerType ==
    ASSUME TypeOK
    PROVE  Owner \in Requests \cup {NoOne} /\ CaptureStart \in Requests \cup {NoOne}
BY DEF TypeOK, Owner, CaptureStart

\* The inner lock of a request is never the operation lock.
LEMMA InnerLockType ==
    \A r \in Requests : InnerLock(r) \in {"settings", "side-effect", "none"}
BY DEF InnerLock

\* A request that ends leaves null values behind.
LEMMA FinishType ==
    ASSUME TypeOK, NEW r \in Requests, Finish(r)
    PROVE  /\ pc' \in [Requests -> Places]
           /\ epochOf' \in [Requests -> 0..MaxEpoch]
           /\ cancelled' \subseteq Tasks
           /\ lock' \in [Locks -> Requests \cup {NoOne, Closer}]
           /\ answer' \in [Requests -> Answers]
BY NullTypes DEF TypeOK, Finish, Places

\* The request that becomes owner has its place and its lock.
LEMMA EnterType ==
    ASSUME TypeOK, NEW r \in Requests, Enter(r)
    PROVE  /\ pc' \in [Requests -> Places]
           /\ lock' \in [Locks -> Requests \cup {NoOne, Closer}]
BY DEF TypeOK, Enter, Places

\* A cleanup moves between the statuses it knows.
LEMMA StatusType ==
    ASSUME TypeOK, NEW k \in Kinds, NEW status \in CleanupStatus, SetStatus(k, status)
    PROVE  cleanup' \in [Kinds -> CleanupRecords]
BY DEF TypeOK, SetStatus, CleanupRecords

\* Cancelling a request reaches its own two tasks at most.
LEMMA CancelOfType ==
    \A r \in Requests : CancelOf(r) \subseteq Tasks
BY DEF CancelOf, Tasks

\* What reaches a client is an answer.
LEMMA HandOverType ==
    ASSUME TypeOK, NEW r \in Requests
    PROVE  HandOver(r) \in Answers
BY DEF TypeOK, HandOver, Answers

\* The end of the process leaves every variable a null value.
LEMMA RetireType ==
    ASSUME TypeOK, Retire
    PROVE  TypeOK'
BY NullTypes DEF TypeOK, Retire, Places, CloseStatus, dataVars

\* The constructor gives every attribute a value of its type.
THEOREM InitType == Init => TypeOK
<1> SUFFICES ASSUME Init PROVE TypeOK
  OBVIOUS
<1>1. /\ pc \in [Requests -> Places] /\ epochOf \in [Requests -> 0..MaxEpoch]
      /\ lock \in [Locks -> Requests \cup {NoOne, Closer}]
  BY NullTypes DEF Init, Places
<1>2. cleanup \in [Kinds -> CleanupRecords] /\ answer \in [Requests -> Answers]
  BY NullTypes DEF Init
<1>3. QED
  BY <1>1, <1>2, NullTypes DEF Init, TypeOK, Accounts, CloseStatus

\* No step of a request leaves the types.
LEMMA RequestType ==
    ASSUME TypeOK, NEW r \in Requests, RequestNext(r)
    PROVE  TypeOK'
<1> USE DEF lifeVars, closeVars, dataVars
<1>1. CASE Issue(r)
  BY <1>1, EnterType DEF Issue, TypeOK, Places
<1>2. CASE Acquire(r)
  BY <1>2, EnterType, FinishType DEF Acquire, TypeOK
<1>3. CASE QueuedExpire(r)
  BY <1>3, FinishType DEF QueuedExpire, TypeOK
<1>4. CASE IssueRead(r)
  BY <1>4 DEF IssueRead, TypeOK, Places
<1>5. CASE TakeInnerLock(r)
  BY <1>5, FinishType DEF TakeInnerLock, TypeOK, Places
<1>6. CASE WithdrawWaiting(r)
  BY <1>6, FinishType DEF WithdrawWaiting, TypeOK
<1>7. CASE ProviderAnswers(r)
  BY <1>7 DEF ProviderAnswers, TypeOK, Places, Answers
<1>8. CASE Return(r)
  BY <1>8, FinishType DEF Return, TypeOK
<1>9. CASE DeliverRead(r)
  BY <1>9, FinishType, HandOverType DEF DeliverRead, TypeOK
<1>10. CASE PublishWrite(r)
  BY <1>10, FinishType, HandOverType DEF PublishWrite, TypeOK, Places
<1>11. CASE RefreshAnswers(r)
  <2>1. [epoch |-> epoch, save |-> saved] \in Answers
    BY DEF TypeOK, Answers
  <2>2. QED
    BY <1>11, <2>1, FinishType DEF RefreshAnswers, TypeOK, Places
<1>12. CASE PublishRefresh(r)
  BY <1>12, FinishType, HandOverType DEF PublishRefresh, TypeOK
<1>13. CASE ExecuteOperation(r)
  BY <1>13 DEF ExecuteOperation, TypeOK, Places
<1>14. QED
  BY <1>1, <1>2, <1>3, <1>4, <1>5, <1>6, <1>7, <1>8, <1>9, <1>10, <1>11, <1>12, <1>13
     DEF RequestNext

\* No step of a cleanup leaves the types.
LEMMA CleanupType ==
    ASSUME TypeOK, NEW k \in Kinds, CleanupNext(k)
    PROVE  TypeOK'
<1> USE DEF lifeVars, requestVars, closeVars, dataVars
<1>1. CASE RunCleanup(k)
  BY <1>1, OwnerType DEF RunCleanup, TypeOK, CleanupRecords, CleanupStatus
<1>2. CASE BeginCleanup(k)
  <2>1. cancelled' \subseteq Tasks
    BY <1>2, CancelOfType DEF BeginCleanup, Live, TypeOK, CleanupRecords
  <2>2. cleanup' \in [Kinds -> CleanupRecords]
    BY <1>2, StatusType DEF BeginCleanup, AfterCapture, CleanupStatus
  <2>3. QED
    BY <1>2, <2>1, <2>2 DEF BeginCleanup, TypeOK
<1>3. CASE CleanupStep(k)
  BY <1>3, StatusType DEF CleanupStep, AfterCapture, TypeOK, CleanupStatus
<1>4. CASE DispatchCleanup(k)
  BY <1>4, StatusType DEF DispatchCleanup, TypeOK, CleanupStatus
<1>5. CASE CleanupExpire(k)
  BY <1>5, StatusType DEF CleanupExpire, TypeOK, CleanupStatus
<1>6. CASE CleanupReturn(k)
  BY <1>6, StatusType DEF CleanupReturn, TypeOK, CleanupStatus
<1>7. CASE CleanupUnconfirmed(k)
  BY <1>7, RetireType DEF CleanupUnconfirmed
<1>8. CASE RetireCleanup(k)
  BY <1>8, NullTypes DEF RetireCleanup, TypeOK
<1>9. QED
  BY <1>1, <1>2, <1>3, <1>4, <1>5, <1>6, <1>7, <1>8 DEF CleanupNext

\* No step of the shutdown leaves the types.
LEMMA CloseType ==
    ASSUME TypeOK, CloseNext
    PROVE  TypeOK'
<1> USE DEF lifeVars, requestVars, dataVars
<1>1. CASE Close
  BY <1>1 DEF Close, TypeOK, CloseStatus
<1>2. AcceptedTasks \subseteq Tasks /\ AcceptedCleanups \subseteq Kinds
  BY OwnerType DEF TypeOK, AcceptedTasks, AcceptedCleanups, ReadSlots, HolderTask, Waiter,
     OperationChild, Tasks
<1>3. Collect => drained' \in [tasks : SUBSET Tasks, cleanups : SUBSET Kinds]
  BY <1>2 DEF Collect
<1>4. CASE CloseBegin
  BY <1>3, <1>4, CancelOfType, OwnerType DEF CloseBegin, TypeOK, CloseStatus
<1>5. CASE CloseJoined
  BY <1>3, <1>5 DEF CloseJoined, TypeOK, CloseStatus
<1>6. CASE CloseGrace
  <2>1. \A t \in PendingTasks : t \in Tasks /\ t[2] \in Requests
    BY DEF PendingTasks, TypeOK, Tasks
  <2>2. cancelled' \subseteq Tasks
    BY <1>6, <2>1, CancelOfType DEF CloseGrace, TypeOK
  <2>3. QED
    BY <1>6, <2>2 DEF CloseGrace, TypeOK, CloseStatus
<1>7. CASE CloseDrained
  BY <1>7, NullTypes DEF CloseDrained, TypeOK, CloseStatus, Locks
<1>8. ASSUME NEW l \in Locks, CloseTakesLock(l) PROVE TypeOK'
  BY <1>8 DEF CloseTakesLock, AfterLock, TypeOK, CloseStatus, Locks
<1>9. ASSUME NEW result \in {"closed", "failed"}, CloseEnds(result) PROVE TypeOK'
  BY <1>9, NullTypes DEF CloseEnds, TypeOK, CloseStatus
<1>10. QED
  BY <1>1, <1>4, <1>5, <1>6, <1>7, <1>8, <1>9 DEF CloseNext, CloseReturn, CloseExpire

\* The type invariant is inductive on its own.
LEMMA TypeStep == TypeOK /\ [Next]_vars => TypeOK'
<1> SUFFICES ASSUME TypeOK, [Next]_vars PROVE TypeOK'
  OBVIOUS
<1> USE DEF lifeVars, requestVars, closeVars, dataVars
<1>1. ASSUME NEW a \in Accounts, Start(a) PROVE TypeOK'
  BY <1>1 DEF Start, TypeOK
<1>2. ASSUME NEW a \in Accounts, AdapterSnapshot(a) PROVE TypeOK'
  BY <1>2 DEF AdapterSnapshot, EpochAfter, TypeOK
<1>3. CASE Watchdog
  BY <1>3, RetireType DEF Watchdog
<1>4. CASE UNCHANGED vars
  BY <1>4 DEF vars, TypeOK
<1>5. QED
  BY <1>1, <1>2, <1>3, <1>4, RequestType, CleanupType, CloseType DEF Next

\* Every variable keeps its type: no handler leaves a status, a holder or an
\* answer the others do not know.
THEOREM TypeCorrect == Spec => []TypeOK
BY InitType, TypeStep, PTL DEF Spec

-----------------------------------------------------------------------------
(***************************************************************************)
(* Lock ownership.  OneOwner is inductive; its converse, that a request    *)
(* holding a lock is running, is what the cleanups and shutdown rely on    *)
(* when they take the holder of a lock for the task behind it.             *)
(***************************************************************************)
HoldersRun ==
    \A l \in Locks, r \in Requests :
        lock[l] = r => Running(r) /\ (l = "operation" => Foreground(r))

WaitersKnown ==
    \A r \in Requests :
        /\ pc[r] \in {"queued", "begun"} => Foreground(r)
        /\ pc[r] = "waiting" => InnerLock(r) # "none"

Locking == OneOwner /\ HoldersRun /\ WaitersKnown

\* A step that leaves requests and locks alone cannot break their relation.
LEMMA LockingUntouched ==
    ASSUME Locking, UNCHANGED <<pc, lock>>
    PROVE  Locking'
BY DEF Locking, OneOwner, HoldersRun, WaitersKnown, Running, InProvider

\* A request that ends gives back exactly what it held.
LEMMA FinishLocking ==
    ASSUME TypeOK, Locking, NEW r \in Requests, Finish(r)
    PROVE  Locking'
BY InnerLockType DEF TypeOK, Locking, OneOwner, HoldersRun, WaitersKnown, Running,
   InProvider, Finish, Locks, Places

\* The free operation lock passes to one request that waits for it.
LEMMA EnterLocking ==
    ASSUME TypeOK, Locking, NEW r \in Requests, Foreground(r),
           pc[r] \in {"idle", "queued"}, lock["operation"] = NoOne, Enter(r)
    PROVE  Locking'
BY InnerLockType DEF TypeOK, Locking, OneOwner, HoldersRun, WaitersKnown, Running,
   InProvider, Enter, Locks, Places

\* After the end of the process nobody runs and nobody holds.
LEMMA RetireLocking ==
    ASSUME TypeOK, Retire
    PROVE  Locking'
BY DEF TypeOK, Locking, OneOwner, HoldersRun, WaitersKnown, Running, InProvider, Retire, Locks

\* A running request that moves on inside its own locks.
LEMMA MoveLocking ==
    ASSUME TypeOK, Locking, NEW r \in Requests,
           NEW p \in {"answered", "refresh", "refreshed"},
           InProvider(r), pc' = [pc EXCEPT ![r] = p], UNCHANGED lock
    PROVE  Locking'
BY DEF TypeOK, Locking, OneOwner, HoldersRun, WaitersKnown, Running, InProvider, Places

\* Every step of a request keeps owners and locks together.
LEMMA RequestLocking ==
    ASSUME TypeOK, Locking, NEW r \in Requests, RequestNext(r)
    PROVE  Locking'
<1>1. CASE Issue(r)
  <2>1. CASE MayEnter /\ Enter(r)
    BY <1>1, <2>1, EnterLocking DEF Issue, MayEnter
  <2>2. CASE pc' = [pc EXCEPT ![r] = "queued"] /\ UNCHANGED lock
    BY <1>1, <2>2 DEF Issue, TypeOK, Locking, OneOwner, HoldersRun,
       WaitersKnown, Running, InProvider, Places
  <2>3. QED
    BY <1>1, <2>1, <2>2 DEF Issue
<1>2. CASE Acquire(r)
  <2>1. Foreground(r)
    BY <1>2 DEF Acquire, Locking, WaitersKnown
  <2>2. QED
    BY <1>2, <2>1, EnterLocking, FinishLocking DEF Acquire, MayEnter
<1>3. CASE IssueRead(r)
  BY <1>3, InnerLockType DEF IssueRead, TypeOK, Locking, OneOwner, HoldersRun,
     WaitersKnown, Running, InProvider, Places
<1>4. CASE TakeInnerLock(r)
  <2>1. CASE Finish(r)
    BY <2>1, FinishLocking
  <2>2. CASE /\ lock' = [lock EXCEPT ![InnerLock(r)] = r]
             /\ pc' = [pc EXCEPT ![r] = "core"]
    BY <1>4, <2>2, InnerLockType DEF TakeInnerLock, TypeOK, Locking, OneOwner, HoldersRun,
       WaitersKnown, Running, InProvider, Places, Locks
  <2>3. QED
    BY <1>4, <2>1, <2>2 DEF TakeInnerLock
<1>5. CASE QueuedExpire(r) \/ WithdrawWaiting(r) \/ Return(r) \/ DeliverRead(r) \/ PublishRefresh(r)
  BY <1>5, FinishLocking DEF QueuedExpire, WithdrawWaiting, Return, DeliverRead, PublishRefresh
<1>6. CASE ProviderAnswers(r)
  BY <1>6, MoveLocking DEF ProviderAnswers, InProvider
<1>7. CASE PublishWrite(r)
  BY <1>7, MoveLocking, FinishLocking DEF PublishWrite, InProvider
<1>8. CASE RefreshAnswers(r)
  BY <1>8, MoveLocking, FinishLocking DEF RefreshAnswers, InProvider
<1>9. CASE ExecuteOperation(r)
  BY <1>9, InnerLockType DEF ExecuteOperation, TypeOK, Locking, OneOwner, HoldersRun,
     WaitersKnown, Running, InProvider, Places
<1>10. QED
  BY <1>1, <1>2, <1>3, <1>4, <1>5, <1>6, <1>7, <1>8, <1>9 DEF RequestNext

\* Locking is inductive given the types.
LEMMA LockingStep == TypeOK /\ Locking /\ [Next]_vars => Locking'
<1> SUFFICES ASSUME TypeOK, Locking, [Next]_vars PROVE Locking'
  OBVIOUS
<1> USE DEF lifeVars, requestVars, closeVars, dataVars
<1>1. ASSUME NEW a \in Accounts, Start(a) \/ AdapterSnapshot(a) PROVE Locking'
  BY <1>1, LockingUntouched DEF Start, AdapterSnapshot
<1>2. ASSUME NEW r \in Requests, RequestNext(r) PROVE Locking'
  BY <1>2, RequestLocking
<1>3. ASSUME NEW k \in Kinds, CleanupNext(k) PROVE Locking'
  <2>1. CASE CleanupUnconfirmed(k)
    BY <2>1, RetireLocking DEF CleanupUnconfirmed
  <2>2. CASE UNCHANGED <<pc, lock>>
    BY <2>2, LockingUntouched
  <2>3. QED
    BY <1>3, <2>1, <2>2 DEF CleanupNext, RunCleanup, BeginCleanup, CleanupStep,
       DispatchCleanup, CleanupExpire, CleanupReturn, RetireCleanup
<1>4. ASSUME NEW l \in Locks, CloseTakesLock(l) PROVE Locking'
  BY <1>4 DEF CloseTakesLock, TypeOK, Locking, OneOwner, HoldersRun,
     WaitersKnown, Running, InProvider
<1>5. ASSUME NEW result \in {"closed", "failed"}, CloseEnds(result) PROVE Locking'
  BY <1>5, InnerLockType DEF CloseEnds, TypeOK, Locking, OneOwner, HoldersRun,
     WaitersKnown, Running, InProvider, Locks
<1>6. CASE CloseNext
  <2>1. CASE UNCHANGED <<pc, lock>>
    BY <2>1, LockingUntouched
  <2>2. QED
    BY <1>4, <1>5, <1>6, <2>1 DEF CloseNext, Close, CloseBegin, CloseJoined, CloseGrace,
       CloseDrained, CloseReturn, CloseExpire
<1>7. CASE Watchdog
  BY <1>7, RetireLocking DEF Watchdog
<1>8. CASE UNCHANGED vars
  BY <1>8, LockingUntouched DEF vars
<1>9. QED
  BY <1>1, <1>2, <1>3, <1>6, <1>7, <1>8 DEF Next

\* Nobody runs before the first request.
LEMMA LockingInit == Init => Locking
BY DEF Init, Locking, OneOwner, HoldersRun, WaitersKnown, Running, InProvider, Locks

\* Locking holds in every reachable state.
LEMMA LockingHolds == Spec => []Locking
BY TypeCorrect, LockingInit, LockingStep, PTL DEF Spec

\* Whatever was cancelled meanwhile, every mutation in the adapter holds the
\* operation lock, and a settings or account call the lock of its domain.
THEOREM OwnershipSafe == Spec => []OneOwner
<1>1. Locking => OneOwner
  BY DEF Locking
<1>2. QED
  BY <1>1, LockingHolds, PTL

-----------------------------------------------------------------------------
(* Who moves in a step: one request, none, or all of them out of the process. *)

\* A step moves one request, or ends the process, or moves none.
LEMMA OneRequestMoves ==
    ASSUME Next
    PROVE  (\E r \in Requests : RequestNext(r)) \/ Retire \/ UNCHANGED <<pc, delivered>>
<1> USE DEF lifeVars, requestVars, closeVars, dataVars
<1>1. ASSUME NEW k \in Kinds, CleanupNext(k) PROVE Retire \/ UNCHANGED <<pc, delivered>>
  BY <1>1 DEF CleanupNext, RunCleanup, BeginCleanup, CleanupStep, DispatchCleanup,
     CleanupExpire, CleanupReturn, CleanupUnconfirmed, RetireCleanup
<1>2. CloseNext => UNCHANGED <<pc, delivered>>
  BY DEF CloseNext, Close, CloseBegin, CloseJoined, CloseGrace, CloseDrained,
     CloseTakesLock, CloseReturn, CloseExpire, CloseEnds
<1>3. ASSUME NEW a \in Accounts, Start(a) \/ AdapterSnapshot(a)
      PROVE  UNCHANGED <<pc, delivered>>
  BY <1>3 DEF Start, AdapterSnapshot
<1>4. QED
  BY <1>1, <1>2, <1>3 DEF Next, Watchdog

\* The step of one request leaves the place and locals of the others.
LEMMA OthersStay ==
    ASSUME TypeOK, NEW r \in Requests, NEW s \in Requests \ {r}, RequestNext(r)
    PROVE  pc'[s] = pc[s]
<1>1. Finish(r) \/ Enter(r) => pc'[s] = pc[s]
  BY DEF Finish, Enter, TypeOK
<1>2. QED
  BY <1>1 DEF RequestNext, Issue, Acquire, QueuedExpire, ExecuteOperation, IssueRead,
     TakeInnerLock, WithdrawWaiting, ProviderAnswers, Return, DeliverRead, PublishWrite,
     RefreshAnswers, PublishRefresh, TypeOK

-----------------------------------------------------------------------------
(***************************************************************************)
(* Cleanups.  While a cleanup is registered nobody enters, so the tasks it *)
(* recorded on admission stay the only ones it may have to wait for, and   *)
(* once it has waited none of them is running.                             *)
(***************************************************************************)
Recorded(k, r) ==
    /\ k = "disconnect" /\ Foreground(r) /\ Class[r] # "connect" =>
         /\ r = cleanup[k].foreground
         /\ cleanup[k].status \notin {"dispatch", "core"}
    /\ Class[r] = "capture-start" =>
         /\ r = cleanup[k].capture
         /\ cleanup[k].status \in {"admitted", "join-capture", "done"}

Preemption ==
    \A k \in Kinds, r \in Requests : Registered(k) /\ Running(r) => Recorded(k, r)

\* A step that leaves requests and cleanups alone cannot break the records.
LEMMA PreemptionUntouched ==
    ASSUME Preemption, UNCHANGED <<pc, cleanup>>
    PROVE  Preemption'
BY DEF Preemption, Registered, Recorded, Running, InProvider

\* Requests that leave, move on inside the provider or are reads need no record.
LEMMA PreemptionRequest ==
    ASSUME TypeOK, Preemption, NEW r \in Requests, RequestNext(r)
    PROVE  Preemption'
<1> USE DEF lifeVars, closeVars, dataVars
<1>1. ASSUME UNCHANGED cleanup,
             \A s \in Requests : Running(s)' => Running(s) \/ ~Foreground(s)
      PROVE  Preemption'
  BY <1>1 DEF Preemption, Registered, Recorded, Foreground, ReadClasses
<1>2. ASSUME UNCHANGED cleanup, MayEnter PROVE Preemption'
  BY <1>2 DEF MayEnter, CleanupPending, Preemption, Registered
<1>3. CASE Issue(r) \/ Acquire(r)
  <2>1. CASE MayEnter
    BY <1>2, <1>3, <2>1 DEF Issue, Acquire
  <2>2. CASE ~MayEnter
    BY <1>1, <1>3, <2>2 DEF Issue, Acquire, TypeOK, Running, InProvider, Places
  <2>3. QED
    BY <2>1, <2>2
<1>4. CASE IssueRead(r)
  BY <1>1, <1>4 DEF IssueRead, TypeOK, Running, InProvider, Places
<1>5. ASSUME Finish(r), UNCHANGED cleanup PROVE Preemption'
  BY <1>1, <1>5 DEF Finish, TypeOK, Running, InProvider, Places
<1>6. CASE ProviderAnswers(r)
  BY <1>1, <1>6 DEF ProviderAnswers, TypeOK, Running, InProvider, Places
<1>7. CASE TakeInnerLock(r)
  BY <1>1, <1>5, <1>7 DEF TakeInnerLock, TypeOK, Running, InProvider, Places
<1>8. CASE PublishWrite(r)
  BY <1>1, <1>5, <1>8 DEF PublishWrite, TypeOK, Running, InProvider, Places
<1>9. CASE RefreshAnswers(r)
  BY <1>1, <1>5, <1>9 DEF RefreshAnswers, TypeOK, Running, InProvider, Places
<1>10. CASE ExecuteOperation(r)
  BY <1>1, <1>10 DEF ExecuteOperation, TypeOK, Running, InProvider, Places
<1>11. QED
  BY <1>3, <1>4, <1>5, <1>6, <1>7, <1>8, <1>9, <1>10
     DEF RequestNext, QueuedExpire, WithdrawWaiting, Return, DeliverRead, PublishRefresh

\* Every step of a cleanup keeps its record of those it waits for.
LEMMA PreemptionCleanup ==
    ASSUME TypeOK, Locking, Preemption, NEW k \in Kinds, CleanupNext(k)
    PROVE  Preemption'
<1> USE DEF lifeVars, requestVars, closeVars, dataVars
<1>1. CASE RunCleanup(k)
  <2>1. \A r \in Requests : Running(r) /\ Foreground(r) => Owner = r
    BY DEF Locking, OneOwner, Owner
  <2>2. \A r \in Requests : Running(r) => Recorded(k, r)'
    BY <1>1, <2>1 DEF RunCleanup, TypeOK, Recorded, CaptureStart, Foreground, ReadClasses
  <2>3. QED
    BY <1>1, <2>2 DEF RunCleanup, TypeOK, Preemption, Registered, Recorded, Running, InProvider
<1>2. ASSUME NEW status \in CleanupStatus, SetStatus(k, status), UNCHANGED pc, Registered(k),
             \A r \in Requests : Running(r) /\ Recorded(k, r) => Recorded(k, r)'
      PROVE  Preemption'
  BY <1>2 DEF SetStatus, TypeOK, CleanupRecords, Preemption, Registered, Recorded, Running,
     InProvider
<1>3. ASSUME Registered(k), UNCHANGED pc,
             ~Live(cleanup[k].capture), SetStatus(k, AfterCapture(k))
      PROVE  Preemption'
  <2>1. \A r \in Requests : Running(r) /\ Recorded(k, r) => Class[r] # "capture-start"
    BY <1>3 DEF Recorded, Live
  <2>2. CASE Live(cleanup[k].foreground)
    BY <1>2, <1>3, <2>1, <2>2 DEF AfterCapture, SetStatus, TypeOK, CleanupRecords,
       CleanupStatus, Recorded
  <2>3. CASE ~Live(cleanup[k].foreground)
    <3>1. \A r \in Requests : Running(r) /\ Recorded(k, r) =>
            ~(k = "disconnect" /\ Foreground(r) /\ Class[r] # "connect")
      BY <2>3 DEF Recorded, Live
    <3>2. SetStatus(k, "dispatch")
      BY <1>3, <2>3 DEF AfterCapture
    <3>3. QED
      BY <1>2, <1>3, <2>1, <3>1, <3>2 DEF CleanupStatus, Recorded
  <2>4. QED
    BY <2>2, <2>3
<1>4. CASE BeginCleanup(k) \/ CleanupStep(k)
  <2>1. Registered(k) /\ UNCHANGED pc
    BY <1>4 DEF BeginCleanup, CleanupStep, Registered
  <2>2. CASE SetStatus(k, "join-capture") /\ cleanup[k].status = "admitted"
    BY <1>2, <2>1, <2>2 DEF SetStatus, TypeOK, CleanupRecords, CleanupStatus, Recorded
  <2>3. CASE /\ SetStatus(k, "dispatch") /\ cleanup[k].status = "join-foreground"
             /\ ~Live(cleanup[k].foreground)
    <3>1. \A r \in Requests : Running(r) /\ Recorded(k, r) =>
            /\ ~(k = "disconnect" /\ Foreground(r) /\ Class[r] # "connect")
            /\ Class[r] # "capture-start"
      BY <2>3 DEF Recorded, Live
    <3>2. QED
      BY <1>2, <2>1, <2>3, <3>1 DEF CleanupStatus, Recorded
  <2>4. QED
    BY <1>3, <1>4, <2>1, <2>2, <2>3 DEF BeginCleanup, CleanupStep
<1>5. CASE DispatchCleanup(k) \/ CleanupExpire(k) \/ CleanupReturn(k)
  BY <1>2, <1>5 DEF DispatchCleanup, CleanupExpire, CleanupReturn, SetStatus, TypeOK,
     CleanupRecords, CleanupStatus, Registered, Recorded
<1>6. CASE CleanupUnconfirmed(k)
  BY <1>6 DEF CleanupUnconfirmed, Retire, Preemption, Registered, NoCleanup
<1>7. CASE RetireCleanup(k)
  BY <1>7 DEF RetireCleanup, TypeOK, NoCleanup, Preemption, Registered, Recorded, Running,
     InProvider
<1>8. QED
  BY <1>1, <1>3, <1>4, <1>5, <1>6, <1>7 DEF CleanupNext

\* Preemption is inductive given the types and the locking.
LEMMA PreemptionStep == TypeOK /\ Locking /\ Preemption /\ [Next]_vars => Preemption'
<1> SUFFICES ASSUME TypeOK, Locking, Preemption, [Next]_vars PROVE Preemption'
  OBVIOUS
<1> USE DEF lifeVars, requestVars, closeVars, dataVars
<1>1. ASSUME NEW a \in Accounts, Start(a) \/ AdapterSnapshot(a) PROVE Preemption'
  BY <1>1, PreemptionUntouched DEF Start, AdapterSnapshot
<1>2. CASE CloseNext
  BY <1>2, PreemptionUntouched DEF CloseNext, Close, CloseBegin, CloseJoined, CloseGrace,
     CloseDrained, CloseTakesLock, CloseReturn, CloseExpire, CloseEnds
<1>3. CASE Watchdog
  BY <1>3 DEF Watchdog, Retire, Preemption, Registered, NoCleanup
<1>4. CASE UNCHANGED vars
  BY <1>4, PreemptionUntouched DEF vars
<1>5. QED
  BY <1>1, <1>2, <1>3, <1>4, PreemptionRequest, PreemptionCleanup DEF Next

\* Preemption holds in every reachable state.
LEMMA PreemptionHolds == Spec => []Preemption
<1>1. Init => Preemption
  BY DEF Init, Preemption, Registered, NoCleanup
<1>2. QED
  BY <1>1, PreemptionStep, TypeCorrect, LockingHolds, PTL DEF Spec

\* Down never runs beside a foreground transaction that is not the connection
\* it cancels: Core applies a save's protection outside its event lock.
THEOREM DownIsExclusive == Spec => []DownPreservesTransaction
<1>1. Preemption => DownPreservesTransaction
  BY DEF Preemption, Recorded, Registered, DownPreservesTransaction
<1>2. QED
  BY <1>1, PreemptionHolds, PTL

\* Neither Stop nor Down is sent while a capture Start may still compensate.
THEOREM CleanupsJoinCaptureStart == Spec => []CleanupFollowsCaptureStart
<1>1. Preemption => CleanupFollowsCaptureStart
  BY DEF Preemption, Recorded, Registered, CleanupFollowsCaptureStart
<1>2. QED
  BY <1>1, PreemptionHolds, PTL

-----------------------------------------------------------------------------
(***************************************************************************)
(* Sessions.  An epoch that is still current means that nobody signed in   *)
(* or out since it was captured, so the account it was captured in is      *)
(* still signed in and whatever was read since belongs to it.              *)
(***************************************************************************)
Sessions ==
    /\ ~ready /\ ~closing => \A r \in Requests : NeedsSession(r) => pc[r] = "idle"
    /\ \A r \in Requests :
         /\ epochOf[r] <= epoch
         /\ pc[r] = "queued" /\ NeedsSession(r) /\ epochOf[r] = epoch => account = "signed_in"
         /\ pc[r] = "answered" /\ ~Foreground(r) =>
              epochOf[r] <= answer[r].epoch /\ answer[r].epoch <= epoch
    /\ \A k \in Kinds : cleanup[k].epoch <= epoch

\* Sessions only depends on the account and on what was captured from it.
LEMMA SessionsUntouched ==
    ASSUME TypeOK, Sessions, UNCHANGED <<ready, account, epoch, pc, epochOf, answer>>,
           closing => closing',
           \A k \in Kinds : cleanup'[k].epoch \in {cleanup[k].epoch, epoch, 0}
    PROVE  Sessions'
BY DEF Sessions, TypeOK

\* A cleanup captures the epoch as it is accepted and keeps it until it retires.
LEMMA CleanupEpoch ==
    ASSUME TypeOK, NEW k \in Kinds, CleanupNext(k), ~CleanupUnconfirmed(k)
    PROVE  \A j \in Kinds : cleanup'[j].epoch \in {cleanup[j].epoch, epoch, 0}
<1>1. ASSUME NEW status \in CleanupStatus, SetStatus(k, status)
      PROVE  \A j \in Kinds : cleanup'[j].epoch = cleanup[j].epoch
  BY <1>1 DEF SetStatus, TypeOK, CleanupRecords
<1>2. CASE RunCleanup(k) \/ RetireCleanup(k)
  BY <1>2 DEF RunCleanup, RetireCleanup, NoCleanup, TypeOK
<1>3. CASE BeginCleanup(k) \/ CleanupStep(k)
  BY <1>1, <1>3 DEF BeginCleanup, CleanupStep, AfterCapture, CleanupStatus
<1>4. CASE DispatchCleanup(k) \/ CleanupExpire(k) \/ CleanupReturn(k)
  BY <1>1, <1>4 DEF DispatchCleanup, CleanupExpire, CleanupReturn, CleanupStatus
<1>5. QED
  BY <1>2, <1>3, <1>4 DEF CleanupNext

\* A read is admitted, and every operation that needs a session is, signed in.
LEMMA AdmittedInSession ==
    \A r \in Requests : NeedsSession(r) /\ Admitted(r) => ready /\ ~closing /\ account = "signed_in"
BY DEF NeedsSession, Admitted

\* Requests capture the current epoch, and captures only grow old.
LEMMA SessionsRequest ==
    ASSUME TypeOK, Sessions, NEW r \in Requests, RequestNext(r)
    PROVE  Sessions'
<1> USE DEF lifeVars, closeVars, dataVars
<1>1. ASSUME Finish(r), UNCHANGED <<lifeVars, cleanup>> PROVE Sessions'
  BY <1>1 DEF Finish, TypeOK, Sessions, Places
<1>2. CASE Issue(r)
  BY <1>2, AdmittedInSession DEF Issue, Enter, TypeOK, Sessions, Places
<1>3. CASE Acquire(r)
  BY <1>1, <1>3 DEF Acquire, Enter, TypeOK, Sessions, Places
<1>4. CASE IssueRead(r)
  BY <1>4, AdmittedInSession DEF IssueRead, TypeOK, Sessions, Places
<1>5. CASE TakeInnerLock(r)
  BY <1>1, <1>5 DEF TakeInnerLock, TypeOK, Sessions, Places
<1>6. CASE ProviderAnswers(r)
  BY <1>6 DEF ProviderAnswers, TypeOK, Answers, Sessions, Places
<1>7. CASE PublishWrite(r)
  BY <1>1, <1>7 DEF PublishWrite, TypeOK, Sessions, Places
<1>8. CASE RefreshAnswers(r)
  BY <1>1, <1>8 DEF RefreshAnswers, TypeOK, Answers, Sessions, Places
<1>9. CASE ExecuteOperation(r)
  BY <1>9 DEF ExecuteOperation, TypeOK, Sessions, Places
<1>10. QED
  BY <1>1, <1>2, <1>3, <1>4, <1>5, <1>6, <1>7, <1>8, <1>9
     DEF RequestNext, QueuedExpire, WithdrawWaiting, Return, DeliverRead, PublishRefresh

\* Sessions is inductive given the types.
LEMMA SessionsStep == TypeOK /\ Sessions /\ [Next]_vars => Sessions'
<1> SUFFICES ASSUME TypeOK, Sessions, [Next]_vars PROVE Sessions'
  OBVIOUS
<1> USE DEF lifeVars, requestVars, closeVars, dataVars
<1>1. ASSUME NEW a \in Accounts, Start(a) PROVE Sessions'
  BY <1>1 DEF Start, Sessions, TypeOK
<1>2. ASSUME NEW a \in Accounts, AdapterSnapshot(a) PROVE Sessions'
  <2>1. CASE epoch' = epoch /\ (account' = "signed_in" <=> account = "signed_in")
    BY <1>2, <2>1 DEF AdapterSnapshot, Sessions
  <2>2. CASE epoch' = epoch + 1
    <3>1. /\ epoch \in Nat
          /\ \A k \in Kinds : cleanup[k].epoch \in Nat
          /\ \A r \in Requests : epochOf[r] \in Nat /\ answer[r].epoch \in Nat
      BY DEF TypeOK, CleanupRecords, Answers
    <3>2. UNCHANGED <<ready, closing, pc, epochOf, answer, cleanup>>
      BY <1>2 DEF AdapterSnapshot
    <3>3. QED
      BY <2>2, <3>1, <3>2 DEF Sessions
  <2>3. QED
    BY <1>2, <2>1, <2>2 DEF AdapterSnapshot, EpochAfter
<1>3. CASE Retire
  BY <1>3 DEF Retire, Sessions, TypeOK, NoCleanup
<1>4. ASSUME NEW k \in Kinds, CleanupNext(k) PROVE Sessions'
  BY <1>3, <1>4, SessionsUntouched, CleanupEpoch DEF CleanupNext, RunCleanup, BeginCleanup,
     CleanupStep, DispatchCleanup, CleanupExpire, CleanupReturn, CleanupUnconfirmed,
     RetireCleanup
<1>5. CASE CloseNext
  BY <1>5, SessionsUntouched DEF CloseNext, Close, CloseBegin, CloseJoined, CloseGrace,
     CloseDrained, CloseTakesLock, CloseReturn, CloseExpire, CloseEnds
<1>6. CASE UNCHANGED vars
  BY <1>6, SessionsUntouched DEF vars
<1>7. QED
  BY <1>1, <1>2, <1>3, <1>4, <1>5, <1>6, SessionsRequest DEF Next, Watchdog

\* Sessions holds in every reachable state.
LEMMA SessionsHold == Spec => []Sessions
<1>1. Init => Sessions
  BY DEF Init, Sessions, NoCleanup
<1>2. QED
  BY <1>1, SessionsStep, TypeCorrect, PTL DEF Spec

\* After a sign-in or a sign-out whatever was captured before is old.
LEMMA ChangeMakesOld ==
    ASSUME TypeOK, Sessions, Next, AccountChanges
    PROVE  /\ \A k \in Kinds : cleanup'[k].epoch # epoch'
           /\ \A r \in Requests : epochOf'[r] # epoch'
<1> USE DEF lifeVars, requestVars, closeVars, dataVars
<1>1. CASE \E a \in Accounts : AdapterSnapshot(a)
  <2>1. epoch' = epoch + 1 /\ UNCHANGED <<cleanup, epochOf>>
    BY <1>1 DEF AdapterSnapshot, EpochAfter, AccountChanges
  <2>2. /\ epoch \in Nat
        /\ \A k \in Kinds : cleanup[k].epoch \in Nat
        /\ \A r \in Requests : epochOf[r] \in Nat
    BY DEF TypeOK, CleanupRecords
  <2>3. QED
    BY <2>1, <2>2 DEF Sessions
<1>2. ASSUME NEW r \in Requests, RequestNext(r) PROVE account' = account
  BY <1>2 DEF RequestNext, Issue, Acquire, QueuedExpire, ExecuteOperation, IssueRead,
     TakeInnerLock, WithdrawWaiting, ProviderAnswers, Return, DeliverRead, PublishWrite,
     RefreshAnswers, PublishRefresh
<1>3. ASSUME NEW k \in Kinds, CleanupNext(k) PROVE account' = account
  BY <1>3 DEF CleanupNext, RunCleanup, BeginCleanup, CleanupStep, DispatchCleanup,
     CleanupExpire, CleanupReturn, CleanupUnconfirmed, RetireCleanup, Retire
<1>4. CloseNext => account' = account
  BY DEF CloseNext, Close, CloseBegin, CloseJoined, CloseGrace, CloseDrained, CloseTakesLock,
     CloseReturn, CloseExpire, CloseEnds
<1>5. QED
  BY <1>1, <1>2, <1>3, <1>4 DEF Next, Start, Watchdog, Retire, AccountChanges

\* The second look of a cleanup is taken under the dispatch lock, in the turn
\* that calls the adapter.
LEMMA CleanupDispatchesInSession ==
    ASSUME TypeOK, Next, NEW k \in Kinds,
           cleanup[k].status # "core", cleanup'[k].status = "core"
    PROVE  cleanup[k].epoch = epoch
<1> USE DEF lifeVars, requestVars, closeVars, dataVars
<1>1. ~Retire /\ cleanup' # cleanup
  BY DEF Retire, NoCleanup
<1>2. ASSUME NEW r \in Requests, RequestNext(r) PROVE cleanup' = cleanup
  BY <1>2 DEF RequestNext, Issue, Acquire, QueuedExpire, ExecuteOperation, IssueRead,
     TakeInnerLock, WithdrawWaiting, ProviderAnswers, Return, DeliverRead, PublishWrite,
     RefreshAnswers, PublishRefresh
<1>3. CloseNext => cleanup' = cleanup
  BY DEF CloseNext, Close, CloseBegin, CloseJoined, CloseGrace, CloseDrained, CloseTakesLock,
     CloseReturn, CloseExpire, CloseEnds
<1>4. \E j \in Kinds : CleanupNext(j)
  BY <1>1, <1>2, <1>3 DEF Next, Start, AdapterSnapshot, Watchdog
<1> PICK j \in Kinds : CleanupNext(j)
  BY <1>4
<1>5. ASSUME NEW status, SetStatus(j, status) PROVE j = k /\ status = "core"
  BY <1>5 DEF SetStatus, TypeOK, CleanupRecords
<1>6. ~RunCleanup(j) /\ ~RetireCleanup(j)
  BY DEF RunCleanup, RetireCleanup, NoCleanup, TypeOK
<1>7. ~BeginCleanup(j) /\ ~CleanupStep(j) /\ ~CleanupExpire(j) /\ ~CleanupReturn(j)
  BY <1>5 DEF BeginCleanup, CleanupStep, AfterCapture, CleanupExpire, CleanupReturn
<1>8. DispatchCleanup(j)
  BY <1>1, <1>6, <1>7 DEF CleanupNext, CleanupUnconfirmed
<1>9. QED
  BY <1>5, <1>8 DEF DispatchCleanup

\* An operation gets its lock, a read its provider call, after a look at the
\* session taken in the same turn.
LEMMA RequestStartsInSession ==
    ASSUME TypeOK, Locking, Sessions, Next, NEW r \in Requests, Started(r)
    PROVE  epochOf'[r] = epoch /\ (NeedsSession(r) => account = "signed_in")
<1>1. CASE Foreground(r)
  <2> USE DEF lifeVars, requestVars, closeVars, dataVars
  <2>1. lock["operation"] # r /\ lock'["operation"] = r
    BY <1>1 DEF Started
  <2>2. ~Retire /\ lock' # lock
    BY <2>1 DEF Retire, Locks
  <2>3. ASSUME NEW k \in Kinds, CleanupNext(k), ~CleanupUnconfirmed(k) PROVE lock' = lock
    BY <2>3 DEF CleanupNext, RunCleanup, BeginCleanup, CleanupStep, DispatchCleanup,
       CleanupExpire, CleanupReturn, RetireCleanup
  <2>4. ~CloseNext
    BY <2>1, <2>2 DEF CloseNext, Close, CloseBegin, CloseJoined, CloseGrace, CloseDrained,
       CloseTakesLock, CloseReturn, CloseExpire, CloseEnds, TypeOK, Locks
  <2> PICK s \in Requests : RequestNext(s)
    BY <2>2, <2>3, <2>4 DEF Next, Start, AdapterSnapshot, Watchdog, CleanupUnconfirmed
  <2>5. ~Finish(s)
    BY <2>1 DEF Finish, TypeOK, Locks
  <2>6. ~TakeInnerLock(s)
    BY <2>1, <2>5, InnerLockType DEF TakeInnerLock, TypeOK, Locks, Locking, WaitersKnown
  <2>7. Issue(s) \/ Acquire(s)
    BY <2>2, <2>5, <2>6 DEF RequestNext, QueuedExpire, ExecuteOperation, IssueRead,
       WithdrawWaiting, ProviderAnswers, Return, DeliverRead, PublishWrite, RefreshAnswers,
       PublishRefresh
  <2>8. Enter(s) /\ s = r
    BY <2>1, <2>2, <2>5, <2>7 DEF Issue, Acquire, Enter, TypeOK, Locks
  <2>9. CASE Issue(r)
    BY <2>9, AdmittedInSession DEF Issue, TypeOK
  <2>10. CASE Acquire(r)
    BY <2>5, <2>8, <2>10 DEF Acquire, Sessions
  <2>11. QED
    BY <2>7, <2>8, <2>9, <2>10
<1>2. CASE ~Foreground(r)
  <2>1. ~InProvider(r) /\ InProvider(r)'
    BY <1>2 DEF Started
  <2>2. pc' # pc /\ pc'[r] # "idle"
    BY <2>1 DEF InProvider
  <2>3. ~Retire
    BY <2>2 DEF Retire
  <2> PICK s \in Requests : RequestNext(s)
    BY <2>2, <2>3, OneRequestMoves
  <2>4. s = r
    BY <2>1, OthersStay DEF InProvider
  <2>5. ~Finish(r)
    BY <2>2 DEF Finish, TypeOK
  <2>6. IssueRead(r) \/ TakeInnerLock(r)
    BY <1>2, <2>1, <2>4, <2>5 DEF Locking, WaitersKnown, RequestNext, Issue, Acquire,
       QueuedExpire, ExecuteOperation, WithdrawWaiting, ProviderAnswers, Return, DeliverRead,
       PublishWrite, RefreshAnswers, PublishRefresh, InProvider
  <2>7. CASE IssueRead(r)
    BY <2>7, AdmittedInSession DEF IssueRead, TypeOK
  <2>8. CASE TakeInnerLock(r)
    BY <1>2, <2>5, <2>8 DEF TakeInnerLock, CurrentSession
  <2>9. QED
    BY <2>6, <2>7, <2>8
<1>3. QED
  BY <1>1, <1>2

\* However long it waited, no cleanup, operation or read starts in another
\* session than the one that accepted it, and a sign-in or a sign-out leaves
\* nothing behind that counts as a task of the new session.
THEOREM DispatchesInSession == Spec => DispatchInSession
<1>1. ASSUME TypeOK, Locking, Sessions, [Next]_vars
      PROVE  [/\ AccountChanges =>
                   /\ \A k \in Kinds : Registered(k)' => cleanup'[k].epoch # epoch'
                   /\ \A r \in Requests : pc'[r] # "idle" => epochOf'[r] # epoch'
              /\ \A k \in Kinds :
                   cleanup[k].status # "core" /\ cleanup'[k].status = "core"
                     => cleanup[k].epoch = epoch
              /\ \A r \in Requests :
                   Started(r) =>
                     epochOf'[r] = epoch /\ (NeedsSession(r) => account = "signed_in")]_vars
  BY <1>1, ChangeMakesOld, CleanupDispatchesInSession, RequestStartsInSession
<1>2. QED
  BY <1>1, SessionsHold, TypeCorrect, LockingHolds, PTL DEF Spec, DispatchInSession

\* What a read hands over was read in the session it is handed to.
THEOREM ReadsAreFresh == Spec => FreshAccountData
<1>1. ASSUME TypeOK, Sessions, [Next]_vars
      PROVE  [\A r \in Requests :
                ~Foreground(r) /\ pc[r] = "answered" /\ pc'[r] = "idle"
                  => delivered'.epoch = epoch]_delivered
  <2> SUFFICES ASSUME NEW r \in Requests, Next, delivered' # delivered,
                      ~Foreground(r), pc[r] = "answered", pc'[r] = "idle"
               PROVE  delivered'.epoch = epoch
    BY <1>1 DEF vars, dataVars
  <2>1. ~Retire
    BY DEF Retire, dataVars
  <2> PICK s \in Requests : RequestNext(s)
    BY <2>1, OneRequestMoves
  <2>2. s = r
    BY <1>1, OthersStay
  <2>3. DeliverRead(r)
    BY <2>2 DEF RequestNext, Issue, Acquire, QueuedExpire, ExecuteOperation, IssueRead,
       TakeInnerLock, WithdrawWaiting, ProviderAnswers, Return, PublishWrite, RefreshAnswers,
       PublishRefresh, dataVars
  <2>4. delivered' = HandOver(r) /\ epochOf[r] = epoch
    BY <2>3 DEF DeliverRead, CurrentSession
  <2>5. answer[r].epoch \in Nat /\ epoch \in Nat
    BY <1>1 DEF TypeOK, Answers
  <2>6. answer[r].epoch = epoch
    BY <1>1, <2>4, <2>5 DEF Sessions
  <2>7. QED
    BY <1>1, <2>4, <2>6 DEF HandOver, TypeOK, Answers
<1>2. QED
  BY <1>1, SessionsHold, TypeCorrect, PTL DEF Spec, FreshAccountData

-----------------------------------------------------------------------------
(***************************************************************************)
(* Settings.  Whoever holds an answer about the settings holds their lock, *)
(* so nothing newer than it can have been handed over meanwhile.           *)
(***************************************************************************)
Versions ==
    /\ delivered.save <= saved
    /\ \A r \in Requests :
         pc[r] \in {"answered", "refreshed"} /\ InnerLock(r) = "settings" =>
            delivered.save <= answer[r].save /\ answer[r].save <= saved

\* Only an answer about the settings says which save it belongs to.
LEMMA HandOverSave ==
    ASSUME TypeOK, NEW r \in Requests
    PROVE  HandOver(r).save = IF InnerLock(r) = "settings" THEN answer[r].save
                                                          ELSE delivered.save
<1>1. Class[r] \in Classes
  OBVIOUS
<1>2. InnerLock(r) = "settings" <=> Class[r] \in WriteClasses \cup {"settings-read"}
  BY <1>1 DEF InnerLock, WriteClasses, Classes
<1>3. QED
  BY <1>2 DEF HandOver, TypeOK, Answers

\* The holder of the settings lock hands its answer over and is done with it.
LEMMA HandOverVersions ==
    ASSUME TypeOK, Locking, Versions, NEW r \in Requests,
           pc[r] \in {"answered", "refreshed"}, pc'[r] \in {"idle", "refresh"},
           \A s \in Requests \ {r} : pc'[s] = pc[s] /\ answer'[s] = answer[s],
           delivered' = HandOver(r), saved' = saved
    PROVE  Versions'
<1>1. HandOver(r).save <= saved
  BY HandOverSave DEF Versions
<1>2. ASSUME NEW s \in Requests \ {r}, pc[s] \in {"answered", "refreshed"},
             InnerLock(s) = "settings"
      PROVE  HandOver(r).save <= answer[s].save
  <2>1. CASE InnerLock(r) = "settings"
    BY <1>2, <2>1 DEF Locking, OneOwner, InProvider
  <2>2. CASE InnerLock(r) # "settings"
    BY <1>2, <2>2, HandOverSave DEF Versions
  <2>3. QED
    BY <2>1, <2>2
<1>3. QED
  BY <1>1, <1>2 DEF Versions

\* Every step of a request keeps answers no older than what was delivered.
LEMMA VersionsRequest ==
    ASSUME TypeOK, Locking, Versions, NEW r \in Requests, RequestNext(r)
    PROVE  Versions'
<1> USE DEF lifeVars, closeVars, dataVars
<1>1. ASSUME UNCHANGED dataVars,
             \A s \in Requests : pc'[s] \in {"answered", "refreshed"} =>
                pc'[s] = pc[s] /\ answer'[s] = answer[s]
      PROVE  Versions'
  BY <1>1 DEF Versions
<1>2. ASSUME Finish(r), UNCHANGED dataVars PROVE Versions'
  BY <1>1, <1>2 DEF Finish, TypeOK
<1>3. ASSUME Finish(r), UNCHANGED saved, pc[r] \in {"answered", "refreshed"},
             delivered' \in {HandOver(r), delivered}
      PROVE  Versions'
  BY <1>2, <1>3, HandOverVersions DEF Finish, TypeOK
<1>4. CASE Issue(r) \/ Acquire(r) \/ ExecuteOperation(r) \/ IssueRead(r) \/ TakeInnerLock(r)
  BY <1>1, <1>2, <1>4 DEF Issue, Acquire, ExecuteOperation, IssueRead, TakeInnerLock, Enter,
     TypeOK
<1>5. CASE ProviderAnswers(r)
  BY <1>5 DEF ProviderAnswers, TypeOK, Answers, Versions
<1>6. CASE PublishWrite(r)
  BY <1>3, <1>6, HandOverVersions DEF PublishWrite, TypeOK
<1>7. CASE RefreshAnswers(r)
  BY <1>2, <1>7 DEF RefreshAnswers, TypeOK, Answers, Versions
<1>8. CASE DeliverRead(r) \/ PublishRefresh(r)
  BY <1>3, <1>8 DEF DeliverRead, PublishRefresh
<1>9. QED
  BY <1>2, <1>4, <1>5, <1>6, <1>7, <1>8
     DEF RequestNext, QueuedExpire, WithdrawWaiting, Return

\* Versions holds in every reachable state.
LEMMA VersionsHold == Spec => []Versions
<1>1. Init => Versions
  BY DEF Init, Versions, NoAnswer
<1>2. TypeOK /\ Locking /\ Versions /\ [Next]_vars => Versions'
  <2> SUFFICES ASSUME TypeOK, Locking, Versions, [Next]_vars PROVE Versions'
    OBVIOUS
  <2>1. CASE Retire
    BY <2>1 DEF Retire, Versions, dataVars
  <2>2. CASE UNCHANGED <<pc, answer, dataVars>>
    BY <2>2 DEF Versions, dataVars
  <2>3. ASSUME NEW k \in Kinds, CleanupNext(k) PROVE Versions'
    BY <2>1, <2>2, <2>3 DEF CleanupNext, RunCleanup, BeginCleanup, CleanupStep, DispatchCleanup,
       CleanupExpire, CleanupReturn, CleanupUnconfirmed, RetireCleanup, requestVars, dataVars
  <2>4. CASE CloseNext
    BY <2>2, <2>4 DEF CloseNext, Close, CloseBegin, CloseJoined, CloseGrace, CloseDrained,
       CloseTakesLock, CloseReturn, CloseExpire, CloseEnds, requestVars, dataVars
  <2>5. ASSUME NEW a \in Accounts, Start(a) \/ AdapterSnapshot(a) PROVE Versions'
    BY <2>2, <2>5 DEF Start, AdapterSnapshot, requestVars, dataVars
  <2>6. CASE UNCHANGED vars
    BY <2>2, <2>6 DEF vars, requestVars, dataVars
  <2>7. QED
    BY <2>1, <2>3, <2>4, <2>5, <2>6, VersionsRequest DEF Next, Watchdog
<1>3. QED
  BY <1>1, <1>2, TypeCorrect, LockingHolds, PTL DEF Spec

\* The settings a client was last given are never replaced by older ones.
THEOREM SettingsNeverRegress == Spec => SettingsOrder
<1>1. ASSUME TypeOK, Versions, [Next]_vars
      PROVE  [delivered'.save >= delivered.save]_delivered
  <2> SUFFICES ASSUME Next, delivered' # delivered
               PROVE  delivered'.save >= delivered.save
    BY <1>1 DEF vars, dataVars
  <2>1. ~Retire
    BY DEF Retire, dataVars
  <2> PICK r \in Requests : RequestNext(r)
    BY <2>1, OneRequestMoves
  <2>2. delivered' = HandOver(r) /\ pc[r] \in {"answered", "refreshed"}
    BY DEF RequestNext, Issue, Acquire, QueuedExpire, ExecuteOperation, IssueRead,
       TakeInnerLock, WithdrawWaiting, ProviderAnswers, Return, DeliverRead, PublishWrite,
       RefreshAnswers, PublishRefresh, dataVars
  <2>3. QED
    BY <1>1, <2>2, HandOverSave DEF Versions, TypeOK, Answers
<1>2. QED
  BY <1>1, VersionsHold, TypeCorrect, PTL DEF Spec, SettingsOrder

-----------------------------------------------------------------------------
(***************************************************************************)
(* Shutdown.  Reads and cleanups leave with the drain, which names all of  *)
(* them because nothing is admitted any more; the others cannot outlive    *)
(* the three locks.                                                        *)
(***************************************************************************)
Tearing == Locks \cup {"adapter", "closed"}

Shutdown ==
    /\ close # "open" => closing
    /\ close \in {"drain", "drain-cancelled"} =>
         /\ \A r \in Requests :
              Class[r] \in ReadClasses /\ pc[r] # "idle" => <<"caller", r>> \in drained.tasks
         /\ \A k \in Kinds : cleanup[k].status \notin {"none", "done"} => k \in drained.cleanups
    /\ close \in Tearing =>
         /\ \A r \in Requests : Class[r] \in ReadClasses => pc[r] = "idle"
         /\ \A k \in Kinds : cleanup[k].status \in {"none", "done"}
    /\ close \in {"settings", "side-effect", "adapter"} => lock["operation"] = Closer
    /\ close \in {"side-effect", "adapter"} => lock["settings"] = Closer
    /\ close = "adapter" => lock["side-effect"] = Closer
    /\ close = "closed" => \A r \in Requests : ~InProvider(r) /\ pc[r] # "begun"

\* With the three locks taken and the reads gone nobody is in the provider.
LEMMA LocksEmptyProvider ==
    ASSUME TypeOK, Locking, Shutdown, close = "adapter"
    PROVE  \A r \in Requests : ~InProvider(r) /\ pc[r] # "begun"
<1> SUFFICES ASSUME NEW r \in Requests, InProvider(r) \/ pc[r] = "begun" PROVE FALSE
  OBVIOUS
<1>1. CASE Foreground(r)
  BY <1>1 DEF Locking, OneOwner, Running, Shutdown
<1>2. CASE Class[r] \in ReadClasses
  BY <1>2 DEF Shutdown, Tearing, InProvider
<1>3. CASE Class[r] = "nps"
  BY <1>3 DEF Locking, OneOwner, WaitersKnown, Foreground, InnerLock, Shutdown
<1>4. QED
  BY <1>1, <1>2, <1>3 DEF Foreground

\* After the end of the process no shutdown is in progress.
LEMMA ShutdownRetire ==
    ASSUME Retire
    PROVE  Shutdown'
BY DEF Retire, Shutdown, Tearing, Locks

\* A step that admits no read and no cleanup and keeps the locks of shutdown.
LEMMA ShutdownKept ==
    ASSUME TypeOK, Shutdown, UNCHANGED <<close, drained>>, closing => closing',
           \A r \in Requests : close # "open" =>
              /\ pc[r] = "idle" /\ Class[r] \in ReadClasses => pc'[r] = "idle"
              /\ close = "closed" /\ ~InProvider(r) /\ pc[r] # "begun" =>
                   ~InProvider(r)' /\ pc'[r] # "begun",
           \A k \in Kinds : close # "open" =>
              /\ cleanup[k].status \in {"none", "done"} =>
                    cleanup'[k].status \in {"none", "done"},
           \A l \in Locks : lock[l] = Closer => lock'[l] = Closer
    PROVE  Shutdown'
BY DEF Shutdown, Tearing, Locks

\* While shutdown tears down, no request enters the provider.
LEMMA ShutdownRequest ==
    ASSUME TypeOK, Locking, Shutdown, NEW r \in Requests, RequestNext(r)
    PROVE  Shutdown'
<1> USE DEF lifeVars, closeVars, dataVars
<1>1. UNCHANGED <<close, drained, closing, cleanup>>
  BY DEF RequestNext, Issue, Acquire, QueuedExpire,
     ExecuteOperation, IssueRead, TakeInnerLock, WithdrawWaiting,
     ProviderAnswers, Return, DeliverRead, PublishWrite, RefreshAnswers, PublishRefresh
<1>2. \A l \in Locks : lock[l] = Closer => lock'[l] = Closer
  BY InnerLockType DEF RequestNext, Issue, MayEnter, Acquire, QueuedExpire,
     ExecuteOperation, IssueRead, TakeInnerLock, WithdrawWaiting, ProviderAnswers, Return,
     DeliverRead, PublishWrite, RefreshAnswers, PublishRefresh, Enter, Finish, TypeOK
<1>3. \A s \in Requests : close # "open" =>
         /\ pc[s] = "idle" /\ Class[s] \in ReadClasses => pc'[s] = "idle"
         /\ close = "closed" /\ ~InProvider(s) /\ pc[s] # "begun" =>
              ~InProvider(s)' /\ pc'[s] # "begun"
  <2> SUFFICES ASSUME close # "open"
               PROVE  /\ pc[r] = "idle" /\ Class[r] \in ReadClasses => pc'[r] = "idle"
                      /\ close = "closed" /\ ~InProvider(r) /\ pc[r] # "begun" =>
                           ~InProvider(r)' /\ pc'[r] # "begun"
    BY OthersStay DEF InProvider
  <2>1. closing
    BY DEF Shutdown
  <2>2. CASE Finish(r)
    BY <2>2 DEF Finish, TypeOK, InProvider
  <2>3. CASE Issue(r) \/ Acquire(r)
    BY <2>1, <2>2, <2>3 DEF Issue, Acquire, Foreground, InProvider, TypeOK
  <2>4. CASE IssueRead(r)
    BY <2>1, <2>4 DEF IssueRead, Admitted, NeedsSession, Foreground, ReadClasses
  <2>5. CASE ExecuteOperation(r)
    BY <2>5 DEF ExecuteOperation, InProvider, TypeOK
  <2>6. QED
    BY <2>1, <2>2, <2>3, <2>4, <2>5 DEF RequestNext, QueuedExpire, TakeInnerLock, WithdrawWaiting,
       ProviderAnswers, Return, DeliverRead, PublishWrite, RefreshAnswers, PublishRefresh,
       InProvider, TypeOK
<1>4. QED
  BY <1>1, <1>2, <1>3, ShutdownKept

\* Once closing, no cleanup is accepted and the drained ones only end.
LEMMA ShutdownCleanup ==
    ASSUME TypeOK, Shutdown, NEW k \in Kinds, CleanupNext(k)
    PROVE  Shutdown'
<1> USE DEF lifeVars, requestVars, closeVars, dataVars
<1>1. CASE CleanupUnconfirmed(k)
  BY <1>1, ShutdownRetire DEF CleanupUnconfirmed
<1>2. ASSUME ~CleanupUnconfirmed(k)
      PROVE  UNCHANGED <<close, drained, closing, pc, lock>>
  BY <1>2 DEF CleanupNext, RunCleanup, BeginCleanup, CleanupStep, DispatchCleanup,
     CleanupExpire, CleanupReturn, RetireCleanup
<1>3. ASSUME ~CleanupUnconfirmed(k), close # "open", NEW j \in Kinds,
             cleanup[j].status \in {"none", "done"}
      PROVE  cleanup'[j].status \in {"none", "done"}
  <2>1. CASE RunCleanup(k)
    BY <1>3, <2>1 DEF RunCleanup, Shutdown
  <2>2. CASE RetireCleanup(k) \/ CleanupReturn(k) \/ CleanupExpire(k)
    BY <1>3, <2>2 DEF RetireCleanup, CleanupReturn, CleanupExpire, SetStatus, NoCleanup,
       TypeOK, CleanupRecords
  <2>3. CASE BeginCleanup(k) \/ CleanupStep(k) \/ DispatchCleanup(k)
    <3>1. cleanup[k].status \notin {"none", "done"}
      BY <2>3 DEF BeginCleanup, CleanupStep, DispatchCleanup
    <3>2. cleanup'[j] = cleanup[j]
      BY <1>3, <2>3, <3>1 DEF BeginCleanup, CleanupStep, DispatchCleanup, SetStatus, TypeOK
    <3>3. QED
      BY <1>3, <3>2
  <2>4. QED
    BY <1>3, <2>1, <2>2, <2>3 DEF CleanupNext
<1>4. QED
  BY <1>1, <1>2, <1>3, ShutdownKept DEF InProvider

\* Shutdown goes on only when everything it accepted has ended.
LEMMA ShutdownClose ==
    ASSUME TypeOK, Locking, Shutdown, CloseNext
    PROVE  Shutdown'
<1> USE DEF lifeVars, requestVars, dataVars
<1>1. CASE Close \/ CloseBegin \/ CloseJoined
  <2>1. Collect =>
          /\ \A r \in Requests :
               Class[r] \in ReadClasses /\ pc[r] # "idle" => <<"caller", r>> \in drained'.tasks
          /\ \A k \in Kinds :
               cleanup[k].status \notin {"none", "done"} => k \in drained'.cleanups
    BY DEF Collect, AcceptedTasks, AcceptedCleanups, ReadSlots, OperationChild
  <2>2. QED
    BY <1>1, <2>1 DEF Close, CloseBegin, CloseJoined, Shutdown, Tearing, Locks
<1>2. CASE CloseGrace
  BY <1>2 DEF CloseGrace, Shutdown, Tearing, Locks
<1>3. CASE CloseDrained
  <2>1. \A r \in Requests : Class[r] \in ReadClasses => pc[r] = "idle"
    <3> SUFFICES ASSUME NEW r \in Requests, Class[r] \in ReadClasses, pc[r] # "idle"
                 PROVE  FALSE
      OBVIOUS
    <3>1. <<"caller", r>> \in drained.tasks
      BY <1>3 DEF CloseDrained, Shutdown
    <3>2. ~Running(r)
      BY <1>3, <3>1 DEF CloseDrained, PendingTasks
    <3>3. pc[r] = "queued"
      BY <3>2 DEF Running, InProvider, TypeOK, Places
    <3>4. QED
      BY <3>3 DEF Locking, WaitersKnown, Foreground
  <2>2. \A k \in Kinds : cleanup[k].status \in {"none", "done"}
    BY <1>3 DEF CloseDrained, PendingCleanups, Shutdown
  <2>3. QED
    BY <1>3, <2>1, <2>2 DEF CloseDrained, Shutdown, Tearing, Locks
<1>4. ASSUME NEW l \in Locks, CloseTakesLock(l) PROVE Shutdown'
  BY <1>4 DEF CloseTakesLock, AfterLock, TypeOK, Shutdown, Tearing, Locks
<1>5. CASE CloseReturn
  BY <1>5, LocksEmptyProvider DEF CloseReturn, CloseEnds, Shutdown, Tearing, Locks, InProvider
<1>6. CASE CloseExpire
  BY <1>6 DEF CloseExpire, CloseEnds, Shutdown, Tearing, Locks
<1>7. QED
  BY <1>1, <1>2, <1>3, <1>4, <1>5, <1>6 DEF CloseNext

\* Shutdown holds in every reachable state.
LEMMA ShutdownHolds == Spec => []Shutdown
<1>1. Init => Shutdown
  BY DEF Init, Shutdown, Tearing, Locks
<1>2. TypeOK /\ Locking /\ Shutdown /\ [Next]_vars => Shutdown'
  <2> SUFFICES ASSUME TypeOK, Locking, Shutdown, [Next]_vars PROVE Shutdown'
    OBVIOUS
  <2>1. ASSUME UNCHANGED <<close, drained, pc, cleanup, lock>>, closing => closing'
        PROVE  Shutdown'
    BY <2>1, ShutdownKept DEF InProvider
  <2>2. ASSUME NEW a \in Accounts, Start(a) \/ AdapterSnapshot(a) PROVE Shutdown'
    BY <2>1, <2>2 DEF Start, AdapterSnapshot, requestVars, closeVars
  <2>3. CASE UNCHANGED vars
    BY <2>1, <2>3 DEF vars, lifeVars, requestVars, closeVars
  <2>4. QED
    BY <2>2, <2>3, ShutdownRequest, ShutdownCleanup, ShutdownClose, ShutdownRetire
       DEF Next, Watchdog
<1>3. QED
  BY <1>1, <1>2, TypeCorrect, LockingHolds, PTL DEF Spec

\* The provider is torn down after the last request and the last cleanup have
\* left it, and none enters it afterwards.
THEOREM TeardownIsLast == Spec => []CloseIsLast
<1>1. TypeOK /\ Locking /\ Shutdown => CloseIsLast
  BY LocksEmptyProvider DEF CloseIsLast, Shutdown, Tearing
<1>2. QED
  BY <1>1, ShutdownHolds, TypeCorrect, LockingHolds, PTL

-----------------------------------------------------------------------------
(***************************************************************************)
(* Cancellation.  The task behind an inner lock may be the child of an     *)
(* operation; because its operation then owns the operation lock, leaving  *)
(* out that one child leaves out every child.                              *)
(***************************************************************************)
Cancellation ==
    /\ TransactionsNeverCancelled
    /\ \A t \in drained.tasks : t[1] = "caller"

\* Shutdown drains callers: the child of an operation is its caller's to cancel.
LEMMA AcceptedAreCallers ==
    ASSUME TypeOK, Locking
    PROVE  \A t \in AcceptedTasks : t[1] = "caller"
<1>1. ASSUME NEW l \in Locks, NEW t \in HolderTask(l), t[1] # "caller"
      PROVE  t \in OperationChild
  <2>1. lock[l] \in Requests /\ Foreground(lock[l]) /\ t = <<"child", lock[l]>>
    BY <1>1 DEF HolderTask, Waiter
  <2>2. lock["operation"] = lock[l]
    BY <1>1, <2>1 DEF Locking, HoldersRun, OneOwner
  <2>3. QED
    BY <2>1, <2>2 DEF OperationChild, Owner
<1>2. QED
  BY <1>1 DEF AcceptedTasks, Locks

\* Cancelling a caller reaches a child only where the child compensates.
LEMMA CancelOfSafe ==
    \A r, s \in Requests :
        <<"child", r>> \in CancelOf(s) => Cancellable(r) \/ Class[r] \in ReadClasses
BY DEF CancelOf

\* Cancellation holds in every reachable state.
LEMMA CancellationHolds == Spec => []Cancellation
<1>1. Init => Cancellation
  BY DEF Init, Cancellation, TransactionsNeverCancelled, NothingAccepted
<1>2. TypeOK /\ Locking /\ Cancellation /\ [Next]_vars => Cancellation'
  <2> SUFFICES ASSUME TypeOK, Locking, Cancellation, [Next]_vars PROVE Cancellation'
    OBVIOUS
  <2> USE DEF lifeVars, requestVars, closeVars, dataVars
  <2>1. ASSUME cancelled' \subseteq cancelled, drained' \in {drained, NothingAccepted}
        PROVE  Cancellation'
    BY <2>1 DEF Cancellation, TransactionsNeverCancelled, NothingAccepted
  <2>2. CASE Retire
    BY <2>1, <2>2 DEF Retire
  <2>3. ASSUME NEW a \in Accounts, Start(a) \/ AdapterSnapshot(a) PROVE Cancellation'
    BY <2>1, <2>3 DEF Start, AdapterSnapshot
  <2>4. ASSUME NEW r \in Requests, RequestNext(r) PROVE Cancellation'
    BY <2>1, <2>4 DEF RequestNext, Issue, Acquire, QueuedExpire, ExecuteOperation,
       IssueRead, TakeInnerLock, WithdrawWaiting, ProviderAnswers, Return, DeliverRead,
       PublishWrite, RefreshAnswers, PublishRefresh, Finish
  <2>5. ASSUME NEW k \in Kinds, CleanupNext(k) PROVE Cancellation'
    <3>1. CASE BeginCleanup(k)
      <4>1. \/ cancelled' = cancelled
            \/ /\ cleanup[k].capture \in Requests
               /\ cancelled' = cancelled \cup CancelOf(cleanup[k].capture)
        BY <3>1 DEF BeginCleanup, Live, TypeOK, CleanupRecords
      <4>2. QED
        BY <3>1, <4>1, CancelOfSafe DEF BeginCleanup, Cancellation, TransactionsNeverCancelled
    <3>2. QED
      BY <2>1, <2>2, <2>5, <3>1 DEF CleanupNext, RunCleanup, CleanupStep, DispatchCleanup,
         CleanupExpire, CleanupReturn, CleanupUnconfirmed, RetireCleanup
  <2>6. CASE CloseBegin \/ CloseJoined
    <3>1. Collect => \A t \in drained'.tasks : t[1] = "caller"
      BY AcceptedAreCallers DEF Collect
    <3>2. QED
      BY <2>6, <3>1, CancelOfSafe, OwnerType
         DEF CloseBegin, CloseJoined, Cancellation, TransactionsNeverCancelled
  <2>7. CASE CloseGrace
    <3>1. \A t \in PendingTasks : t[1] = "caller" /\ t[2] \in Requests
      BY DEF PendingTasks, Cancellation, TypeOK, Tasks
    <3>2. QED
      BY <2>7, <3>1, CancelOfSafe DEF CloseGrace, Cancellation, TransactionsNeverCancelled
  <2>8. CASE CloseNext
    BY <2>1, <2>6, <2>7, <2>8 DEF CloseNext, Close, CloseDrained, CloseTakesLock, CloseReturn,
       CloseExpire, CloseEnds
  <2>9. CASE UNCHANGED vars
    BY <2>1, <2>9 DEF vars
  <2>10. QED
    BY <2>2, <2>3, <2>4, <2>5, <2>8, <2>9 DEF Next, Watchdog
<1>3. QED
  BY <1>1, <1>2, TypeCorrect, LockingHolds, PTL DEF Spec

\* Neither a cleanup nor shutdown ever cancels the child of a login, a logout
\* or a settings save: Core could act after nobody waits for it.
THEOREM TransactionsSurvive == Spec => []TransactionsNeverCancelled
<1>1. Cancellation => TransactionsNeverCancelled
  BY DEF Cancellation
<1>2. QED
  BY <1>1, CancellationHolds, PTL

-----------------------------------------------------------------------------
(* Controller implements OperationOwnership: locks, queues, recorded tasks *)
(* and deadlines together are one owner, preempted by its cleanups.        *)

\* The dispatch lock: the adapter executes one cleanup at a time.
OneCall ==
    \A j, k \in Kinds : cleanup[j].status = "core" /\ cleanup[k].status = "core" => j = k

\* The adapter never executes two cleanups at once.
LEMMA OneCallHolds == Spec => []OneCall
<1>1. Init => OneCall
  BY DEF Init, OneCall, NoCleanup
<1>2. TypeOK /\ OneCall /\ [Next]_vars => OneCall'
  <2> SUFFICES ASSUME TypeOK, OneCall, [Next]_vars PROVE OneCall'
    OBVIOUS
  <2> USE DEF lifeVars, requestVars, closeVars, dataVars
  <2>1. CASE UNCHANGED cleanup
    BY <2>1 DEF OneCall
  <2>2. CASE Retire
    BY <2>2 DEF Retire, OneCall, NoCleanup
  <2>3. ASSUME NEW k \in Kinds, CleanupNext(k) PROVE OneCall'
    <3>1. ASSUME \A j \in Kinds \ {k} : cleanup'[j] = cleanup[j],
                 cleanup'[k].status = "core" => DispatchFree(k)
          PROVE  OneCall'
      BY <3>1 DEF OneCall, DispatchFree
    <3>2. CASE DispatchCleanup(k)
      BY <3>1, <3>2 DEF DispatchCleanup, SetStatus, TypeOK
    <3>3. CASE RunCleanup(k) \/ RetireCleanup(k)
      BY <3>1, <3>3 DEF RunCleanup, RetireCleanup, NoCleanup, TypeOK
    <3>4. CASE BeginCleanup(k) \/ CleanupStep(k)
      BY <3>1, <3>4 DEF BeginCleanup, CleanupStep, AfterCapture, SetStatus, TypeOK, CleanupRecords
    <3>5. CASE CleanupExpire(k) \/ CleanupReturn(k)
      BY <3>1, <3>5 DEF CleanupExpire, CleanupReturn, SetStatus, TypeOK, CleanupRecords
    <3>6. QED
      BY <2>2, <2>3, <3>2, <3>3, <3>4, <3>5 DEF CleanupNext, CleanupUnconfirmed
  <2>4. ASSUME NEW r \in Requests, RequestNext(r) PROVE OneCall'
    BY <2>1, <2>4 DEF RequestNext, Issue, Acquire, QueuedExpire, ExecuteOperation,
       IssueRead, TakeInnerLock, WithdrawWaiting, ProviderAnswers, Return, DeliverRead,
       PublishWrite, RefreshAnswers, PublishRefresh
  <2>5. CASE CloseNext
    BY <2>1, <2>5 DEF CloseNext, Close, CloseBegin, CloseJoined, CloseGrace, CloseDrained,
       CloseTakesLock, CloseReturn, CloseExpire, CloseEnds
  <2>6. ASSUME NEW a \in Accounts, Start(a) \/ AdapterSnapshot(a) PROVE OneCall'
    BY <2>1, <2>6 DEF Start, AdapterSnapshot
  <2>7. QED
    BY <2>1, <2>2, <2>3, <2>4, <2>5, <2>6 DEF Next, Watchdog, vars
<1>3. QED
  BY <1>1, <1>2, TypeCorrect, PTL DEF Spec

-----------------------------------------------------------------------------
Pending == {k \in Kinds : Registered(k)}
Calling == {k \in Kinds : cleanup[k].status = "core"}
Shut == close \in {"adapter", "closed"}

\* A step that shows the promise nothing.
Invisible ==
    /\ Owner' = Owner /\ Pending' = Pending /\ Calling' = Calling
    /\ closing' = closing /\ Shut' = Shut

\* What the promise does not see is a stutter of it.
LEMMA InvisibleIsStutter == Invisible => UNCHANGED Promise!vars
BY DEF Invisible, Promise!vars, Pending, Calling, Shut

\* A step of a request shows the promise at most a change of owner.
LEMMA OwnerOnly ==
    ASSUME UNCHANGED <<cleanup, closing, close>>
    PROVE  Pending' = Pending /\ Calling' = Calling /\ closing' = closing /\ Shut' = Shut
BY DEF Pending, Calling, Shut, Registered

\* A request's step begins an operation, ends one, or shows nothing.
LEMMA RequestImplements ==
    ASSUME TypeOK, Locking, NEW r \in Requests, RequestNext(r)
    PROVE  Promise!Next \/ UNCHANGED Promise!vars
<1> USE DEF lifeVars, closeVars, dataVars
<1>1. UNCHANGED <<cleanup, closing, close>>
  BY DEF RequestNext, Issue, Acquire, QueuedExpire,
     ExecuteOperation, IssueRead, TakeInnerLock, WithdrawWaiting,
     ProviderAnswers, Return, DeliverRead, PublishWrite, RefreshAnswers, PublishRefresh
<1>2. CASE Owner' = Owner
  BY <1>1, <1>2, OwnerOnly, InvisibleIsStutter DEF Invisible
<1>3. CASE MayEnter /\ Enter(r) /\ ~closing
  <2>1. Owner = NoOne /\ Owner' = r /\ Pending = {}
    BY <1>3 DEF MayEnter, CleanupPending, Enter, Owner, TypeOK, Pending, Locks
  <2>2. Promise!Begin(r)
    BY <1>1, <1>3, <2>1, OwnerOnly DEF Promise!Begin, Pending, Calling, Shut
  <2>3. QED
    BY <2>2 DEF Promise!Next
<1>4. CASE Finish(r) /\ Owner' # Owner
  <2>1. Owner # NoOne /\ Owner' = NoOne
    BY <1>4 DEF Finish, Owner, TypeOK, Locks
  <2>2. Promise!End
    BY <1>1, <2>1, OwnerOnly DEF Promise!End, Pending, Calling, Shut
  <2>3. QED
    BY <2>2 DEF Promise!Next
<1>5. UNCHANGED lock => Owner' = Owner
  BY DEF Owner
<1>6. TakeInnerLock(r) => Finish(r) \/ Owner' = Owner
  BY InnerLockType DEF TakeInnerLock, Owner, TypeOK, Locking, WaitersKnown, Locks
<1>7. QED
  BY <1>2, <1>3, <1>4, <1>5, <1>6 DEF RequestNext, Issue, Acquire, QueuedExpire,
     ExecuteOperation, IssueRead, WithdrawWaiting, ProviderAnswers, Return, DeliverRead,
     PublishWrite, RefreshAnswers, PublishRefresh

\* The end of the process is the promise's Exit.
LEMMA RetireImplements ==
    ASSUME Retire, Owner # NoOne \/ Calling # {}
    PROVE  Promise!Next
<1>1. Owner' = NoOne /\ Pending' = {} /\ Calling' = {} /\ closing' /\ ~Shut'
  BY DEF Retire, Owner, Pending, Calling, Shut, Registered, NoCleanup, Locks
<1>2. Promise!Exit
  BY <1>1 DEF Promise!Exit, Pending, Calling, Shut
<1>3. QED
  BY <1>2 DEF Promise!Next

\* A cleanup is accepted, called, returned and retired in that order.
LEMMA CleanupImplements ==
    ASSUME TypeOK, Locking, Preemption, Shutdown, OneCall, NEW k \in Kinds, CleanupNext(k)
    PROVE  Promise!Next \/ UNCHANGED Promise!vars
<1> USE DEF lifeVars, requestVars, closeVars, dataVars
<1>1. CASE CleanupUnconfirmed(k)
  BY <1>1, RetireImplements DEF CleanupUnconfirmed, Calling
<1>2. ASSUME ~CleanupUnconfirmed(k)
      PROVE  Owner' = Owner /\ closing' = closing /\ Shut' = Shut
  BY <1>2 DEF CleanupNext, RunCleanup, BeginCleanup, CleanupStep, DispatchCleanup,
     CleanupExpire, CleanupReturn, RetireCleanup, Owner, Shut
<1>3. CASE RunCleanup(k)
  <2>1. Pending' = Pending \cup {k} /\ k \notin Pending /\ Calling' = Calling /\ ~closing
    BY <1>3 DEF RunCleanup, Pending, Calling, Registered, TypeOK
  <2>2. Promise!Accept(k)
    BY <1>2, <1>3, <2>1 DEF Promise!Accept, Pending, Calling, Shut, CleanupUnconfirmed,
       RunCleanup, Registered
  <2>3. QED
    BY <2>2 DEF Promise!Next
<1>4. ASSUME NEW status \in CleanupStatus \ {"none", "core"}, SetStatus(k, status),
             cleanup[k].status \notin {"none", "core"}
      PROVE  Pending' = Pending /\ Calling' = Calling
  BY <1>4 DEF SetStatus, Pending, Calling, Registered, TypeOK, CleanupRecords
<1>5. CASE BeginCleanup(k) \/ CleanupStep(k) \/ CleanupExpire(k)
  <2>1. Pending' = Pending /\ Calling' = Calling
    BY <1>4, <1>5 DEF BeginCleanup, CleanupStep, CleanupExpire, AfterCapture, CleanupStatus
  <2>2. QED
    BY <1>2, <1>1, <2>1, InvisibleIsStutter DEF Invisible
<1>6. CASE DispatchCleanup(k)
  <2>1. CASE cleanup[k].epoch # epoch
    BY <1>1, <1>2, <1>4, <1>6, <2>1, InvisibleIsStutter
       DEF DispatchCleanup, CleanupStatus, Invisible
  <2>2. CASE cleanup[k].epoch = epoch
    <3>1. /\ Pending' = Pending /\ k \in Pending
          /\ Calling = {} /\ Calling' = {k} /\ ~Shut
      BY <1>6, <2>2 DEF DispatchCleanup, DispatchFree, SetStatus, Pending, Calling, Registered,
         TypeOK, CleanupRecords, Shutdown, Tearing, Shut
    <3>2. Owner # NoOne => Recorded(k, Owner) /\ Foreground(Owner)
      BY <1>6 DEF Owner, Locking, HoldersRun, Locks, Preemption, Registered, DispatchCleanup
    <3>3. Promise!MayRunBeside(k)
      BY <1>6, <3>2 DEF Promise!MayRunBeside, Recorded, DispatchCleanup
    <3>4. Promise!Call(k)
      BY <1>2, <1>6, <3>1, <3>3
         DEF Promise!Call, Pending, Calling, Shut, CleanupUnconfirmed, DispatchCleanup
    <3>5. QED
      BY <3>4 DEF Promise!Next
  <2>3. QED
    BY <2>1, <2>2
<1>7. CASE CleanupReturn(k)
  <2>1. Pending' = Pending /\ Calling = {k} /\ Calling' = {}
    BY <1>7 DEF CleanupReturn, SetStatus, Pending, Calling, Registered, TypeOK, CleanupRecords,
       OneCall
  <2>2. Owner' = Owner /\ closing' = closing /\ Shut' = Shut
    BY <1>7 DEF CleanupReturn, Owner, Shut
  <2>3. Promise!Return(k)
    BY <2>1, <2>2 DEF Promise!Return, Pending, Calling, Shut
  <2>4. QED
    BY <2>3 DEF Promise!Next
<1>8. CASE RetireCleanup(k)
  <2>1. k \in Pending \ Calling /\ Pending' = Pending \ {k} /\ Calling' = Calling
    BY <1>8 DEF RetireCleanup, NoCleanup, Pending, Calling, Registered, TypeOK
  <2>2. Owner' = Owner /\ closing' = closing /\ Shut' = Shut
    BY <1>8 DEF RetireCleanup, Owner, Shut
  <2>3. Promise!Retire(k)
    BY <2>1, <2>2 DEF Promise!Retire, Pending, Calling, Shut
  <2>4. QED
    BY <2>3 DEF Promise!Next
<1>9. QED
  BY <1>1, <1>3, <1>5, <1>6, <1>7, <1>8 DEF CleanupNext

\* Shutdown stops admission, and shuts only when nobody is inside.
LEMMA CloseImplements ==
    ASSUME TypeOK, Locking, Shutdown, CloseNext
    PROVE  Promise!Next \/ UNCHANGED Promise!vars
<1> USE DEF lifeVars, requestVars, closeVars, dataVars
<1>1. Pending' = Pending /\ Calling' = Calling
  BY DEF CloseNext, Close, CloseBegin, CloseJoined, CloseGrace, CloseDrained, CloseTakesLock,
     CloseReturn, CloseExpire, CloseEnds, Pending, Calling, Registered
<1>2. Owner' = Owner
  BY DEF CloseNext, Close, CloseBegin, CloseJoined, CloseGrace, CloseDrained, CloseTakesLock,
     CloseReturn, CloseExpire, CloseEnds, Owner, TypeOK, Locks
<1>3. CASE closing' = closing /\ Shut' = Shut
  BY <1>1, <1>2, <1>3, InvisibleIsStutter DEF Invisible
<1>4. CASE Close
  <2>1. Promise!StopAdmitting
    BY <1>1, <1>2, <1>4 DEF Close, Promise!StopAdmitting, Pending, Calling
  <2>2. QED
    BY <2>1 DEF Promise!Next
<1>5. CASE CloseTakesLock("side-effect")
  <2>1. closing /\ closing' = closing /\ ~Shut /\ Shut'
    BY <1>5 DEF CloseTakesLock, AfterLock, Shutdown, Shut, Locks
  <2>2. Owner = NoOne /\ Calling = {}
    BY <1>5 DEF CloseTakesLock, Shutdown, Tearing, Owner, Calling, Locks
  <2>3. Promise!Shut
    BY <1>1, <1>2, <2>1, <2>2 DEF Promise!Shut, Pending, Calling, Shut
  <2>4. QED
    BY <2>3 DEF Promise!Next
<1>6. CASE CloseExpire /\ Shut
  <2>1. closing' = closing /\ ~Shut'
    BY <1>6 DEF CloseExpire, CloseEnds, Shut
  <2>2. Promise!Abandon
    BY <1>1, <1>2, <1>6, <2>1 DEF Promise!Abandon, Pending, Calling, Shut
  <2>3. QED
    BY <2>2 DEF Promise!Next
<1>7. ASSUME NEW l \in Locks \ {"side-effect"}, CloseTakesLock(l)
      PROVE  closing' = closing /\ Shut' = Shut
  BY <1>7 DEF CloseTakesLock, AfterLock, Shut, Locks
<1>8. CASE CloseBegin \/ CloseJoined \/ CloseGrace \/ CloseDrained \/ CloseReturn
           \/ (CloseExpire /\ ~Shut)
  BY <1>3, <1>8 DEF CloseBegin, CloseJoined, CloseGrace, CloseDrained, CloseReturn,
     CloseExpire, CloseEnds, Shut
<1>9. QED
  BY <1>3, <1>4, <1>5, <1>6, <1>7, <1>8 DEF CloseNext

\* Every step is a step of the promise or shows it nothing.
LEMMA StepImplements ==
    TypeOK /\ Locking /\ Preemption /\ Shutdown /\ OneCall /\ [Next]_vars
      => [Promise!Next]_(Promise!vars)
<1> SUFFICES ASSUME TypeOK, Locking, Preemption, Shutdown, OneCall, [Next]_vars
             PROVE  Promise!Next \/ UNCHANGED Promise!vars
  OBVIOUS
<1>1. ASSUME UNCHANGED <<lock, cleanup, closing, close>> PROVE UNCHANGED Promise!vars
  BY <1>1, OwnerOnly, InvisibleIsStutter DEF Invisible, Owner
<1>2. ASSUME NEW a \in Accounts, Start(a) \/ AdapterSnapshot(a) PROVE UNCHANGED Promise!vars
  BY <1>1, <1>2 DEF Start, AdapterSnapshot, requestVars, closeVars
<1>3. CASE Watchdog
  BY <1>3, RetireImplements DEF Watchdog
<1>4. CASE UNCHANGED vars
  BY <1>1, <1>4 DEF vars, lifeVars, requestVars, closeVars
<1>5. QED
  BY <1>2, <1>3, <1>4, RequestImplements, CleanupImplements, CloseImplements DEF Next

\* The locks, queues, recorded tasks and deadlines of the controller keep the
\* promise of one owner at a time, preempted by its cleanups alone.
THEOREM ControllerKeepsPromise == Spec => ImplementsOwnership
<1>1. Init => Promise!Init
  BY DEF Init, Promise!Init, Owner, Registered, NoCleanup, Locks
<1>2. QED
  BY <1>1, StepImplements, TypeCorrect, LockingHolds, PreemptionHolds, ShutdownHolds,
     OneCallHolds, PTL DEF Spec, ImplementsOwnership, Promise!Spec

===============================================================================
