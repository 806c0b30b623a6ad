----------------------------- MODULE ServiceProcess -----------------------------
(***************************************************************************)
(* One process of the backend service, from its bus connection to its exit *)
(* status: run and _run_service (__main__).                                *)
(*                                                                         *)
(* Publication order, shutdown order and the deadlines that bound every    *)
(* wait of it.  The name on the bus is what starts frontends and what      *)
(* keeps another process from being activated, so it appears last and      *)
(* disappears after the teardown; systemd restarts the service when its    *)
(* exit status is not zero.                                                *)
(*                                                                         *)
(* Simplifications:                                                        *)
(*  - the controller is what Controller shows of it: work accepted before  *)
(*    close drains, or close fails; close may also never return;           *)
(*  - the tasks of lifetime and of the stop event end when cancelled;      *)
(*  - a signal before its handlers exist ends the process by its default   *)
(*    action and is left out.                                              *)
(***************************************************************************)
EXTENDS Naturals

CONSTANT Callers    \* D-Bus calls of frontends

VARIABLES
    pc,             \* where the main coroutine is
    bus,            \* the connection, what is exported on it, its ingress and its name
    start,          \* the initialization task, controller.start()
    initialized,    \* the local variable of run
    pending,        \* has_pending_startup_recovery()
    stopped,        \* the stop event, and who set it
    calls,          \* accepted calls whose tasks are under way
    controller,     \* controller.close()
    left,           \* cleanup tasks that outlived their deadline
    threads,        \* a thread of Core that is not a daemon runs
    expired,        \* the absolute deadline of the shutdown has passed
    error,          \* cleanup_error
    code,           \* what run is about to return; 1 also stands for an exception
    exit            \* the exit status

setupVars == <<start, initialized, pending, stopped>>
workVars == <<calls, controller, left, threads>>
endVars == <<expired, error, code, exit>>
vars == <<pc, bus, setupVars, workVars, endVars>>

SetupPhases == {"connect", "install", "request", "signals"}
ServingPhases == {"starting", "serving"}
ShutdownPhases == {"fence", "join", "teardown", "uninstall", "release", "disconnect"}
Phases == SetupPhases \cup ServingPhases \cup ShutdownPhases
          \cup {"undo", "undoUninstall", "undoDisconnect", "tasks", "threads", "gone"}

Init ==
    /\ pc = "connect"
    /\ bus = [connected |-> FALSE, exported |-> FALSE, ingress |-> FALSE, name |-> FALSE]
    /\ start = "none" /\ initialized = FALSE /\ pending \in BOOLEAN /\ stopped = "no"
    /\ calls = {} /\ controller = "open" /\ left = {} /\ threads = FALSE
    /\ expired = FALSE /\ error = FALSE /\ code = 0 /\ exit = "none"

Goto(phase) == pc' = phase

\* The event loop runs until its tasks are retired.
LoopRuns == pc \notin {"threads", "gone"}

-----------------------------------------------------------------------------
(* Publication. *)

Connect ==
    /\ pc = "connect"
    /\ \/ Goto("install") /\ bus' = [bus EXCEPT !.connected = TRUE] /\ UNCHANGED code
       \/ Goto("tasks") /\ code' = 1 /\ UNCHANGED bus
    /\ UNCHANGED <<setupVars, workVars, expired, error, exit>>

\* The authorizer watches the bus, the object is exported, the ingress opens.
Install ==
    /\ pc = "install"
    /\ \/ /\ Goto("request")
          /\ bus' = [bus EXCEPT !.exported = TRUE, !.ingress = TRUE]
          /\ UNCHANGED code
       \/ Goto("undo") /\ code' = 1 /\ UNCHANGED bus
    /\ UNCHANGED <<setupVars, workVars, expired, error, exit>>

\* The name is granted or refused, or the request fails, granted or not.
RequestName ==
    /\ pc = "request"
    /\ \/ Goto("signals") /\ bus' = [bus EXCEPT !.name = TRUE] /\ UNCHANGED code
       \/ Goto("undo") /\ UNCHANGED <<bus, code>>
       \/ /\ Goto("undo") /\ code' = 1
          /\ \E granted \in BOOLEAN : bus' = [bus EXCEPT !.name = granted]
    /\ UNCHANGED <<setupVars, workVars, expired, error, exit>>

\* The signal handlers, then the three tasks of a published service.
StartService ==
    /\ pc = "signals"
    /\ \/ Goto("starting") /\ start' = "running" /\ UNCHANGED code
       \/ Goto("fence") /\ code' = 1 /\ UNCHANGED start
    /\ UNCHANGED <<bus, initialized, pending, stopped, workVars, expired, error, exit>>

-----------------------------------------------------------------------------
(* _shutdown_unowned_publication. *)

\* Mutant: the ingress is closed after the object, and not when that fails.
FenceAfterUnexport(next) ==
    /\ Goto(next)
    /\ \/ bus' = [bus EXCEPT !.ingress = FALSE, !.exported = FALSE] /\ UNCHANGED error
       \/ error' = TRUE /\ UNCHANGED bus
    /\ UNCHANGED <<setupVars, workVars, expired, code, exit>>

\* Closing the ingress cannot fail; removing the object can.
Fence(next) ==
    /\ Goto(next)
    /\ \/ bus' = [bus EXCEPT !.ingress = FALSE, !.exported = FALSE] /\ UNCHANGED error
       \/ bus' = [bus EXCEPT !.ingress = FALSE] /\ error' = TRUE
    /\ UNCHANGED <<setupVars, workVars, expired, code, exit>>

Undo == pc = "undo" /\ Fence("undoUninstall")

\* uninstall swallows its errors.
UninstallAnswers ==
    /\ pc \in {"undoUninstall", "uninstall"} /\ ~expired
    /\ Goto(IF pc = "uninstall" THEN "release" ELSE "undoDisconnect")
    /\ UNCHANGED <<bus, setupVars, workVars, endVars>>

\* bus.disconnect(): the name goes with the connection; or it raises.
Disconnect ==
    /\ pc \in {"undoDisconnect", "disconnect"}
    /\ Goto("tasks")
    /\ \/ bus' = [bus EXCEPT !.connected = FALSE, !.name = FALSE] /\ UNCHANGED error
       \/ error' = TRUE /\ UNCHANGED bus
    /\ code' = IF error' THEN 1 ELSE code
    /\ UNCHANGED <<setupVars, workVars, expired, exit>>

-----------------------------------------------------------------------------
(* A published service. *)

\* A frontend that has seen the name calls.
Accept(c) ==
    /\ bus.name /\ bus.exported /\ bus.ingress /\ c \notin calls
    /\ calls' = calls \cup {c}
    /\ UNCHANGED <<pc, bus, setupVars, controller, left, threads, endVars>>

CallEnds(c) ==
    /\ c \in calls /\ LoopRuns
    /\ calls' = calls \ {c}
    /\ UNCHANGED <<pc, bus, setupVars, controller, left, threads, endVars>>

\* controller.start() returns; Core may have started threads by then.  A
\* recovery may have been completed before the failure.
InitializationEnds ==
    /\ start \in {"running", "cancelling"} /\ LoopRuns
    /\ \/ start = "running" /\ start' = "ready" /\ UNCHANGED pending
       \/ start = "running" /\ start' = "failed" /\ pending' \in {pending, FALSE}
       \/ start = "cancelling" /\ start' = "cancelled" /\ UNCHANGED pending
    /\ threads' \in BOOLEAN
    /\ UNCHANGED <<pc, bus, initialized, stopped, calls, controller, left, endVars>>

\* A signal, or the idle lifetime, which stays for a cleanup that is pending
\* (ClientLease has the rest of its conditions).
Stop ==
    /\ pc \in ServingPhases /\ stopped = "no"
    /\ \/ stopped' = "signal"
       \/ calls = {} /\ (start = "ready" \/ ~pending) /\ stopped' = "idle"
    /\ UNCHANGED <<pc, bus, start, initialized, pending, workVars, endVars>>

\* A startup that failed ends the service only for cleanup that a new process
\* must do; otherwise it stays to show its error.
Started ==
    /\ pc = "starting" /\ start \in {"ready", "failed"}
    /\ initialized' = (start = "ready")
    /\ IF start = "failed" /\ pending
       THEN Goto("fence") /\ code' = 1
       ELSE Goto("serving") /\ UNCHANGED code
    /\ UNCHANGED <<bus, start, pending, stopped, workVars, expired, error, exit>>

StoppedWhileStarting ==
    /\ pc = "starting" /\ stopped # "no" /\ start = "running"
    /\ start' = "cancelling" /\ Goto("fence")
    /\ UNCHANGED <<bus, initialized, pending, stopped, workVars, endVars>>

StoppedWhileServing ==
    /\ pc = "serving" /\ stopped # "no" /\ Goto("fence")
    /\ UNCHANGED <<bus, setupVars, workVars, endVars>>

-----------------------------------------------------------------------------
(* _shutdown_published_service. *)

CloseIngress == pc = "fence" /\ Fence("join")

\* _finish_task_before_deadline for the initialization: a grace period, then on.
JoinInitialization ==
    /\ pc = "join" /\ Goto(IF initialized THEN "teardown" ELSE "uninstall")
    /\ \/ start # "cancelling" /\ UNCHANGED error
       \/ start = "cancelling" /\ error' = TRUE
    /\ UNCHANGED <<bus, setupVars, workVars, expired, code, exit>>

\* controller.close() begins, unless the deadline has passed.
CloseController ==
    /\ pc = "teardown" /\ controller = "open" /\ ~expired
    /\ controller' = "closing"
    /\ UNCHANGED <<pc, bus, setupVars, calls, left, threads, endVars>>

\* It drains what was accepted and closes the adapter, or gives up.
ControllerCloses ==
    /\ pc = "teardown" /\ controller = "closing"
    /\ Goto("uninstall")
    /\ \/ calls = {} /\ controller' = "closed" /\ UNCHANGED error
       \/ controller' = "failed" /\ error' = TRUE
    /\ UNCHANGED <<bus, setupVars, calls, left, threads, expired, code, exit>>

\* The release may have been carried out although its call failed.
ReleaseAnswers ==
    /\ pc = "release" /\ ~expired
    /\ Goto("disconnect")
    /\ \/ bus' = [bus EXCEPT !.name = FALSE] /\ UNCHANGED error
       \/ \E kept \in BOOLEAN : bus' = [bus EXCEPT !.name = kept] /\ error' = TRUE
    /\ UNCHANGED <<setupVars, workVars, expired, code, exit>>

AfterCleanup ==
    CASE pc = "teardown" -> "uninstall"
      [] pc = "uninstall" -> "release"
      [] pc = "release" -> "disconnect"
      [] pc = "undoUninstall" -> "undoDisconnect"

\* Mutant: the teardown of the controller is joined however long it takes.
CutOffUnlessClosing ==
    /\ pc \in {"undoUninstall", "teardown", "uninstall", "release"} /\ expired
    /\ controller # "closing"
    /\ Goto(AfterCleanup) /\ error' = TRUE
    /\ left' \in {left, left \cup {pc}}
    /\ controller' = IF pc = "teardown" THEN "failed" ELSE controller
    /\ UNCHANGED <<bus, setupVars, calls, threads, expired, code, exit>>

\* _run_cleanup_before_deadline after the deadline: the operation is not begun,
\* or its task is cancelled and left to itself.
CutOff ==
    /\ pc \in {"undoUninstall", "teardown", "uninstall", "release"} /\ expired
    /\ Goto(AfterCleanup) /\ error' = TRUE
    /\ left' \in {left, left \cup {pc}}
    /\ controller' = IF pc = "teardown" THEN "failed" ELSE controller
    /\ UNCHANGED <<bus, setupVars, calls, threads, expired, code, exit>>

DeadlinePasses ==
    /\ pc \in ShutdownPhases \cup {"undoUninstall"} /\ ~expired
    /\ expired' = TRUE
    /\ UNCHANGED <<pc, bus, setupVars, workVars, error, code, exit>>

-----------------------------------------------------------------------------
(* _run_service: the tasks and threads that are left. *)

\* A cancelled task that was left ends after all.
LeftTaskEnds(t) ==
    /\ t \in left /\ LoopRuns
    /\ left' = left \ {t}
    /\ UNCHANGED <<pc, bus, setupVars, calls, controller, threads, endVars>>

\* _retire_process_tasks: until two quiet looks, or for a second; then the loop
\* is closed and what is left of them never runs again.
RetireTasks ==
    /\ pc = "tasks" /\ Goto("threads")
    /\ UNCHANGED <<bus, setupVars, workVars, endVars>>

ThreadEnds ==
    /\ threads /\ pc # "gone"
    /\ threads' = FALSE
    /\ UNCHANGED <<pc, bus, setupVars, calls, controller, left, endVars>>

\* What systemd sees: a thread that goes on is cut off by os._exit.
ExitStatus == IF threads THEN "forced" ELSE IF code = 0 THEN "success" ELSE "failure"

\* _retire_process_threads: joined, or for a quarter of a second.
RetireThreads ==
    /\ pc = "threads" /\ Goto("gone")
    /\ exit' = ExitStatus
    /\ bus' = [bus EXCEPT !.connected = FALSE, !.name = FALSE, !.exported = FALSE]
    /\ UNCHANGED <<setupVars, workVars, expired, error, code>>

Publication == Connect \/ Install \/ RequestName \/ StartService
Answers == UninstallAnswers \/ ControllerCloses \/ ReleaseAnswers \/ InitializationEnds \/ ThreadEnds
Steps ==
    \/ Undo \/ Disconnect \/ Started \/ StoppedWhileStarting \/ StoppedWhileServing
    \/ CloseIngress \/ JoinInitialization \/ CloseController \/ CutOff
    \/ RetireTasks \/ RetireThreads

Next ==
    \/ Publication \/ Answers \/ Steps \/ Stop \/ DeadlinePasses
    \/ \E c \in Callers : Accept(c) \/ CallEnds(c)
    \/ \E t \in left : LeftTaskEnds(t)

Spec == Init /\ [][Next]_vars

\* The process takes its own steps and its timers fire.  Nothing is assumed of
\* the bus, of Core, of a cancelled task or of a thread.
FairSpec == Spec /\ WF_vars(Steps) /\ WF_vars(DeadlinePasses)

-----------------------------------------------------------------------------

TypeOK ==
    /\ pc \in Phases
    /\ bus \in [connected : BOOLEAN, exported : BOOLEAN, ingress : BOOLEAN, name : BOOLEAN]
    /\ start \in {"none", "running", "cancelling", "ready", "failed", "cancelled"}
    /\ initialized \in BOOLEAN /\ pending \in BOOLEAN /\ stopped \in {"no", "signal", "idle"}
    /\ calls \subseteq Callers /\ controller \in {"open", "closing", "closed", "failed"}
    /\ left \subseteq ShutdownPhases \cup {"undoUninstall"} /\ threads \in BOOLEAN
    /\ expired \in BOOLEAN /\ error \in BOOLEAN /\ code \in {0, 1}
    /\ exit \in {"none", "success", "failure", "forced"}

\* Whoever sees the name finds a complete service behind it.
NeverHalfPublished ==
    (bus.name /\ pc \in {"signals"} \cup ServingPhases) => bus.exported /\ bus.ingress

\* The name, which keeps the next process away from Core, is not given up
\* before the teardown has ended or failed; and once it has ended, no call is
\* under way and none can begin.
NameCoversWork ==
    /\ initialized /\ ~bus.name => controller \in {"closed", "failed"}
    /\ controller = "closed" => calls = {} /\ ~bus.ingress

\* A process that reports success has left nothing behind: the adapter is
\* closed, no step of the shutdown failed or was cut off, no thread was killed
\* at work, and cleanup that a new process must do ends in a restart unless
\* somebody stopped the service.
HonestExit ==
    exit = "success" =>
        /\ ~error /\ left = {} /\ ~threads /\ start \notin {"running", "cancelling"}
        /\ initialized => controller = "closed"
        /\ (pending /\ start # "none" /\ ~initialized) => stopped = "signal"

OrderlyService == NeverHalfPublished /\ NameCoversWork /\ HonestExit

\* A process that begins to leave is gone in the end, although its bus, Core,
\* cancelled tasks and threads may never answer.
ProcessEnds == (stopped # "no" \/ pc \in {"fence", "undo", "tasks"}) ~> (pc = "gone")

================================================================================
