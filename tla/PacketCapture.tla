---------------------------- MODULE PacketCapture ----------------------------
(***************************************************************************)
(* Packet capture: PacketCaptureCoordinator (packet_capture), its journal  *)
(* (capture_recovery) and the adapter's use of both at startup, on Stop,   *)
(* on a state update of the connector and at shutdown.                     *)
(*                                                                         *)
(* Core records outside the process.  A deadline is put on disk before     *)
(* Core is asked to record; a watchdog, the client's Stop, the             *)
(* compensation of a doubtful Start, shutdown and the recovery of the next *)
(* process all stop the same capture, one at a time, and the record is     *)
(* cleared once a Stop is confirmed or the tunnel is gone.                 *)
(*                                                                         *)
(* Simplifications:                                                        *)
(*  - the attempts of one Stop are one call of Core that ends either way;  *)
(*  - a deadline that ends the process is Crash, which may happen anywhere;*)
(*  - Core executes a Start before the next Stop it confirms or never, may *)
(*    end a recording by itself, and ends it with its tunnel;              *)
(*  - the controller keeps a client's Stop and shutdown away from a Start  *)
(*    in flight (CleanupFollowsCaptureStart of Controller);                *)
(*  - a startup that fails before recovery leaves everything as it was, and*)
(*    one that fails in it ends the process;                               *)
(*  - the journal is replaced atomically: it is read back as written;      *)
(*  - the checks of the folder and the byte limit before a Start, which    *)
(*    change nothing, are left out.                                        *)
(***************************************************************************)
EXTENDS Naturals

CONSTANTS
    MaxSeconds,     \* PACKET_CAPTURE_MAX_SECONDS, in ticks
    MaxClock,       \* bound of the model: the boot clock
    MaxTunnels,     \* bound of the model: connections
    MaxGeneration,  \* bound of the model: no Start beyond it
    MaxCrashes      \* bound of the model: processes that die

ASSUME CaptureAssumption ==
    /\ MaxSeconds \in Nat \ {0}
    /\ MaxClock \in Nat /\ MaxTunnels \in Nat /\ MaxGeneration \in Nat /\ MaxCrashes \in Nat

VARIABLES
    clock,          \* CLOCK_BOOTTIME
    tunnel,         \* the connector's connection: its number, 0 when disconnected
    tunnels,        \* how many there have been
    core,           \* Core's capture: "off", "asked" or "recording"
    journal,        \* the deadline on disk, 0 if there is none
    process,        \* "down", "recovering", "ready" or "closing"
    crashes,        \* how many processes died
    active,         \* the coordinator's view of the capture
    generation,     \* _generation
    connection,     \* _connection
    deadline,       \* _deadline
    watchdog,       \* watchdog_task and its arguments
    start,          \* the Start in flight and its arguments
    stopper         \* the owners in _stop_generation and their arguments

worldVars == <<clock, tunnel, tunnels, core>>
captureVars == <<active, generation, connection, deadline>>
vars == <<worldVars, journal, process, crashes, captureVars, watchdog, start, stopper>>

Owners == {"start", "stop", "watchdog", "close", "recover"}

\* A generation, its connection and its deadline, and where their owner is.
At(place, g, c, d) == [at |-> place, generation |-> g, connection |-> c, deadline |-> d]
None == At("none", 0, 0, 0)

\* What a process knows when it starts.
Forgotten ==
    /\ active' = FALSE /\ generation' = 0 /\ connection' = 0 /\ deadline' = 0
    /\ watchdog' = None /\ start' = None
    /\ stopper' = [o \in Owners |-> None]

Init ==
    /\ clock = 0 /\ tunnel = 0 /\ tunnels = 0 /\ core = "off" /\ journal = 0
    /\ process = "down" /\ crashes = 0
    /\ active = FALSE /\ generation = 0 /\ connection = 0 /\ deadline = 0
    /\ watchdog = None /\ start = None
    /\ stopper = [o \in Owners |-> None]

-----------------------------------------------------------------------------
(* The coordinator's helpers. *)

Initialized == process \in {"ready", "closing"}

\* The capture as it is now, to be stopped or watched.
Capture(place) == At(place, generation, connection, deadline)

\* Owners that are done; cancelling the watchdog withdraws its Stop with it.
StopperWithout(os) == [o \in Owners |-> IF o \in os THEN None ELSE stopper[o]]

\* What _snapshot_from_state of a disconnected tunnel finishes.
Left == active \/ watchdog.at # "none"

\* finish() by the owners os.
Finish(os) ==
    /\ journal' = 0
    /\ active' = FALSE /\ connection' = 0 /\ deadline' = 0
    /\ generation' = generation + 1
    /\ watchdog' = None
    /\ stopper' = StopperWithout(os \cup {"watchdog"})

\* clear() raises, before or after the record went: finish() changes nothing else.
ClearFails == journal' \in {journal, 0} /\ UNCHANGED captureVars

\* The exception of finish() ends its caller: a watchdog dies, recovery fails
\* and startup with it.
FinishFails(o) ==
    /\ ClearFails
    /\ watchdog' = IF o = "watchdog" THEN [watchdog EXCEPT !.at = "done"] ELSE watchdog
    /\ process' = IF o = "recover" THEN "closing" ELSE process
    /\ stopper' = IF o = "recover"
                    THEN [StopperWithout({o}) EXCEPT !["close"] = IF active THEN Capture("lock") ELSE None]
                    ELSE StopperWithout({o})

Unwatched == watchdog.at \in {"none", "done"}

\* What the owner of a Stop that did not end its capture does next.
GoOn(o) ==
    /\ watchdog' =
         CASE o = "watchdog" -> [watchdog EXCEPT !.at = "sleep"]
           [] o = "start" /\ Unwatched /\ active /\ stopper[o].generation = generation ->
                [stopper[o] EXCEPT !.at = "wait"]
           [] o = "recover" /\ Unwatched -> [stopper[o] EXCEPT !.at = "wait"]
           [] OTHER -> watchdog
    /\ stopper' = StopperWithout({o})
    /\ UNCHANGED <<journal, captureVars, process>>

StartAfter(o) == IF o = "start" THEN None ELSE start

-----------------------------------------------------------------------------
(* The world: time, the tunnel, Core, a process that dies. *)

Tick ==
    /\ clock < MaxClock
    /\ clock' = clock + 1
    /\ UNCHANGED <<tunnel, tunnels, core, journal, process, crashes, captureVars, watchdog,
                   start, stopper>>

TunnelUp ==
    /\ process = "ready" /\ tunnel = 0 /\ tunnels < MaxTunnels
    /\ tunnels' = tunnels + 1 /\ tunnel' = tunnels + 1
    /\ UNCHANGED <<clock, core, journal, process, crashes, captureVars, watchdog, start, stopper>>

\* status_update of a disconnected state; ignored until startup is over.
TunnelDown ==
    /\ tunnel # 0
    /\ tunnel' = 0 /\ core' = "off"
    /\ \/ Initialized /\ Left /\ Finish({}) /\ UNCHANGED process
       \/ Initialized /\ Left /\ FinishFails("none")
       \/ ~(Initialized /\ Left) /\ UNCHANGED <<journal, captureVars, watchdog, stopper, process>>
    /\ UNCHANGED <<clock, tunnels, crashes, start>>

CoreRecords ==
    /\ core = "asked"
    /\ core' = "recording"
    /\ UNCHANGED <<clock, tunnel, tunnels, journal, process, crashes, captureVars, watchdog,
                   start, stopper>>

\* The byte limit, or a Start that Core gives up.
CoreEnds ==
    /\ core # "off"
    /\ core' = "off"
    /\ UNCHANGED <<clock, tunnel, tunnels, journal, process, crashes, captureVars, watchdog,
                   start, stopper>>

Crash ==
    /\ process # "down" /\ crashes < MaxCrashes
    /\ crashes' = crashes + 1
    /\ process' = "down" /\ Forgotten
    /\ UNCHANGED <<worldVars, journal>>

-----------------------------------------------------------------------------
(* Start. *)

Deadline == clock + MaxSeconds

\* Mutant: a Start goes on where its record could not be written.
StoredOrNot == journal' \in {journal, Deadline}

Stored == journal' = Deadline

MayStart ==
    /\ process = "ready" /\ start.at = "none" /\ stopper["stop"].at = "none"
    /\ ~active /\ tunnel # 0
    /\ generation < MaxGeneration /\ Deadline <= MaxClock

\* store_deadline raises, before or after it replaced the record.
StartRefused ==
    /\ MayStart
    /\ journal' = Deadline
    /\ UNCHANGED <<worldVars, process, crashes, captureVars, watchdog, start, stopper>>

StartBegin ==
    /\ MayStart
    /\ Stored
    /\ generation' = generation + 1
    /\ active' = TRUE /\ connection' = tunnel /\ deadline' = Deadline
    /\ watchdog' = None /\ stopper' = StopperWithout({"watchdog"})
    /\ start' = At("core", generation + 1, tunnel, Deadline)
    /\ core' = "asked"
    /\ UNCHANGED <<clock, tunnel, tunnels, process, crashes>>

\* _arm_watchdog for the Start in flight.
Armed == [start EXCEPT !.at = "wait"]

\* Core answers yes: the watchdog, then a snapshot, which ends the capture of a
\* tunnel that went down meanwhile.
StartReturns ==
    /\ start.at = "core"
    /\ core # "asked" \/ start.connection # tunnel
    /\ start' = None
    /\ \/ tunnel # 0 /\ watchdog' = Armed /\ UNCHANGED <<journal, captureVars, stopper>>
       \/ tunnel = 0 /\ Finish({})
       \/ tunnel = 0 /\ watchdog' = Armed /\ ClearFails /\ UNCHANGED stopper
    /\ UNCHANGED <<worldVars, process, crashes>>

\* Mutant: the compensation is alone, without a watchdog behind it.
CompensationAlone == None

\* Behind the compensation of a Start there is the watchdog of its deadline.
CompensationWatch == Armed

\* _compensate_unconfirmed_start: Core failed, timed out, or the call was cancelled.
StartFails ==
    /\ start.at = "core"
    /\ watchdog' = CompensationWatch
    /\ stopper' = [stopper EXCEPT !["start"] = [start EXCEPT !.at = "lock"]]
    /\ start' = [start EXCEPT !.at = "compensate"]
    /\ UNCHANGED <<worldVars, journal, process, crashes, captureVars>>

\* A second cancellation.
WithdrawCompensation ==
    /\ start.at = "compensate"
    /\ start' = None /\ stopper' = StopperWithout({"start"})
    /\ UNCHANGED <<worldVars, journal, process, crashes, captureVars, watchdog>>

-----------------------------------------------------------------------------
(* _stop_generation, for every owner. *)

\* Mutant: the owners do not wait for each other.
LockIgnored == TRUE

LockFree == \A o \in Owners : stopper[o].at # "core"

Owns(o) == stopper[o].generation = generation /\ stopper[o].connection = connection

LockTake(o) ==
    /\ stopper[o].at = "lock" /\ LockFree
    /\ IF Owns(o) /\ active
         THEN /\ stopper' = [stopper EXCEPT ![o].at = "core"]
              /\ UNCHANGED <<journal, process, captureVars, watchdog, start>>
         ELSE GoOn(o) /\ start' = StartAfter(o)
    /\ UNCHANGED <<worldVars, crashes>>

\* Core confirms: the capture of this connection is over.
StopSucceeds(o) ==
    /\ stopper[o].at = "core"
    /\ core' = IF stopper[o].connection = tunnel THEN "off" ELSE core
    /\ start' = StartAfter(o)
    /\ \/ Owns(o) /\ Finish({o}) /\ UNCHANGED process
       \/ Owns(o) /\ FinishFails(o)
       \/ ~Owns(o) /\ GoOn(o)
    /\ UNCHANGED <<clock, tunnel, tunnels, crashes>>

\* Mutant: the attempts are used up, and so is the watchdog.
GiveUpForGood(o) ==
    /\ watchdog' = IF o = "watchdog" THEN [watchdog EXCEPT !.at = "done"] ELSE watchdog
    /\ stopper' = StopperWithout({o})
    /\ UNCHANGED <<journal, captureVars, process>>

\* The caller learns that nothing was stopped.
GiveUp(o) == GoOn(o)

\* A failure that is shown publishes a snapshot; a watchdog shows its first one.
ShowsFailure(o) == Initialized /\ tunnel = 0 /\ Left /\ o \in {"start", "watchdog"}

StopFails(o) ==
    /\ stopper[o].at = "core"
    /\ start' = StartAfter(o)
    /\ \/ ShowsFailure(o) /\ Finish({o}) /\ UNCHANGED process
       \/ ShowsFailure(o) /\ FinishFails(o)
       \/ ~(ShowsFailure(o) /\ o = "start") /\ GiveUp(o)
    /\ UNCHANGED <<worldVars, crashes>>

-----------------------------------------------------------------------------
(* The owners. *)

\* _watchdog: the deadline passed, or the pause between two rounds did.
WatchdogTries ==
    /\ watchdog.at = "sleep" \/ (watchdog.at = "wait" /\ clock >= watchdog.deadline)
    /\ IF watchdog.generation = generation /\ active
         THEN /\ watchdog' = [watchdog EXCEPT !.at = "stop"]
              /\ stopper' = [stopper EXCEPT !["watchdog"] = [watchdog EXCEPT !.at = "lock"]]
         ELSE watchdog' = [watchdog EXCEPT !.at = "done"] /\ UNCHANGED stopper
    /\ UNCHANGED <<worldVars, journal, process, crashes, captureVars, start>>

Stop ==
    /\ process = "ready" /\ start.at = "none" /\ stopper["stop"].at = "none"
    /\ IF active
         THEN stopper' = [stopper EXCEPT !["stop"] = Capture("lock")] /\ UNCHANGED watchdog
         ELSE stopper' = StopperWithout({"watchdog"}) /\ watchdog' = None
    /\ UNCHANGED <<worldVars, journal, process, crashes, captureVars, start>>

CloseBegin ==
    /\ process = "ready" /\ start.at = "none" /\ stopper["stop"].at = "none"
    /\ process' = "closing"
    /\ stopper' = IF active THEN [stopper EXCEPT !["close"] = Capture("lock")] ELSE stopper
    /\ UNCHANGED <<worldVars, journal, crashes, captureVars, watchdog, start>>

\* release_for_shutdown, after a Stop whose failure is ignored.
CloseEnd ==
    /\ process = "closing" /\ stopper["close"].at = "none"
    /\ journal' = IF active /\ journal = 0 THEN deadline ELSE journal
    /\ process' = "down" /\ Forgotten
    /\ UNCHANGED <<worldVars, crashes>>

\* recover() keeps the deadline of the process before.
Recovered == journal

\* initialize: nothing to recover, a tunnel that is gone, or a capture to stop.
Boot ==
    /\ process = "down"
    /\ \/ journal = 0 /\ process' = "ready" /\ UNCHANGED <<journal, captureVars, watchdog, stopper>>
       \/ /\ journal # 0 /\ tunnel = 0
          /\ \/ journal' = 0 /\ process' = "ready"
             \/ journal' = 0 /\ UNCHANGED process
          /\ UNCHANGED <<captureVars, watchdog, stopper>>
       \/ /\ journal # 0 /\ tunnel # 0
          /\ process' = "recovering"
          /\ generation' = 1 /\ active' = TRUE /\ connection' = tunnel /\ deadline' = Recovered
          /\ watchdog' = At("wait", 1, tunnel, Recovered)
          /\ stopper' = [stopper EXCEPT !["recover"] = At("lock", 1, tunnel, Recovered)]
          /\ UNCHANGED journal
    /\ UNCHANGED <<worldVars, crashes, start>>

\* The ready snapshot is the first that sees the tunnel.
BootEnds ==
    /\ process = "recovering" /\ stopper["recover"].at = "none"
    /\ \/ ~(tunnel = 0 /\ Left) /\ process' = "ready"
          /\ UNCHANGED <<journal, captureVars, watchdog, stopper>>
       \/ tunnel = 0 /\ Left /\ Finish({}) /\ process' = "ready"
       \/ tunnel = 0 /\ Left /\ FinishFails("recover")
    /\ UNCHANGED <<worldVars, crashes, start>>
-----------------------------------------------------------------------------
Next ==
    \/ Tick \/ TunnelUp \/ TunnelDown \/ CoreRecords \/ CoreEnds \/ Crash
    \/ StartRefused \/ StartBegin \/ StartReturns \/ StartFails \/ WithdrawCompensation
    \/ \E o \in Owners : LockTake(o) \/ StopSucceeds(o) \/ StopFails(o)
    \/ WatchdogTries \/ Stop \/ CloseBegin \/ CloseEnd \/ Boot \/ BootEnds

Spec == Init /\ [][Next]_vars

\* Time passes, a Start ends by its timeout, the attempts of a Stop end, the
\* event loop resumes whoever it owes a turn, asyncio.Lock serves its waiters in
\* order, and Core stops a recording if it is asked for ever.
Fairness ==
    /\ WF_vars(Tick)
    /\ WF_vars(StartReturns \/ StartFails)
    /\ WF_vars(WatchdogTries)
    /\ \A o \in Owners : SF_vars(LockTake(o)) /\ WF_vars(StopSucceeds(o) \/ StopFails(o))
    /\ SF_vars(StopSucceeds("watchdog"))

FairSpec == Spec /\ Fairness
-----------------------------------------------------------------------------
(* Properties. *)

Arguments(places) ==
    [at : places, generation : Nat, connection : 0..MaxTunnels, deadline : 0..MaxClock]

TypeOK ==
    /\ clock \in 0..MaxClock /\ tunnels \in 0..MaxTunnels /\ tunnel \in {0, tunnels}
    /\ core \in {"off", "asked", "recording"} /\ (tunnel = 0 => core = "off")
    /\ journal \in 0..MaxClock /\ crashes \in 0..MaxCrashes
    /\ process \in {"down", "recovering", "ready", "closing"}
    /\ active \in BOOLEAN /\ generation \in Nat
    /\ connection \in 0..MaxTunnels /\ deadline \in 0..MaxClock
    /\ watchdog \in Arguments({"none", "wait", "sleep", "stop", "done"})
    /\ start \in Arguments({"none", "core", "compensate"})
    /\ stopper \in [Owners -> Arguments({"none", "lock", "core"})]
    /\ watchdog.at = "stop" <=> stopper["watchdog"].at # "none"

\* A live process watches whatever Core may record, up to the deadline that is
\* on disk: after a Start that failed, was cancelled twice or returned late,
\* after a Stop nobody confirmed, and after a restart.
Watched ==
    process # "down" /\ core # "off" /\ start.at # "core" =>
        /\ active /\ connection = tunnel
        /\ watchdog.at \in {"wait", "sleep", "stop"}
        /\ watchdog.generation = generation /\ watchdog.connection = connection
        /\ watchdog.deadline = journal

\* No two owners ask Core to stop at the same time.
OneStopAtATime ==
    \A o, p \in Owners : stopper[o].at = "core" /\ stopper[p].at = "core" => o = p

\* A process that stays up does not leave Core recording.
CaptureEnds == (core = "recording" /\ process # "down") ~> (core # "recording" \/ process = "down")

Handoff == INSTANCE CaptureHandoff WITH record <- journal, core <- core

\* Whoever starts next finds a record of all that Core may be recording.
ImplementsHandoff == Handoff!Spec
=============================================================================
