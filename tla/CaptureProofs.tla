---------------------------- MODULE CaptureProofs ----------------------------
(***************************************************************************)
(* The proofs about PacketCapture, for all limits: what Core may record is *)
(* watched up to the deadline on disk, no two owners stop a capture at the *)
(* same time, and the journal keeps the promise of CaptureHandoff.         *)
(*                                                                         *)
(* Watched is not inductive.  It needs that a Start in flight still carries*)
(* the current capture while Core may record (Current), that a process     *)
(* which is down left a record behind (Recorded), and which owner of a     *)
(* Stop belongs to which phase (Phases).                                   *)
(***************************************************************************)
EXTENDS PacketCapture, TLAPS

Stoppers == [Owners -> Arguments({"none", "lock", "core"})]
Watchdogs == Arguments({"none", "wait", "sleep", "stop", "done"})
Starts == Arguments({"none", "core", "compensate"})

\* TypeOK without its Boolean variable and the watchdog's own Stop.
Typed ==
    /\ clock \in 0..MaxClock /\ tunnels \in 0..MaxTunnels /\ tunnel \in {0, tunnels}
    /\ core \in {"off", "asked", "recording"} /\ (tunnel = 0 => core = "off")
    /\ journal \in 0..MaxClock /\ crashes \in 0..MaxCrashes
    /\ process \in {"down", "recovering", "ready", "closing"}
    /\ generation \in Nat /\ connection \in 0..MaxTunnels /\ deadline \in 0..MaxClock
    /\ watchdog \in Watchdogs /\ start \in Starts /\ stopper \in Stoppers

\* Which owner of a Stop there may be, and in which phase of the process.
Phases ==
    /\ watchdog.at = "stop" <=> stopper["watchdog"].at # "none"
    /\ start.at = "compensate" <=> stopper["start"].at # "none"
    /\ start.at # "none" => process = "ready"
    /\ stopper["recover"].at # "none" => process = "recovering"
    /\ start.at = "core" => watchdog.at = "none"
    /\ process = "down" => watchdog.at = "none" /\ \A o \in Owners : stopper[o].at = "none"

\* A capture that the next process may find has a record.
Recorded == core # "off" => journal # 0 /\ tunnel # 0

\* While Core may record, the coordinator knows of it, and whoever is going to
\* watch it carries its arguments.
Current ==
    process # "down" /\ core # "off" =>
        /\ active /\ connection = tunnel
        /\ start.at = "core" =>
             start.generation = generation /\ start.connection = connection /\ start.deadline = journal
        /\ start.at # "core" =>
             /\ watchdog.at \in {"wait", "sleep", "stop"}
             /\ watchdog.generation = generation /\ watchdog.connection = connection
             /\ watchdog.deadline = journal

CaptureInv == Typed /\ Phases /\ Recorded /\ Current

-----------------------------------------------------------------------------
(* The coordinator's helpers. *)

LEMMA TokenType ==
    ASSUME NEW P, NEW p \in P, NEW g \in Nat, NEW c \in 0..MaxTunnels, NEW d \in 0..MaxClock
    PROVE At(p, g, c, d) \in Arguments(P)
BY DEF At, Arguments

LEMMA NoneTypes == CaptureAssumption => None \in Watchdogs /\ None \in Starts /\ None.at = "none"
                                        /\ None \in Arguments({"none", "lock", "core"})
BY DEF CaptureAssumption, None, At, Watchdogs, Starts, Arguments

LEMMA WithoutTypes ==
    ASSUME stopper \in Stoppers, NEW os
    PROVE /\ StopperWithout(os) \in Stoppers
          /\ \A o \in Owners : StopperWithout(os)[o] = IF o \in os THEN None ELSE stopper[o]
BY CaptureAssumption, NoneTypes DEF StopperWithout, Stoppers
-----------------------------------------------------------------------------
(* What the helpers leave behind. *)

LEMMA FinishTypes ==
    ASSUME Typed, NEW os, Finish(os)
    PROVE /\ journal' \in 0..MaxClock
          /\ generation' \in Nat /\ connection' \in 0..MaxTunnels /\ deadline' \in 0..MaxClock
          /\ watchdog' \in Watchdogs /\ stopper' \in Stoppers
          /\ active' \in BOOLEAN
          /\ watchdog'.at = "none"
          /\ \A o \in Owners : stopper'[o] = IF o \in os \cup {"watchdog"} THEN None ELSE stopper[o]
<1> USE CaptureAssumption, NoneTypes
<1>1. stopper' = StopperWithout(os \cup {"watchdog"})
  BY DEF Finish
<1>2. stopper \in Stoppers
  BY DEF Typed
<1>3. /\ stopper' \in Stoppers
      /\ \A o \in Owners : stopper'[o] = IF o \in os \cup {"watchdog"} THEN None ELSE stopper[o]
  BY <1>1, <1>2, WithoutTypes
<1>4. active' \in BOOLEAN
  BY DEF Finish
<1>5. /\ journal' \in 0..MaxClock /\ generation' \in Nat /\ connection' \in 0..MaxTunnels /\ deadline' \in 0..MaxClock
      /\ watchdog' = None
  BY DEF Finish, Typed, CaptureAssumption
<1> QED BY <1>3, <1>4, <1>5

LEMMA FinishFailsTypes ==
    ASSUME Typed, active \in BOOLEAN, NEW o \in Owners \cup {"none"}, FinishFails(o)
    PROVE /\ journal' \in {journal, 0} /\ journal' \in 0..MaxClock
          /\ UNCHANGED captureVars
          /\ watchdog' \in Watchdogs /\ stopper' \in Stoppers
          /\ process' \in {"closing", process} /\ (o # "recover" => process' = process)
          /\ o = "watchdog" => watchdog'.at = "done"
          /\ o # "watchdog" => watchdog' = watchdog
          /\ o # "recover" => stopper' = StopperWithout({o})
          /\ \A p \in Owners : p # o /\ p # "close" => stopper'[p] = stopper[p]
          /\ o \in Owners => stopper'[o].at = "none"
<1> USE CaptureAssumption, NoneTypes
<1>1. stopper \in Stoppers
  BY DEF Typed
<1>2. /\ StopperWithout({o}) \in Stoppers
      /\ \A p \in Owners : StopperWithout({o})[p] = IF p = o THEN None ELSE stopper[p]
  BY <1>1, WithoutTypes
<1>3. Capture("lock") \in Arguments({"none", "lock", "core"})
  BY TokenType DEF Capture, Typed
<1>4. stopper' \in Stoppers
  BY <1>2, <1>3 DEF FinishFails, Stoppers
<1>5. \A p \in Owners : p # o /\ p # "close" => stopper'[p] = stopper[p]
  BY <1>2 DEF FinishFails, Stoppers
<1>6. o \in Owners => stopper'[o].at = "none"
  BY <1>2 DEF FinishFails, Stoppers
<1>7. /\ watchdog' \in Watchdogs
      /\ o = "watchdog" => watchdog'.at = "done"
      /\ o # "watchdog" => watchdog' = watchdog
  BY DEF FinishFails, Typed, Watchdogs, Arguments
<1>8. journal' \in {journal, 0} /\ journal' \in 0..MaxClock /\ UNCHANGED captureVars
  BY DEF FinishFails, ClearFails, Typed, CaptureAssumption
<1>9. process' \in {"closing", process} /\ (o # "recover" => process' = process /\ stopper' = StopperWithout({o}))
  BY DEF FinishFails
<1> QED BY <1>4, <1>5, <1>6, <1>7, <1>8, <1>9

LEMMA GoOnTypes ==
    ASSUME Typed, NEW o \in Owners, GoOn(o)
    PROVE /\ UNCHANGED <<journal, captureVars, process>>
          /\ watchdog' \in Watchdogs /\ stopper' \in Stoppers
          /\ stopper' = StopperWithout({o})
          /\ \A p \in Owners : stopper'[p] = IF p = o THEN None ELSE stopper[p]
          /\ o = "watchdog" => watchdog' = [watchdog EXCEPT !.at = "sleep"] /\ watchdog'.at = "sleep"
          /\ o # "watchdog" => watchdog' = watchdog
                               \/ /\ o \in {"start", "recover"}
                                  /\ watchdog.at \in {"none", "done"} /\ watchdog'.at = "wait"
<1> USE CaptureAssumption, NoneTypes
<1>1. stopper \in Stoppers
  BY DEF Typed
<1>2. /\ StopperWithout({o}) \in Stoppers
      /\ \A p \in Owners : StopperWithout({o})[p] = IF p = o THEN None ELSE stopper[p]
  BY <1>1, WithoutTypes
<1>3. stopper[o] \in Arguments({"none", "lock", "core"})
  BY <1>1 DEF Stoppers
<1>4. [stopper[o] EXCEPT !.at = "wait"] \in Watchdogs /\ [stopper[o] EXCEPT !.at = "wait"].at = "wait"
  BY <1>3 DEF Arguments, Watchdogs
<1>5. [watchdog EXCEPT !.at = "sleep"] \in Watchdogs /\ [watchdog EXCEPT !.at = "sleep"].at = "sleep"
  BY DEF Typed, Arguments, Watchdogs
<1>6. /\ watchdog' \in Watchdogs
      /\ o = "watchdog" => watchdog' = [watchdog EXCEPT !.at = "sleep"] /\ watchdog'.at = "sleep"
      /\ o # "watchdog" => watchdog' = watchdog
                           \/ /\ o \in {"start", "recover"}
                              /\ watchdog.at \in {"none", "done"} /\ watchdog'.at = "wait"
  BY <1>4, <1>5 DEF GoOn, Unwatched, Typed
<1> QED BY <1>2, <1>6 DEF GoOn
-----------------------------------------------------------------------------
(* Types. *)

LEMMA ForgottenTypes ==
    ASSUME Forgotten
    PROVE /\ generation' \in Nat /\ connection' \in 0..MaxTunnels /\ deadline' \in 0..MaxClock
          /\ watchdog' \in Watchdogs /\ start' \in Starts /\ stopper' \in Stoppers
          /\ start'.at = "none" /\ watchdog'.at = "none"
          /\ \A o \in Owners : stopper'[o].at = "none"
BY CaptureAssumption, NoneTypes DEF Forgotten, Stoppers, CaptureAssumption

LEMMA InitCapture == Init => CaptureInv /\ active \in BOOLEAN
<1> SUFFICES ASSUME Init PROVE CaptureInv /\ active \in BOOLEAN
  OBVIOUS
<1> USE CaptureAssumption, NoneTypes
<1>1. stopper \in Stoppers /\ \A o \in Owners : stopper[o].at = "none"
  BY DEF Init, Stoppers
<1>2. Typed
  BY <1>1 DEF Init, Typed, CaptureAssumption
<1>3. Phases
  BY <1>1 DEF Init, Phases, Owners
<1>4. Recorded /\ Current
  BY DEF Init, Recorded, Current
<1>5. active \in BOOLEAN
  BY DEF Init
<1> QED BY <1>2, <1>3, <1>4, <1>5 DEF CaptureInv

LEMMA ActiveStep == active \in BOOLEAN /\ [Next]_vars => active' \in BOOLEAN
<1> SUFFICES ASSUME active \in BOOLEAN, [Next]_vars PROVE active' \in BOOLEAN
  OBVIOUS
<1> USE DEF captureVars, Finish, FinishFails, ClearFails, GoOn, Forgotten
<1>1. CASE Tick \/ TunnelUp \/ CoreRecords \/ CoreEnds \/ StartRefused \/ StartFails
  BY <1>1 DEF Tick, TunnelUp, CoreRecords, CoreEnds, StartRefused, StartFails
<1>2. CASE WithdrawCompensation \/ WatchdogTries \/ Stop \/ CloseBegin
  BY <1>2 DEF WithdrawCompensation, WatchdogTries, Stop, CloseBegin
<1>3. CASE Crash \/ StartBegin \/ CloseEnd
  BY <1>3 DEF Crash, StartBegin, CloseEnd
<1>4. CASE TunnelDown \/ StartReturns \/ BootEnds
  BY <1>4 DEF TunnelDown, StartReturns, BootEnds
<1>5. CASE Boot
  BY <1>5 DEF Boot
<1>6. ASSUME NEW o \in Owners, LockTake(o) \/ StopSucceeds(o) \/ StopFails(o)
      PROVE active' \in BOOLEAN
  BY <1>6 DEF LockTake, StopSucceeds, StopFails, GiveUp
<1>7. CASE UNCHANGED vars
  BY <1>7 DEF vars
<1> QED BY <1>1, <1>2, <1>3, <1>4, <1>5, <1>6, <1>7 DEF Next

LEMMA TypedStep ==
    ASSUME Typed, active \in BOOLEAN, [Next]_vars
    PROVE Typed'
<1> USE CaptureAssumption, NoneTypes DEF worldVars, captureVars
<1>1. CASE Tick \/ TunnelUp \/ CoreRecords \/ CoreEnds
  BY <1>1 DEF Tick, TunnelUp, CoreRecords, CoreEnds, Typed, CaptureAssumption
<1>2. CASE TunnelDown
  <2>1. CASE Finish({}) /\ UNCHANGED process
    BY <1>2, <2>1, FinishTypes DEF TunnelDown, Typed
  <2>2. CASE FinishFails("none")
    BY <1>2, <2>2, FinishFailsTypes DEF TunnelDown, Typed
  <2>3. CASE UNCHANGED <<journal, captureVars, watchdog, stopper, process>>
    BY <1>2, <2>3 DEF TunnelDown, Typed
  <2> QED BY <1>2, <2>1, <2>2, <2>3 DEF TunnelDown
<1>3. CASE Crash
  BY <1>3, ForgottenTypes DEF Crash, Typed, CaptureAssumption
<1>4. CASE StartRefused
  BY <1>4 DEF StartRefused, MayStart, Deadline, Typed, CaptureAssumption
<1>5. CASE StartBegin
  <2>1. Deadline \in 0..MaxClock /\ generation + 1 \in Nat /\ tunnel \in 0..MaxTunnels
    BY <1>5 DEF StartBegin, MayStart, Deadline, Typed, CaptureAssumption
  <2>2. start' \in Starts
    BY <1>5, <2>1, TokenType DEF StartBegin, Starts
  <2>3. stopper' \in Stoppers
    BY <1>5, WithoutTypes DEF StartBegin, Typed
  <2>4. tunnel # 0
    BY <1>5 DEF StartBegin, MayStart
  <2> QED BY <1>5, <2>1, <2>2, <2>3, <2>4 DEF StartBegin, Stored, Typed
<1>6. CASE StartReturns
  <2>1. Armed \in Watchdogs
    BY DEF Armed, Typed, Starts, Watchdogs, Arguments
  <2>2. CASE Finish({})
    BY <1>6, <2>2, FinishTypes DEF StartReturns, Typed
  <2>3. CASE watchdog' = Armed /\ UNCHANGED <<journal, captureVars, stopper>>
    BY <1>6, <2>1, <2>3 DEF StartReturns, Typed
  <2>4. CASE watchdog' = Armed /\ ClearFails /\ UNCHANGED stopper
    BY <1>6, <2>1, <2>4 DEF StartReturns, ClearFails, Typed, CaptureAssumption
  <2> QED BY <1>6, <2>2, <2>3, <2>4 DEF StartReturns
<1>7. CASE StartFails
  <2>1. Armed \in Watchdogs /\ [start EXCEPT !.at = "compensate"] \in Starts
        /\ [start EXCEPT !.at = "lock"] \in Arguments({"none", "lock", "core"})
    BY DEF Armed, Typed, Starts, Watchdogs, Arguments
  <2>2. stopper' \in Stoppers
    BY <1>7, <2>1 DEF StartFails, Stoppers, Typed
  <2> QED BY <1>7, <2>1, <2>2 DEF StartFails, CompensationWatch, Typed
<1>8. CASE WithdrawCompensation
  BY <1>8, WithoutTypes DEF WithdrawCompensation, Typed
<1>9. ASSUME NEW o \in Owners, LockTake(o)
      PROVE Typed'
  <2>1. StartAfter(o) \in Starts
    BY DEF StartAfter, Typed
  <2>2. CASE GoOn(o) /\ start' = StartAfter(o)
    BY <1>9, <2>1, <2>2, GoOnTypes DEF LockTake, Typed
  <2>3. CASE /\ stopper' = [stopper EXCEPT ![o].at = "core"]
             /\ UNCHANGED <<journal, process, captureVars, watchdog, start>>
    <3>1. [stopper[o] EXCEPT !.at = "core"] \in Arguments({"none", "lock", "core"})
      BY DEF Typed, Stoppers, Arguments
    <3>2. stopper' \in Stoppers
      BY <2>3, <3>1 DEF Typed, Stoppers
    <3> QED BY <1>9, <2>3, <3>2 DEF LockTake, Typed
  <2> QED BY <1>9, <2>2, <2>3 DEF LockTake
<1>10. ASSUME NEW o \in Owners, StopSucceeds(o)
       PROVE Typed'
  <2>1. StartAfter(o) \in Starts
    BY DEF StartAfter, Typed
  <2>2. CASE Finish({o}) /\ UNCHANGED process
    BY <1>10, <2>1, <2>2, FinishTypes DEF StopSucceeds, Typed
  <2>3. CASE FinishFails(o)
    BY <1>10, <2>1, <2>3, FinishFailsTypes DEF StopSucceeds, Typed
  <2>4. CASE GoOn(o)
    BY <1>10, <2>1, <2>4, GoOnTypes DEF StopSucceeds, Typed
  <2> QED BY <1>10, <2>2, <2>3, <2>4 DEF StopSucceeds
<1>11. ASSUME NEW o \in Owners, StopFails(o)
       PROVE Typed'
  <2>1. StartAfter(o) \in Starts
    BY DEF StartAfter, Typed
  <2>2. CASE Finish({o}) /\ UNCHANGED process
    BY <1>11, <2>1, <2>2, FinishTypes DEF StopFails, Typed
  <2>3. CASE FinishFails(o)
    BY <1>11, <2>1, <2>3, FinishFailsTypes DEF StopFails, Typed
  <2>4. CASE GoOn(o)
    BY <1>11, <2>1, <2>4, GoOnTypes DEF StopFails, Typed
  <2> QED BY <1>11, <2>2, <2>3, <2>4 DEF StopFails, GiveUp
<1>12. CASE WatchdogTries
  <2>1. [watchdog EXCEPT !.at = "stop"] \in Watchdogs /\ [watchdog EXCEPT !.at = "done"] \in Watchdogs
        /\ [watchdog EXCEPT !.at = "lock"] \in Arguments({"none", "lock", "core"})
    BY DEF Typed, Watchdogs, Arguments
  <2>2. stopper' \in Stoppers
    BY <1>12, <2>1 DEF WatchdogTries, Typed, Stoppers
  <2> QED BY <1>12, <2>1, <2>2 DEF WatchdogTries, Typed
<1>13. CASE Stop \/ CloseBegin
  <2>1. Capture("lock") \in Arguments({"none", "lock", "core"})
    BY TokenType DEF Capture, Typed
  <2>2. stopper' \in Stoppers
    BY <1>13, <2>1, WithoutTypes DEF Stop, CloseBegin, Typed, Stoppers
  <2>3. watchdog' \in {None, watchdog} /\ process' \in {process, "closing"}
    BY <1>13 DEF Stop, CloseBegin
  <2> QED BY <1>13, <2>2, <2>3 DEF Stop, CloseBegin, Typed
<1>14. CASE CloseEnd
  <2>1. journal' \in 0..MaxClock
    BY <1>14 DEF CloseEnd, Typed
  <2> QED BY <1>14, <2>1, ForgottenTypes DEF CloseEnd, Typed
<1>15. CASE Boot
  <2>1. CASE UNCHANGED <<captureVars, watchdog, stopper>>
    BY <1>15, <2>1 DEF Boot, Typed, CaptureAssumption
  <2>2. CASE process' = "recovering"
    <3>1. tunnel \in 0..MaxTunnels /\ Recovered \in 0..MaxClock
      BY DEF Typed, Recovered, CaptureAssumption
    <3>2. At("wait", 1, tunnel, Recovered) \in Watchdogs
          /\ At("lock", 1, tunnel, Recovered) \in Arguments({"none", "lock", "core"})
      BY <3>1, TokenType DEF Watchdogs
    <3>3. CASE UNCHANGED <<captureVars, watchdog, stopper>>
      BY <2>1, <3>3
    <3>4. CASE /\ generation' = 1 /\ connection' = tunnel /\ deadline' = Recovered
               /\ watchdog' = At("wait", 1, tunnel, Recovered)
               /\ stopper' = [stopper EXCEPT !["recover"] = At("lock", 1, tunnel, Recovered)]
               /\ UNCHANGED journal
      <4>1. stopper' \in Stoppers
        BY <3>2, <3>4 DEF Typed, Stoppers
      <4> QED BY <1>15, <2>2, <3>1, <3>2, <3>4, <4>1 DEF Boot, Typed
    <3> QED BY <1>15, <3>3, <3>4 DEF Boot
  <2> QED BY <1>15, <2>1, <2>2 DEF Boot
<1>16. CASE BootEnds
  <2>1. CASE Finish({}) /\ process' = "ready"
    BY <1>16, <2>1, FinishTypes DEF BootEnds, Typed
  <2>2. CASE FinishFails("recover")
    BY <1>16, <2>2, FinishFailsTypes DEF BootEnds, Typed, Owners
  <2>3. CASE UNCHANGED <<journal, captureVars, watchdog, stopper>> /\ process' = "ready"
    BY <1>16, <2>3 DEF BootEnds, Typed
  <2> QED BY <1>16, <2>1, <2>2, <2>3 DEF BootEnds
<1>17. CASE UNCHANGED vars
  BY <1>17 DEF vars, Typed
<1> QED BY <1>1, <1>2, <1>3, <1>4, <1>5, <1>6, <1>7, <1>8, <1>9, <1>10, <1>11, <1>12, <1>13, <1>14,
           <1>15, <1>16, <1>17 DEF Next
-----------------------------------------------------------------------------
(* Phases. *)

\* What an owner leaves that is done with its Stop, whatever came of it.
LEMMA OwnerEnds ==
    ASSUME Typed, active \in BOOLEAN, Phases, NEW o \in Owners, stopper[o].at # "none",
           start' = StartAfter(o),
           (Finish({o}) /\ UNCHANGED process) \/ FinishFails(o) \/ GoOn(o)
    PROVE Phases'
<1> USE CaptureAssumption, NoneTypes
<1>1. /\ o = "start" => start'.at = "none"
      /\ o # "start" => start' = start
  BY DEF StartAfter
<1>2. /\ process # "down"
      /\ o = "watchdog" => watchdog.at = "stop"
      /\ o = "start" => start.at = "compensate"
      /\ o = "recover" => process = "recovering" /\ start.at = "none"
  BY DEF Phases
<1>3. CASE Finish({o}) /\ UNCHANGED process
  <2>1. /\ watchdog'.at = "none"
        /\ \A p \in Owners : stopper'[p] = IF p \in {o, "watchdog"} THEN None ELSE stopper[p]
    BY <1>3, FinishTypes
  <2> QED BY <1>1, <1>2, <1>3, <2>1 DEF Phases, Owners
<1>4. CASE FinishFails(o)
  <2>1. /\ \A p \in Owners : p # o /\ p # "close" => stopper'[p] = stopper[p]
        /\ stopper'[o].at = "none"
        /\ process' \in {"closing", process} /\ (o # "recover" => process' = process)
        /\ o = "watchdog" => watchdog'.at = "done"
        /\ o # "watchdog" => watchdog' = watchdog
    BY <1>4, FinishFailsTypes
  <2> QED BY <1>1, <1>2, <2>1 DEF Phases, Owners
<1>5. CASE GoOn(o)
  <2>1. /\ process' = process
        /\ \A p \in Owners : stopper'[p] = IF p = o THEN None ELSE stopper[p]
        /\ o = "watchdog" => watchdog'.at = "sleep"
        /\ o # "watchdog" => watchdog' = watchdog
                             \/ /\ o \in {"start", "recover"}
                                /\ watchdog.at \in {"none", "done"} /\ watchdog'.at = "wait"
    BY <1>5, GoOnTypes
  <2> QED BY <1>1, <1>2, <2>1 DEF Phases, Owners
<1> QED BY <1>3, <1>4, <1>5

LEMMA PhasesStep ==
    ASSUME Typed, active \in BOOLEAN, Phases, [Next]_vars
    PROVE Phases'
<1> USE CaptureAssumption, NoneTypes DEF worldVars, captureVars
<1>0. stopper \in Stoppers
  BY DEF Typed
<1>1. CASE Tick \/ TunnelUp \/ CoreRecords \/ CoreEnds \/ StartRefused
  BY <1>1 DEF Tick, TunnelUp, CoreRecords, CoreEnds, StartRefused, Phases
<1>2. CASE TunnelDown
  <2>1. CASE Initialized /\ Finish({}) /\ UNCHANGED process
    <3>1. /\ watchdog'.at = "none"
          /\ \A o \in Owners : stopper'[o] = IF o = "watchdog" THEN None ELSE stopper[o]
      BY <2>1, FinishTypes
    <3> QED BY <1>2, <2>1, <3>1 DEF TunnelDown, Phases, Owners, Initialized
  <2>2. CASE Initialized /\ FinishFails("none")
    <3>1. /\ watchdog' = watchdog /\ process' = process /\ stopper' = StopperWithout({"none"})
      BY <2>2, FinishFailsTypes DEF Owners
    <3>2. \A o \in Owners : stopper'[o] = stopper[o]
      BY <1>0, <3>1, WithoutTypes DEF Owners
    <3> QED BY <1>2, <3>1, <3>2 DEF TunnelDown, Phases, Owners
  <2>3. CASE UNCHANGED <<journal, captureVars, watchdog, stopper, process>>
    BY <1>2, <2>3 DEF TunnelDown, Phases
  <2> QED BY <1>2, <2>1, <2>2, <2>3 DEF TunnelDown
<1>3. CASE Crash \/ CloseEnd
  BY <1>3, ForgottenTypes DEF Crash, CloseEnd, Phases, Owners
<1>4. CASE StartBegin
  <2>1. \A o \in Owners : stopper'[o] = IF o = "watchdog" THEN None ELSE stopper[o]
    BY <1>0, <1>4, WithoutTypes DEF StartBegin
  <2>2. start'.at = "core" /\ watchdog'.at = "none" /\ process' = process /\ process = "ready"
        /\ start.at = "none"
    BY <1>4 DEF StartBegin, MayStart, At
  <2> QED BY <2>1, <2>2 DEF Phases, Owners
<1>5. CASE StartReturns
  <2>1. start.at = "core" /\ start'.at = "none" /\ process' = process
    BY <1>5 DEF StartReturns
  <2>2. Armed.at = "wait"
    BY DEF Armed, Typed, Starts, Arguments
  <2>3. CASE Finish({})
    <3>1. /\ watchdog'.at = "none"
          /\ \A o \in Owners : stopper'[o] = IF o = "watchdog" THEN None ELSE stopper[o]
      BY <2>3, FinishTypes
    <3> QED BY <2>1, <3>1 DEF Phases, Owners
  <2>4. CASE watchdog' = Armed /\ UNCHANGED stopper
    BY <2>1, <2>2, <2>4 DEF Phases, Owners
  <2> QED BY <1>5, <2>3, <2>4 DEF StartReturns
<1>6. CASE StartFails
  <2>1. /\ start.at = "core" /\ start'.at = "compensate" /\ process' = process
        /\ watchdog'.at = "wait"
    BY <1>6 DEF StartFails, CompensationWatch, Armed, Typed, Starts, Arguments
  <2>2. stopper'["start"].at = "lock" /\ \A o \in Owners : o # "start" => stopper'[o] = stopper[o]
    BY <1>0, <1>6 DEF StartFails, Stoppers, Owners, Typed, Starts, Arguments
  <2> QED BY <2>1, <2>2 DEF Phases, Owners
<1>7. CASE WithdrawCompensation
  <2>1. \A o \in Owners : stopper'[o] = IF o = "start" THEN None ELSE stopper[o]
    BY <1>0, <1>7, WithoutTypes DEF WithdrawCompensation
  <2> QED BY <1>7, <2>1 DEF WithdrawCompensation, Phases, Owners
<1>8. ASSUME NEW o \in Owners, LockTake(o)
      PROVE Phases'
  <2>1. stopper[o].at = "lock"
    BY <1>8 DEF LockTake
  <2>2. CASE GoOn(o) /\ start' = StartAfter(o)
    BY <2>1, <2>2, OwnerEnds
  <2>3. CASE /\ stopper' = [stopper EXCEPT ![o].at = "core"]
             /\ UNCHANGED <<journal, process, captureVars, watchdog, start>>
    <3>1. /\ stopper'[o].at = "core"
          /\ \A p \in Owners : p # o => stopper'[p] = stopper[p]
      BY <1>0, <2>3 DEF Stoppers, Arguments
    <3> QED BY <2>1, <2>3, <3>1 DEF Phases, Owners
  <2> QED BY <1>8, <2>2, <2>3 DEF LockTake
<1>9. ASSUME NEW o \in Owners, StopSucceeds(o) \/ StopFails(o)
      PROVE Phases'
  <2>1. stopper[o].at = "core" /\ start' = StartAfter(o)
    BY <1>9 DEF StopSucceeds, StopFails
  <2>2. (Finish({o}) /\ UNCHANGED process) \/ FinishFails(o) \/ GoOn(o)
    BY <1>9 DEF StopSucceeds, StopFails, GiveUp
  <2> QED BY <2>1, <2>2, OwnerEnds
<1>10. CASE WatchdogTries
  <2>1. process # "down" /\ start.at # "core" /\ stopper["watchdog"].at = "none"
    BY <1>10 DEF WatchdogTries, Phases
  <2>2. CASE /\ watchdog' = [watchdog EXCEPT !.at = "stop"]
             /\ stopper' = [stopper EXCEPT !["watchdog"] = [watchdog EXCEPT !.at = "lock"]]
    <3>1. /\ watchdog'.at = "stop" /\ stopper'["watchdog"].at = "lock"
          /\ \A o \in Owners : o # "watchdog" => stopper'[o] = stopper[o]
      BY <1>0, <2>2 DEF Typed, Watchdogs, Stoppers, Arguments, Owners
    <3> QED BY <1>10, <2>1, <3>1 DEF WatchdogTries, Phases, Owners
  <2>3. CASE watchdog' = [watchdog EXCEPT !.at = "done"] /\ UNCHANGED stopper
    <3>1. watchdog'.at = "done"
      BY <2>3 DEF Typed, Watchdogs, Arguments
    <3> QED BY <1>10, <2>1, <2>3, <3>1 DEF WatchdogTries, Phases
  <2> QED BY <1>10, <2>2, <2>3 DEF WatchdogTries
<1>11. CASE Stop
  <2>1. process = "ready" /\ UNCHANGED <<process, start>> /\ start.at = "none"
    BY <1>11 DEF Stop
  <2>2. CASE stopper' = [stopper EXCEPT !["stop"] = Capture("lock")] /\ UNCHANGED watchdog
    <3>1. \A o \in Owners : o # "stop" => stopper'[o] = stopper[o]
      BY <1>0, <2>2 DEF Stoppers
    <3> QED BY <2>1, <2>2, <3>1 DEF Phases, Owners
  <2>3. CASE stopper' = StopperWithout({"watchdog"}) /\ watchdog' = None
    <3>1. \A o \in Owners : stopper'[o] = IF o = "watchdog" THEN None ELSE stopper[o]
      BY <1>0, <2>3, WithoutTypes
    <3> QED BY <2>1, <2>3, <3>1 DEF Phases, Owners
  <2> QED BY <1>11, <2>2, <2>3 DEF Stop
<1>12. CASE CloseBegin
  <2>1. \A o \in Owners : o # "close" => stopper'[o] = stopper[o]
    BY <1>0, <1>12 DEF CloseBegin, Stoppers
  <2> QED BY <1>12, <2>1 DEF CloseBegin, Phases, Owners
<1>13. CASE Boot
  <2>1. CASE UNCHANGED <<captureVars, watchdog, stopper>>
    BY <1>13, <2>1 DEF Boot, Phases, Owners
  <2>2. CASE /\ process' = "recovering" /\ watchdog' = At("wait", 1, tunnel, Recovered)
             /\ stopper' = [stopper EXCEPT !["recover"] = At("lock", 1, tunnel, Recovered)]
    <3>1. watchdog'.at = "wait" /\ \A o \in Owners : o # "recover" => stopper'[o] = stopper[o]
      BY <1>0, <2>2 DEF Stoppers, At
    <3> QED BY <1>13, <2>2, <3>1 DEF Boot, Phases, Owners
  <2> QED BY <1>13, <2>1, <2>2 DEF Boot
<1>14. CASE BootEnds
  <2>1. process = "recovering" /\ stopper["recover"].at = "none" /\ start' = start /\ start.at = "none"
    BY <1>14 DEF BootEnds, Phases
  <2>2. CASE Finish({}) /\ process' = "ready"
    <3>1. /\ watchdog'.at = "none"
          /\ \A o \in Owners : stopper'[o] = IF o = "watchdog" THEN None ELSE stopper[o]
      BY <2>2, FinishTypes
    <3> QED BY <2>1, <2>2, <3>1 DEF Phases, Owners
  <2>3. CASE FinishFails("recover")
    <3>1. /\ watchdog' = watchdog /\ process' = "closing" /\ stopper'["recover"].at = "none"
          /\ \A o \in Owners : o \notin {"recover", "close"} => stopper'[o] = stopper[o]
      BY <2>3, FinishFailsTypes DEF Owners, FinishFails
    <3> QED BY <2>1, <3>1 DEF Phases, Owners
  <2>4. CASE UNCHANGED <<journal, captureVars, watchdog, stopper>> /\ process' = "ready"
    BY <2>1, <2>4 DEF Phases
  <2> QED BY <1>14, <2>2, <2>3, <2>4 DEF BootEnds
<1>15. CASE UNCHANGED vars
  BY <1>15 DEF vars, Phases
<1> QED BY <1>1, <1>2, <1>3, <1>4, <1>5, <1>6, <1>7, <1>8, <1>9, <1>10, <1>11, <1>12, <1>13, <1>14,
           <1>15 DEF Next
-----------------------------------------------------------------------------
(* What Core may record. *)

\* A live process knows of the capture, and of the tunnel it is in.
LEMMA Known ==
    ASSUME CaptureInv, process # "down", core # "off"
    PROVE active /\ connection = tunnel /\ tunnel # 0
BY DEF CaptureInv, Recorded, Current

\* An owner that ends its Stop while Core may still record goes on.
LEMMA StopGoesOn ==
    ASSUME CaptureInv, NEW o \in Owners, StopSucceeds(o) \/ StopFails(o) \/ LockTake(o), core' # "off"
    PROVE /\ core' = core /\ core # "off" /\ process # "down" /\ tunnel' = tunnel
          /\ \/ GoOn(o) /\ start' = StartAfter(o)
             \/ /\ LockTake(o)
                /\ UNCHANGED <<journal, process, captureVars, watchdog, start>>
<1>1. stopper[o].at # "none" /\ process # "down"
  BY DEF StopSucceeds, StopFails, LockTake, CaptureInv, Phases
<1>2. CASE StopSucceeds(o)
  <2>1. core' = core /\ core # "off" /\ stopper[o].connection # tunnel
    BY <1>2 DEF StopSucceeds
  <2>2. ~Owns(o)
    BY <1>1, <2>1, Known DEF Owns
  <2> QED BY <1>1, <1>2, <2>1, <2>2 DEF StopSucceeds
<1>3. CASE StopFails(o)
  <2>1. core' = core /\ core # "off"
    BY <1>3 DEF StopFails, worldVars
  <2>2. ~ShowsFailure(o)
    BY <1>1, <2>1, Known DEF ShowsFailure
  <2> QED BY <1>1, <1>3, <2>1, <2>2 DEF StopFails, GiveUp, worldVars
<1>4. CASE LockTake(o)
  BY <1>1, <1>4 DEF LockTake, worldVars
<1> QED BY <1>2, <1>3, <1>4

\* Going on keeps the watchdog of the current capture.
LEMMA GoOnWatches ==
    ASSUME CaptureInv, NEW o \in Owners, stopper[o].at # "none", GoOn(o), start' = StartAfter(o),
           core # "off", process # "down", tunnel' = tunnel
    PROVE Current'
<1> USE CaptureAssumption, NoneTypes
<1>1. /\ UNCHANGED <<journal, process, generation, connection>> /\ (active' <=> active)
  BY DEF GoOn, captureVars
<1>2. /\ start.at = "core" => start' = start
      /\ start.at # "core" => start'.at # "core"
  BY DEF StartAfter, CaptureInv, Phases
<1>3. ASSUME start.at # "core"
      PROVE /\ watchdog'.at \in {"wait", "sleep", "stop"}
            /\ watchdog'.generation = generation /\ watchdog'.connection = connection
            /\ watchdog'.deadline = journal
  <2>1. /\ watchdog.at \in {"wait", "sleep", "stop"}
        /\ watchdog.generation = generation /\ watchdog.connection = connection
        /\ watchdog.deadline = journal
    BY <1>3 DEF CaptureInv, Current
  <2>2. CASE o = "watchdog"
    <3>1. watchdog' = [watchdog EXCEPT !.at = "sleep"]
      BY <2>2, GoOnTypes DEF CaptureInv
    <3> QED BY <2>1, <3>1 DEF CaptureInv, Typed, Watchdogs, Arguments
  <2>3. CASE o # "watchdog"
    <3>1. watchdog' = watchdog
      BY <2>1, <2>3, GoOnTypes DEF CaptureInv
    <3> QED BY <2>1, <3>1
  <2> QED BY <2>2, <2>3
<1>4. active /\ connection = tunnel
  BY Known
<1>5. start.at = "core" =>
        start.generation = generation /\ start.connection = connection /\ start.deadline = journal
  BY DEF CaptureInv, Current
<1> QED BY <1>1, <1>2, <1>3, <1>4, <1>5 DEF Current

LEMMA RecordedStep ==
    ASSUME CaptureInv, [Next]_vars
    PROVE Recorded'
<1> SUFFICES ASSUME core' # "off" PROVE journal' # 0 /\ tunnel' # 0
  BY DEF Recorded
<1> USE CaptureAssumption DEF worldVars, captureVars
<1>0. core # "off" => journal # 0 /\ tunnel # 0
  BY DEF CaptureInv, Recorded
<1>1. CASE Tick \/ CoreRecords \/ CoreEnds \/ Crash \/ StartFails \/ WithdrawCompensation
           \/ WatchdogTries \/ Stop \/ CloseBegin
  BY <1>0, <1>1 DEF Tick, CoreRecords, CoreEnds, Crash, StartFails, WithdrawCompensation,
                    WatchdogTries, Stop, CloseBegin
<1>2. CASE TunnelUp \/ TunnelDown
  BY <1>0, <1>2 DEF TunnelUp, TunnelDown
<1>3. CASE StartRefused \/ StartBegin
  <2>1. journal' # 0
    BY <1>3 DEF StartRefused, StartBegin, Stored, Deadline, CaptureInv, Typed, CaptureAssumption
  <2>2. tunnel' # 0
    BY <1>3 DEF StartRefused, StartBegin, MayStart
  <2> QED BY <2>1, <2>2
<1>4. CASE StartReturns
  <2>1. core # "off" /\ tunnel # 0 /\ tunnel' = tunnel
    BY <1>0, <1>4 DEF StartReturns
  <2> QED BY <1>0, <1>4, <2>1 DEF StartReturns
<1>5. ASSUME NEW o \in Owners, LockTake(o) \/ StopSucceeds(o) \/ StopFails(o)
      PROVE journal' # 0 /\ tunnel' # 0
  BY <1>0, <1>5, StopGoesOn DEF GoOn
<1>6. CASE CloseEnd
  BY <1>0, <1>6 DEF CloseEnd
<1>7. CASE Boot \/ BootEnds
  BY <1>0, <1>7 DEF Boot, BootEnds
<1>8. CASE UNCHANGED vars
  BY <1>0, <1>8 DEF vars
<1> QED BY <1>1, <1>2, <1>3, <1>4, <1>5, <1>6, <1>7, <1>8 DEF Next

LEMMA CurrentStep ==
    ASSUME CaptureInv, active \in BOOLEAN, [Next]_vars
    PROVE Current'
<1> USE CaptureAssumption, NoneTypes DEF worldVars, captureVars
<1>1. CASE core' = "off" \/ process' = "down"
  BY <1>1 DEF Current
<1>2. ASSUME core' # "off", process' # "down"
      PROVE Current'
  <2>0. process # "down" /\ core # "off" =>
          /\ active /\ connection = tunnel /\ tunnel # 0
          /\ start.at = "core" =>
               start.generation = generation /\ start.connection = connection /\ start.deadline = journal
          /\ start.at # "core" =>
               /\ watchdog.at \in {"wait", "sleep", "stop"}
               /\ watchdog.generation = generation /\ watchdog.connection = connection
               /\ watchdog.deadline = journal
    BY Known DEF CaptureInv, Current
  <2>1. CASE \/ Tick \/ CoreRecords \/ CloseBegin \/ UNCHANGED vars
    <3>1. /\ core # "off" /\ process # "down"
          /\ UNCHANGED <<tunnel, journal, generation, connection, watchdog, start>> /\ (active' <=> active)
      BY <1>2, <2>1 DEF Tick, CoreRecords, CloseBegin, vars
    <3> QED BY <2>0, <3>1 DEF Current
  <2>2. CASE CoreEnds \/ TunnelDown \/ Crash \/ CloseEnd
    BY <1>2, <2>2 DEF CoreEnds, TunnelDown, Crash, CloseEnd
  <2>3. CASE TunnelUp
    BY <1>2, <2>3 DEF TunnelUp, CaptureInv, Typed
  <2>4. CASE StartRefused
    BY <1>2, <2>0, <2>4 DEF StartRefused, MayStart
  <2>5. CASE StartBegin
    <3>1. /\ active' /\ generation' = generation + 1 /\ connection' = tunnel /\ tunnel' = tunnel
          /\ start' = At("core", generation + 1, tunnel, Deadline) /\ journal' = Deadline
      BY <2>5 DEF StartBegin, Stored
    <3>2. start'.at = "core" /\ start'.generation = generation' /\ start'.connection = connection'
          /\ start'.deadline = journal'
      BY <3>1 DEF At
    <3> QED BY <3>1, <3>2 DEF Current
  <2>6. CASE StartReturns
    <3>1. start.at = "core" /\ process = "ready" /\ core # "off" /\ tunnel' = tunnel
      BY <1>2, <2>6 DEF StartReturns, CaptureInv, Phases
    <3>2. /\ watchdog' = Armed /\ UNCHANGED <<journal, generation, connection>> /\ (active' <=> active)
          /\ start'.at = "none"
      <4>1. tunnel # 0 /\ start' = None
        BY <2>0, <2>6, <3>1 DEF StartReturns
      <4>2. watchdog' = Armed /\ UNCHANGED <<journal, captureVars>>
        BY <2>6, <4>1 DEF StartReturns
      <4> QED BY <4>1, <4>2
    <3>3. watchdog'.at = "wait" /\ watchdog'.generation = start.generation
          /\ watchdog'.connection = start.connection /\ watchdog'.deadline = start.deadline
      BY <3>2 DEF Armed, CaptureInv, Typed, Starts, Arguments
    <3> QED BY <2>0, <3>1, <3>2, <3>3 DEF Current
  <2>7. CASE StartFails
    <3>1. start.at = "core" /\ process = "ready" /\ core # "off" /\ tunnel' = tunnel
      BY <1>2, <2>7 DEF StartFails, CaptureInv, Phases
    <3>2. watchdog' = Armed /\ UNCHANGED <<journal, generation, connection>> /\ (active' <=> active)
      BY <2>7 DEF StartFails, CompensationWatch
    <3>3. watchdog'.at = "wait" /\ watchdog'.generation = start.generation
          /\ watchdog'.connection = start.connection /\ watchdog'.deadline = start.deadline
      BY <3>2 DEF Armed, CaptureInv, Typed, Starts, Arguments
    <3>4. start'.at = "compensate"
      BY <2>7 DEF StartFails, CaptureInv, Typed, Starts, Arguments
    <3> QED BY <2>0, <3>1, <3>2, <3>3, <3>4 DEF Current
  <2>8. CASE WithdrawCompensation
    <3>1. start.at = "compensate" /\ process = "ready" /\ core # "off" /\ start'.at = "none"
          /\ UNCHANGED <<tunnel, journal, generation, connection, watchdog>> /\ (active' <=> active)
      BY <1>2, <2>8 DEF WithdrawCompensation, CaptureInv, Phases
    <3> QED BY <2>0, <3>1 DEF Current
  <2>9. ASSUME NEW o \in Owners, LockTake(o) \/ StopSucceeds(o) \/ StopFails(o)
        PROVE Current'
    <3>1. /\ core' = core /\ core # "off" /\ process # "down" /\ tunnel' = tunnel
          /\ stopper[o].at # "none"
      BY <1>2, <2>9, StopGoesOn DEF StopSucceeds, StopFails, LockTake
    <3>2. CASE GoOn(o) /\ start' = StartAfter(o)
      BY <3>1, <3>2, GoOnWatches
    <3>3. CASE UNCHANGED <<journal, process, captureVars, watchdog, start>>
      <4>1. UNCHANGED <<journal, generation, connection, watchdog, start>> /\ (active' <=> active)
        BY <3>3
      <4> QED BY <2>0, <3>1, <4>1 DEF Current
    <3> QED BY <1>2, <2>9, <3>2, <3>3, StopGoesOn
  <2>10. CASE WatchdogTries
    <3>1. /\ core # "off" /\ process # "down"
          /\ UNCHANGED <<tunnel, journal, generation, connection, start>> /\ (active' <=> active)
      BY <1>2, <2>10 DEF WatchdogTries
    <3>2. ASSUME start.at # "core"
          PROVE /\ watchdog'.at = "stop" /\ watchdog'.generation = watchdog.generation
                /\ watchdog'.connection = watchdog.connection /\ watchdog'.deadline = watchdog.deadline
      <4>1. watchdog' = [watchdog EXCEPT !.at = "stop"]
        BY <2>0, <2>10, <3>1, <3>2 DEF WatchdogTries
      <4> QED BY <4>1 DEF CaptureInv, Typed, Watchdogs, Arguments
    <3> QED BY <2>0, <3>1, <3>2 DEF Current
  <2>11. CASE Stop
    <3>1. /\ core # "off" /\ process # "down"
          /\ UNCHANGED <<tunnel, journal, generation, connection, start>> /\ (active' <=> active)
      BY <1>2, <2>11 DEF Stop
    <3>2. watchdog' = watchdog
      BY <2>0, <2>11, <3>1 DEF Stop
    <3> QED BY <2>0, <3>1, <3>2 DEF Current
  <2>12. CASE Boot
    <3>1. journal # 0 /\ tunnel # 0 /\ process = "down" /\ core # "off" /\ start.at = "none"
      BY <1>2, <2>12 DEF Boot, CaptureInv, Recorded, Phases
    <3>2. /\ active' /\ generation' = 1 /\ connection' = tunnel /\ tunnel' = tunnel
          /\ watchdog' = At("wait", 1, tunnel, Recovered) /\ journal' = journal /\ start' = start
      BY <2>12, <3>1 DEF Boot
    <3>3. watchdog'.at = "wait" /\ watchdog'.generation = 1 /\ watchdog'.connection = tunnel
          /\ watchdog'.deadline = journal
      BY <3>2 DEF At, Recovered
    <3> QED BY <3>1, <3>2, <3>3 DEF Current
  <2>13. CASE BootEnds
    <3>1. /\ core # "off" /\ process # "down" /\ tunnel # 0
      BY <1>2, <2>13, Known DEF BootEnds
    <3>2. UNCHANGED <<tunnel, journal, generation, connection, watchdog, start>> /\ (active' <=> active)
      BY <2>13, <3>1 DEF BootEnds
    <3> QED BY <2>0, <3>1, <3>2 DEF Current
  <2> QED BY <2>1, <2>2, <2>3, <2>4, <2>5, <2>6, <2>7, <2>8, <2>9, <2>10, <2>11, <2>12, <2>13 DEF Next
<1> QED BY <1>1, <1>2
-----------------------------------------------------------------------------
(* One Stop at a time. *)

\* Nobody enters Core's Stop except through the free lock.
LEMMA OneStopStep ==
    ASSUME CaptureInv, active \in BOOLEAN, OneStopAtATime, [Next]_vars
    PROVE OneStopAtATime'
<1> USE CaptureAssumption, NoneTypes DEF worldVars, captureVars
<1>0. stopper \in Stoppers
  BY DEF CaptureInv, Typed
<1>a. ASSUME \A o \in Owners : stopper'[o].at = "core" => stopper[o].at = "core"
      PROVE OneStopAtATime'
  BY <1>a DEF OneStopAtATime
<1>1. ASSUME NEW os, stopper' = StopperWithout(os)
      PROVE OneStopAtATime'
  BY <1>0, <1>1, <1>a, WithoutTypes
<1>2. ASSUME NEW o \in Owners, NEW t, stopper' = [stopper EXCEPT ![o] = t], t.at # "core"
      PROVE OneStopAtATime'
  BY <1>0, <1>2, <1>a DEF Stoppers
<1>3. ASSUME stopper' = stopper
      PROVE OneStopAtATime'
  BY <1>3 DEF OneStopAtATime
<1>4. Capture("lock").at = "lock"
  BY DEF Capture, At
<1>5. ASSUME NEW os, Finish(os) PROVE OneStopAtATime'
  BY <1>1, <1>5 DEF Finish
<1>6. ASSUME NEW o \in Owners \cup {"none"}, FinishFails(o) PROVE OneStopAtATime'
  <2>1. CASE o # "recover"
    BY <1>1, <1>6, <2>1 DEF FinishFails
  <2>2. CASE o = "recover"
    <3>1. \A p \in Owners : StopperWithout({o})[p] = IF p = o THEN None ELSE stopper[p]
      BY <1>0, WithoutTypes
    <3>2. StopperWithout({o}) \in Stoppers
      BY <1>0, WithoutTypes
    <3>3. \A p \in Owners : stopper'[p] =
             IF p = "close" THEN (IF active THEN Capture("lock") ELSE None) ELSE StopperWithout({o})[p]
      BY <1>6, <2>2, <3>2 DEF FinishFails, Stoppers
    <3> QED BY <1>4, <1>a, <3>1, <3>3
  <2> QED BY <2>1, <2>2
<1>7. CASE Tick \/ TunnelUp \/ CoreRecords \/ CoreEnds \/ StartRefused \/ UNCHANGED vars
  BY <1>3, <1>7 DEF Tick, TunnelUp, CoreRecords, CoreEnds, StartRefused, vars
<1>8. CASE TunnelDown
  BY <1>3, <1>5, <1>6, <1>8 DEF TunnelDown
<1>9. CASE Crash \/ CloseEnd
  <2>1. \A o \in Owners : stopper'[o].at = "none"
    BY <1>9, ForgottenTypes DEF Crash, CloseEnd
  <2> QED BY <1>a, <2>1
<1>10. CASE StartBegin \/ WithdrawCompensation
  BY <1>1, <1>10 DEF StartBegin, WithdrawCompensation
<1>11. CASE StartReturns
  BY <1>3, <1>5, <1>11 DEF StartReturns
<1>12. CASE StartFails
  <2>1. [start EXCEPT !.at = "lock"].at = "lock"
    BY DEF CaptureInv, Typed, Starts, Arguments
  <2> QED BY <1>2, <1>12, <2>1 DEF StartFails, Owners
<1>13. ASSUME NEW o \in Owners, LockTake(o)
       PROVE OneStopAtATime'
  <2>1. CASE GoOn(o)
    BY <1>1, <2>1 DEF GoOn
  <2>2. CASE stopper' = [stopper EXCEPT ![o].at = "core"]
    <3>1. \A p \in Owners : stopper[p].at # "core"
      BY <1>13 DEF LockTake, LockFree
    <3>2. \A p \in Owners : p # o => stopper'[p] = stopper[p]
      BY <1>0, <2>2 DEF Stoppers
    <3> QED BY <3>1, <3>2 DEF OneStopAtATime
  <2> QED BY <1>13, <2>1, <2>2 DEF LockTake
<1>14. ASSUME NEW o \in Owners, StopSucceeds(o) \/ StopFails(o)
       PROVE OneStopAtATime'
  <2>1. CASE GoOn(o)
    BY <1>1, <2>1 DEF GoOn
  <2>2. Finish({o}) \/ FinishFails(o) \/ GoOn(o)
    BY <1>14 DEF StopSucceeds, StopFails, GiveUp
  <2> QED BY <1>5, <1>6, <2>1, <2>2
<1>15. CASE WatchdogTries
  <2>1. [watchdog EXCEPT !.at = "lock"].at = "lock"
    BY DEF CaptureInv, Typed, Watchdogs, Arguments
  <2> QED BY <1>2, <1>3, <1>15, <2>1 DEF WatchdogTries, Owners
<1>16. CASE Stop \/ CloseBegin
  BY <1>1, <1>2, <1>3, <1>4, <1>16 DEF Stop, CloseBegin, Owners
<1>17. CASE Boot
  BY <1>2, <1>3, <1>17 DEF Boot, At, Owners
<1>18. CASE BootEnds
  BY <1>3, <1>5, <1>6, <1>18 DEF BootEnds, Owners
<1> QED BY <1>7, <1>8, <1>9, <1>10, <1>11, <1>12, <1>13, <1>14, <1>15, <1>16, <1>17, <1>18 DEF Next

-----------------------------------------------------------------------------
(* The theorems. *)

\* The inductive invariant.
IInv == CaptureInv /\ active \in BOOLEAN

LEMMA InvStep == IInv /\ [Next]_vars => IInv'
BY TypedStep, PhasesStep, RecordedStep, CurrentStep, ActiveStep DEF CaptureInv, IInv

\* In every state of every process the capture, its owners and its record are
\* where the coordinator's code expects them.
THEOREM CaptureInvariant == Spec => []IInv
<1>1. Init => IInv
  BY InitCapture DEF IInv
<1> QED BY <1>1, InvStep, PTL DEF Spec

\* Every state is well typed; a watchdog that tries to stop is one of the
\* owners of a Stop.
THEOREM CaptureTypes == Spec => []TypeOK
<1>1. IInv => TypeOK
  <2>1. IInv =>
          /\ Typed /\ active \in BOOLEAN
          /\ (watchdog.at = "stop" <=> stopper["watchdog"].at # "none")
    BY DEF IInv, CaptureInv, Phases
  <2> QED BY <2>1 DEF TypeOK, Typed, Watchdogs, Starts, Stoppers
<1> QED BY <1>1, CaptureInvariant, PTL

\* _arm_watchdog, the compensation and recover: a live process watches whatever
\* Core may record, up to the deadline on disk.
THEOREM CaptureIsWatched == Spec => []Watched
<1>1. IInv => Watched
  BY DEF IInv, CaptureInv, Current, Watched
<1> QED BY <1>1, CaptureInvariant, PTL

\* _stop_generation: the owners of a Stop are served one after the other.
THEOREM StopsAreExclusive == Spec => []OneStopAtATime
<1>1. Init => OneStopAtATime
  BY NoneTypes, CaptureAssumption DEF Init, OneStopAtATime
<1>2. IInv /\ OneStopAtATime /\ [Next]_vars => OneStopAtATime'
  BY OneStopStep DEF IInv
<1> QED BY <1>1, <1>2, CaptureInvariant, PTL DEF Spec

-----------------------------------------------------------------------------
(* The journal keeps the promise of CaptureHandoff. *)

\* The owner of a Stop clears the record only where Core is off afterwards.
LEMMA StopHandsOff ==
    ASSUME CaptureInv, active \in BOOLEAN, NEW o \in Owners, LockTake(o) \/ StopSucceeds(o) \/ StopFails(o)
    PROVE [Handoff!Next]_(Handoff!vars)
<1> USE DEF Handoff!Next, Handoff!vars, worldVars
<1>1. core' \in {core, "off"} /\ journal' \in {journal, 0}
  BY FinishTypes, FinishFailsTypes
     DEF LockTake, StopSucceeds, StopFails, GiveUp, Finish, FinishFails, ClearFails, GoOn
<1>2. CASE core' = "off"
  BY <1>1, <1>2 DEF Handoff!End, Handoff!Release
<1>3. CASE core' # "off"
  <2>1. core' = core /\ journal' = journal
    BY <1>3, StopGoesOn DEF GoOn
  <2> QED BY <2>1
<1> QED BY <1>2, <1>3

LEMMA HandoffStep ==
    ASSUME CaptureInv, active \in BOOLEAN, [Next]_vars
    PROVE [Handoff!Next]_(Handoff!vars)
<1> USE CaptureAssumption DEF Handoff!Next, Handoff!vars, worldVars, captureVars
<1>0. /\ tunnel = 0 => core = "off"
      /\ core # "off" => journal # 0 /\ tunnel # 0
      /\ process # "down" /\ core # "off" => active
  BY Known DEF CaptureInv, Typed, Recorded
<1>1. CASE \/ Tick \/ TunnelUp \/ Crash \/ StartFails \/ WithdrawCompensation \/ WatchdogTries
           \/ Stop \/ CloseBegin \/ UNCHANGED vars
  <2>1. journal' = journal /\ core' = core
    BY <1>1 DEF Tick, TunnelUp, Crash, StartFails, WithdrawCompensation, WatchdogTries,
                Stop, CloseBegin, vars
  <2> QED BY <2>1
<1>2. CASE TunnelDown
  <2>1. journal' \in {journal, 0} /\ core' = "off"
    BY <1>2 DEF TunnelDown, Finish, FinishFails, ClearFails
  <2> QED BY <2>1 DEF Handoff!End, Handoff!Release
<1>3. CASE CoreRecords
  BY <1>3 DEF CoreRecords, Handoff!Record
<1>4. CASE CoreEnds
  BY <1>4 DEF CoreEnds, Handoff!End
<1>5. CASE StartRefused \/ StartBegin
  <2>1. core = "off" /\ journal' = Deadline
    BY <1>0, <1>5 DEF StartRefused, StartBegin, MayStart, Stored
  <2>2. Deadline \in Nat \ {0}
    BY DEF Deadline, CaptureInv, Typed, CaptureAssumption
  <2>3. core' = core \/ core' = "asked"
    BY <1>5 DEF StartRefused, StartBegin
  <2> QED BY <2>1, <2>2, <2>3 DEF Handoff!Reserve, Handoff!Ask
<1>6. CASE StartReturns \/ Boot \/ BootEnds
  <2>1. core' = core /\ (journal' = journal \/ (tunnel = 0 /\ journal' = 0))
    BY <1>6 DEF StartReturns, Boot, BootEnds, Finish, FinishFails, ClearFails
  <2> QED BY <1>0, <2>1 DEF Handoff!Release
<1>7. ASSUME NEW o \in Owners, LockTake(o) \/ StopSucceeds(o) \/ StopFails(o)
      PROVE [Handoff!Next]_(Handoff!vars)
  BY <1>7, StopHandsOff
<1>8. CASE CloseEnd
  <2>1. core' = core /\ (journal' = journal \/ (journal = 0 /\ journal' = deadline))
    BY <1>8 DEF CloseEnd
  <2>2. deadline \in Nat
    BY DEF CaptureInv, Typed, CaptureAssumption
  <2>3. CASE journal' = journal
    BY <2>1, <2>3
  <2>4. CASE journal = 0 /\ journal' = deadline /\ deadline # 0
    BY <1>0, <2>1, <2>2, <2>4 DEF Handoff!Reserve
  <2> QED BY <2>1, <2>3, <2>4
<1> QED BY <1>1, <1>2, <1>3, <1>4, <1>5, <1>6, <1>7, <1>8 DEF Next

\* The journal implements CaptureHandoff: whoever starts next finds a record of
\* all that Core may be recording.
THEOREM JournalKeepsPromise == Spec => ImplementsHandoff
<1>1. Init => Handoff!Init
  BY DEF Init, Handoff!Init
<1>2. IInv /\ [Next]_vars => [Handoff!Next]_(Handoff!vars)
  BY HandoffStep DEF IInv
<1> QED BY <1>1, <1>2, CaptureInvariant, PTL DEF Spec, ImplementsHandoff, Handoff!Spec
=============================================================================
