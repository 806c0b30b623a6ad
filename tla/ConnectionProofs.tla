--------------------------- MODULE ConnectionProofs ---------------------------
(***************************************************************************)
(* The proofs about ConnectionOwner: its types and that one task at a time *)
(* is in Core; and what is connected when nobody is: no attempt that was   *)
(* replaced while it was being made, none older than a Disconnect that     *)
(* returned, and a dropped one has a retry task.                           *)
(***************************************************************************)
EXTENDS ConnectionOwner, TLAPS

-----------------------------------------------------------------------------
(* The reconnector: what its operations leave alone. *)

\* q is r after an operation that neither starts nor ends a retry task that
\* runs, and neither takes nor gives back a suspension.
Calm(r, q) ==
    /\ q \in Recs /\ q.suspenders = r.suspenders
    /\ q.slot = "held" <=> r.slot = "held"
    /\ r.slot = "held" /\ r.cancelled => q.cancelled

LEMMA ResetCalm ==
    ASSUME NEW r \in Recs, NEW c
    PROVE /\ Calm(r, Reset(r, c)) /\ Reset(r, c).enabled = r.enabled
          /\ c /\ r.slot = "held" => Reset(r, c).cancelled
BY DEF Recs, Calm, Reset

LEMMA ScheduleCalm ==
    ASSUME NEW r \in Recs
    PROVE Calm(r, Schedule(r)) /\ Schedule(r).enabled = r.enabled
BY DEF Recs, Calm, Schedule

LEMMA StatusCalm ==
    ASSUME NEW r \in Recs, NEW c
    PROVE Calm(r, StatusUpdate(r, c)) /\ StatusUpdate(r, c).enabled = r.enabled
<1>1. /\ Calm(r, Reset(r, ~Attempting)) /\ Reset(r, ~Attempting).enabled = r.enabled
      /\ Calm(r, Reset(r, TRUE)) /\ Reset(r, TRUE).enabled = r.enabled
  BY ResetCalm
<1>2. Calm(r, Schedule(r)) /\ Schedule(r).enabled = r.enabled
  BY ScheduleCalm
<1>3. Calm(r, r)
  BY DEF Calm
<1> QED BY <1>1, <1>2, <1>3 DEF StatusUpdate

LEMMA JoinedCalm ==
    ASSUME NEW r \in Recs
    PROVE Calm(r, Joined(r)) /\ Joined(r).enabled = r.enabled
BY DEF Recs, Calm, Joined

LEMMA DisableCalm ==
    ASSUME NEW r \in Recs, NEW a \in Tasks
    PROVE /\ Calm(r, Disable(r, a))
          /\ a # Retry /\ r.slot = "held" => Disable(r, a).cancelled
<1>2. /\ Calm(r, Reset(r, a # Retry))
      /\ a # Retry /\ r.slot = "held" => Reset(r, a # Retry).cancelled
  BY ResetCalm
<1>3. Calm(Reset(r, a # Retry), Joined(Reset(r, a # Retry)))
  BY <1>2, JoinedCalm DEF Calm
<1> QED BY <1>2, <1>3 DEF Calm, Disable, Recs

LEMMA SuspendFacts ==
    ASSUME NEW r \in Recs, NEW a \in Tasks
    PROVE /\ Suspend(r, a) \in Recs
          /\ Suspend(r, a).suspenders = r.suspenders \cup {a}
          /\ Suspend(r, a).slot = "held" <=> r.slot = "held"
          /\ r.slot = "held" /\ (r.cancelled \/ a # Retry) => Suspend(r, a).cancelled
<1>2. /\ Calm(r, Reset(r, a # Retry))
      /\ a # Retry /\ r.slot = "held" => Reset(r, a # Retry).cancelled
  BY ResetCalm
<1> QED BY <1>2 DEF Calm, Suspend, Recs

LEMMA ResumeFacts ==
    ASSUME NEW r \in Recs, NEW a \in Tasks
    PROVE /\ Resume(r, a) \in Recs
          /\ Resume(r, a).suspenders = r.suspenders \ {a}
          /\ Resume(r, a).enabled = r.enabled
          /\ Resume(r, a).slot = "held" <=> r.slot = "held"
          /\ r.slot = "held" /\ r.cancelled => Resume(r, a).cancelled
<1> DEFINE q == [r EXCEPT !.suspenders = r.suspenders \ {a}]
<1>1. q \in Recs /\ q.suspenders = r.suspenders \ {a} /\ q.enabled = r.enabled
      /\ q.slot = r.slot /\ q.cancelled = r.cancelled
  BY DEF Recs
<1>2. Calm(q, StatusUpdate(q, core)) /\ StatusUpdate(q, core).enabled = q.enabled
  BY <1>1, StatusCalm
<1>3. Resume(r, a) = IF a \in r.suspenders THEN StatusUpdate(q, core) ELSE r
  BY DEF Resume
<1>4. CASE a \in r.suspenders
  BY <1>1, <1>2, <1>3, <1>4 DEF Calm
<1>5. CASE a \notin r.suspenders
  <2>1. r.suspenders \ {a} = r.suspenders
    BY <1>5 DEF Recs
  <2> QED BY <2>1, <1>3, <1>5
<1> QED BY <1>4, <1>5

LEMMA RetryOverFacts ==
    ASSUME NEW r \in Recs
    PROVE /\ RetryOver(r) \in Recs
          /\ RetryOver(r).suspenders = r.suspenders
          /\ RetryOver(r).slot # "held"
<1> DEFINE q == [r EXCEPT !.slot = "empty", !.cancelled = FALSE]
<1>1. q \in Recs /\ q.suspenders = r.suspenders /\ q.slot # "held"
  BY DEF Recs
<1>2. Calm(q, Schedule(q))
  BY <1>1, ScheduleCalm
<1> QED BY <1>1, <1>2 DEF RetryOver, Calm

LEMMA AgainTyped ==
    ASSUME NEW r \in Recs
    PROVE Again(r) \in Recs /\ Again(r).suspenders = r.suspenders
BY DEF Again, Recs, RetryCurrent

-----------------------------------------------------------------------------
(* The inductive invariant. *)

\* Those who may ask Core to connect.
Requests == Targets \cup {Retry}

\* Who asks Core has its place in the connection scope, and the scope somebody
\* who asks Core.
Scoped ==
    /\ \A a \in Tasks : InCore(a) => scope = a
    /\ scope # NoOne => InCore(scope)
    /\ \A c \in Cleanups : place[c] \notin {"prepare", "wait", "up", "accepted", "auth"}
    /\ \A t \in Targets : place[t] # "wait"
    /\ place[Retry] # "prepare"
    /\ place[Retry] \in {"join", "retire"} => Retry \in expiring
    /\ expiring \subseteq Requests
    /\ \A a \in expiring : place[a] \notin {"idle", "wait", "prepare", "up", "accepted", "auth"}

\* The session expires once, and then every request is obsolete.
Counted ==
    /\ intent + enables <= MaxIntent \/ (~loggedIn /\ intent + enables <= MaxIntent + 1)
    /\ loggedIn <=> expiredAt = 0
    /\ expiredAt <= intent
    /\ \A a \in Tasks : intentOf[a] <= intent
    /\ \A a \in Requests : place[a] \notin {"idle", "wait"} /\ expiredAt # 0 => intentOf[a] < expiredAt

\* The retry task that runs holds its slot; every request at work suspends it.
Suspended ==
    /\ Active(Retry) <=> rec.slot = "held"
    /\ \A c \in Cleanups : Active(c) => c \in rec.suspenders
    /\ place[Retry] = "scope" /\ Retry \notin expiring /\ ~rec.cancelled
         => rec.enabled /\ rec.suspenders = {}

OwnerInv == TypeOK /\ Scoped /\ Counted /\ Suspended

LEMMA TypeStep == OwnerInv /\ [Next]_vars => TypeOK'
<1> SUFFICES ASSUME OwnerInv, [Next]_vars
             PROVE  TypeOK'
  OBVIOUS
<1> USE OwnerAssumption DEF Tasks, Intents
<1>0. TypeOK /\ rec \in Recs /\ core \in Cores
  BY DEF OwnerInv, TypeOK
<1>a. InFlight \subseteq Intents
  BY <1>0 DEF TypeOK, InFlight
<1>1. ASSUME NEW a \in Tasks, NEW r \in Recs, EndWith(a, r),
             UNCHANGED <<coreVars, intent, loggedIn, expiredAt, preference, exited, released, superseded, enables>>
      PROVE  TypeOK'
  <2>1. rec' \in Recs
    BY <1>1, ResumeFacts, RetryOverFacts DEF EndWith
  <2> QED BY <1>0, <1>1, <2>1 DEF TypeOK, EndWith, GoTo, coreVars
<1>2. ASSUME NEW a \in Tasks, Begin(a) PROVE TypeOK'
  <2>1. rec' \in Recs
    BY <1>0, <1>2, SuspendFacts DEF Begin
  <2>2. superseded' \subseteq Intents /\ intent' \in Intents /\ enables' \in 0..MaxIntent
    <3>1. intent \in Nat /\ enables \in Nat /\ intent + enables < MaxIntent
      BY <1>0, <1>2 DEF TypeOK, Begin
    <3>2. CASE NewIntent /\ UNCHANGED enables
      BY <1>0, <1>a, <3>1, <3>2 DEF TypeOK, NewIntent
    <3>3. CASE enables' = enables + 1 /\ UNCHANGED <<intent, superseded>>
      BY <1>0, <3>1, <3>3 DEF TypeOK
    <3> QED BY <1>2, <3>2, <3>3 DEF Begin
  <2> QED BY <1>0, <1>2, <2>1, <2>2 DEF TypeOK, Begin, GoTo, coreVars
<1>3. ASSUME NEW t \in Tasks, CancelCaller(t) PROVE TypeOK'
  BY <1>0, <1>3 DEF TypeOK, CancelCaller, coreVars, sessionVars, historyVars
<1>4. ASSUME NEW a \in Tasks, JoinRetry(a) PROVE TypeOK'
  <2>1. Joined(rec) \in Recs
    BY <1>0, JoinedCalm DEF Calm
  <2>2. CASE Cancelled(a)
    BY <1>1, <1>4, <2>1, <2>2 DEF JoinRetry, sessionVars, historyVars
  <2>3. CASE ~Cancelled(a)
    <3>1. rec' \in Recs
      BY <1>0, <1>4, <2>1, <2>3 DEF JoinRetry
    <3>2. Older(a) \subseteq Targets
      BY DEF Older
    <3> QED BY <1>0, <1>4, <2>3, <3>1, <3>2 DEF TypeOK, JoinRetry, GoTo, coreVars, sessionVars, historyVars
  <2> QED BY <2>2, <2>3
<1>5. ASSUME NEW a \in Tasks, JoinTargets(a) PROVE TypeOK'
  <2>1. CASE Cancelled(a)
    BY <1>0, <1>1, <1>5, <2>1 DEF JoinTargets, End, sessionVars, historyVars
  <2>2. CASE ~Cancelled(a)
    BY <1>0, <1>5, <2>2 DEF TypeOK, JoinTargets, GoTo, coreVars, sessionVars, historyVars
  <2> QED BY <2>1, <2>2
<1>6. ASSUME NEW t \in Targets, Prepare(t) PROVE TypeOK'
  <2>1. CASE End(t)
    BY <1>0, <1>1, <1>6, <2>1 DEF Prepare, End, sessionVars, historyVars
  <2>2. CASE ~End(t)
    BY <1>0, <1>6, <2>2 DEF TypeOK, Prepare, GoTo, coreVars, sessionVars, historyVars
  <2> QED BY <2>1, <2>2
<1>7. CASE RetryStarts
  BY <1>0, <1>7 DEF TypeOK, Recs, RetryStarts, GoTo, coreVars, sessionVars, historyVars
<1>8. CASE RetryWakes
  <2>1. rec' \in Recs
    BY <1>0, <1>8, RetryOverFacts, AgainTyped DEF RetryWakes
  <2> QED BY <1>0, <1>8, <2>1 DEF TypeOK, RetryWakes, GoTo, coreVars, sessionVars, historyVars
<1>9. ASSUME NEW a \in Tasks, TakeScope(a) PROVE TypeOK'
  <2>1. CASE End(a) /\ UNCHANGED moved
    BY <1>0, <1>1, <1>9, <2>1 DEF TakeScope, End, sessionVars, historyVars, coreVars
  <2>2. CASE ~(End(a) /\ UNCHANGED moved)
    BY <1>0, <1>9, <2>2 DEF TypeOK, TakeScope, EnterDown, GoTo, sessionVars, historyVars
  <2> QED BY <2>1, <2>2
<1>10. ASSUME NEW a \in Tasks, WithdrawScope(a) \/ WithdrawAuth(a) PROVE TypeOK'
  BY <1>0, <1>1, <1>10 DEF WithdrawScope, WithdrawAuth, End, sessionVars, historyVars, coreVars
<1>11. ASSUME NEW c \in Cores, Report(c) PROVE core' \in Cores /\ moved' \in BOOLEAN /\ rec' \in Recs
  BY <1>0, <1>11, StatusCalm DEF Report, Calm
<1>12. ASSUME NEW a \in Tasks, Up(a) PROVE TypeOK'
  <2>1. PICK c \in Cores : Report(c)
    BY <1>0, <1>12 DEF Up, Cores, TypeOK
  <2> QED BY <1>0, <1>11, <1>12, <2>1 DEF TypeOK, Up, GoTo, sessionVars
<1>13. ASSUME NEW a \in Tasks, UpReturns(a) PROVE TypeOK'
  <2>1. CASE MayKeep(a)
    BY <1>0, <1>1, <1>13, <2>1 DEF UpReturns, End, sessionVars, historyVars, coreVars
  <2>2. CASE ~MayKeep(a)
    BY <1>0, <1>13, <2>2 DEF TypeOK, UpReturns, EnterDown, GoTo, sessionVars, historyVars
  <2> QED BY <2>1, <2>2
<1>14. ASSUME NEW a \in Tasks, UpFails(a) PROVE TypeOK'
  <2>1. Again(rec) \in Recs
    BY <1>0, AgainTyped
  <2>2. CASE EndWith(a, Again(rec)) /\ UNCHANGED moved
    BY <1>0, <1>1, <1>14, <2>1, <2>2 DEF UpFails, sessionVars, historyVars, coreVars
  <2>3. CASE End(a) /\ UNCHANGED moved
    BY <1>0, <1>1, <1>14, <2>3 DEF UpFails, End, sessionVars, historyVars, coreVars
  <2>4. CASE ~(EndWith(a, Again(rec)) /\ UNCHANGED moved) /\ ~(End(a) /\ UNCHANGED moved)
    BY <1>0, <1>14, <2>4 DEF TypeOK, UpFails, EnterDown, GoTo, sessionVars, historyVars
  <2> QED BY <2>2, <2>3, <2>4
<1>15. Stopping \in Cores /\ Stopped \in Cores
  BY <1>0 DEF Stopping, Stopped, Cores
<1>16. ASSUME NEW a \in Tasks, DownReturns(a) PROVE TypeOK'
  <2>1. core' \in Cores /\ moved' \in BOOLEAN /\ rec' \in Recs
    <3>1. CASE \E c \in {Stopping, Stopped} : Report(c)
      BY <1>11, <1>15, <3>1
    <3>2. CASE UNCHANGED <<coreVars, rec>>
      BY <1>0, <3>2 DEF TypeOK, coreVars
    <3> QED BY <1>16, <3>1, <3>2 DEF DownReturns
  <2>2. place' \in [Tasks -> {"idle", "join", "retire", "prepare", "wait", "scope", "up",
                            "accepted", "down", "await", "apply", "auth"}]
    BY <1>0, <1>16 DEF TypeOK, DownReturns, GoTo
  <2> QED BY <1>0, <1>16, <2>1, <2>2 DEF TypeOK, DownReturns, sessionVars, historyVars
<1>17. ASSUME NEW a \in Tasks, StateChanged(a) PROVE TypeOK'
  BY <1>0, <1>17 DEF TypeOK, StateChanged, EnterDown, GoTo, sessionVars, historyVars
<1>18. ASSUME NEW a \in Tasks, Apply(a) PROVE TypeOK'
  <2>1. Disable(rec, a) \in Recs /\ [rec EXCEPT !.enabled = TRUE] \in Recs
    BY <1>0, DisableCalm DEF Calm, Recs
  <2>2. PICK r \in Recs : EndWith(a, r)
    BY <1>0, <1>18, <2>1 DEF Apply, End
  <2>3. rec' \in Recs
    BY <2>2, ResumeFacts, RetryOverFacts DEF EndWith
  <2>4. preference' \in BOOLEAN /\ released' \in Intents
    <3>1. preference \in BOOLEAN /\ released \in Intents /\ intentOf[a] \in Intents
      BY <1>0 DEF TypeOK
    <3>2. preference' \in {preference, TRUE, FALSE} /\ released' \in {released, intentOf[a]}
      BY <1>18 DEF Apply
    <3> HIDE DEF Intents
    <3> QED BY <3>1, <3>2
  <2>5. UNCHANGED <<coreVars, intent, loggedIn, expiredAt, exited, superseded, enables>>
    BY <1>18 DEF Apply
  <2> QED BY <1>0, <2>2, <2>3, <2>4, <2>5 DEF TypeOK, EndWith, GoTo, coreVars
<1>19. ASSUME NEW a \in Tasks, TakeAuth(a) PROVE TypeOK'
  <2>1. CASE Obsolete(a)
    BY <1>0, <1>1, <1>19, <2>1 DEF TakeAuth, End, sessionVars, coreVars
  <2>2. CASE ~Obsolete(a)
    <3>1. rec' \in Recs
      BY <1>0, <1>19, <2>2, SuspendFacts DEF TakeAuth
    <3>2. a \in Requests /\ place[a] = "auth"
      BY <1>19 DEF OwnerInv, Scoped, TakeAuth, At, Requests
    <3>3. expiredAt = 0
      BY <1>0, <2>2, <3>2 DEF OwnerInv, Counted, Obsolete, TypeOK
    <3>4. intent' \in Intents /\ expiredAt' \in Intents /\ superseded' \subseteq Intents
      <4>1. NewIntent /\ expiredAt' = intent'
        BY <1>19, <2>2 DEF TakeAuth
      <4>2. intent \in Nat /\ enables \in Nat /\ intent + enables <= MaxIntent
        BY <1>0, <3>3 DEF OwnerInv, Counted, TypeOK
      <4> QED BY <1>0, <1>a, <4>1, <4>2 DEF TypeOK, NewIntent
    <3> QED BY <1>0, <1>19, <2>2, <3>1, <3>4 DEF TypeOK, TakeAuth, GoTo, coreVars
  <2> QED BY <2>1, <2>2
<1>20. ASSUME NEW a \in Tasks, Terminate(a) PROVE TypeOK'
  BY <1>0, <1>20 DEF TypeOK, Terminate, coreVars, sessionVars, taskVars, historyVars
<1>21. CASE CoreMoves \/ TunnelMoves
  <2>1. PICK c \in Cores : Report(c)
    <3>1. CASE CoreMoves
      <4>1. /\ [core EXCEPT !.state = "Disconnected", !.of = 0] \in Cores
            /\ [core EXCEPT !.state = "Connecting", !.of = core.next, !.next = 0] \in Cores
        <5>1. core.next \in Intents /\ 0 \in Intents
          BY <1>0 DEF Cores
        <5> HIDE DEF Intents
        <5> QED BY <1>0, <5>1 DEF Cores
      <4> QED BY <3>1, <4>1 DEF CoreMoves
    <3>2. CASE TunnelMoves
      <4>1. \A why \in {"drop", "final", "certificate"} :
              [core EXCEPT !.state = "Error", !.cause = why] \in Cores
        BY <1>0 DEF Cores
      <4>2. [core EXCEPT !.state = "Connected", !.cause = "none"] \in Cores
        BY <1>0 DEF Cores
      <4> QED BY <1>15, <3>2, <4>1, <4>2 DEF TunnelMoves
    <3> QED BY <1>21, <3>1, <3>2
  <2> QED BY <1>0, <1>11, <1>21, <2>1 DEF TypeOK, CoreMoves, TunnelMoves, sessionVars, taskVars, historyVars
<1>22. CASE UNCHANGED vars
  BY <1>0, <1>22 DEF TypeOK, vars, coreVars, sessionVars, taskVars, historyVars
<1> QED
  BY <1>2, <1>3, <1>4, <1>5, <1>6, <1>7, <1>8, <1>9, <1>10, <1>12, <1>13, <1>14, <1>16, <1>17,
     <1>18, <1>19, <1>20, <1>21, <1>22 DEF Next, TaskNext

LEMMA ScopedStep == OwnerInv /\ [Next]_vars => Scoped'
<1> SUFFICES ASSUME OwnerInv, [Next]_vars
             PROVE  Scoped'
  OBVIOUS
<1> USE OwnerAssumption DEF Tasks, Requests
<1>0. /\ Scoped /\ place \in [Tasks -> {"idle", "join", "retire", "prepare", "wait", "scope", "up",
                                         "accepted", "down", "await", "apply", "auth"}]
      /\ scope \in Tasks \cup {NoOne} /\ expiring \subseteq Tasks
  BY DEF OwnerInv, TypeOK
<1> DEFINE Kept == UNCHANGED <<scope, expiring>>
<1>1. ASSUME NEW a \in Tasks, NEW r, EndWith(a, r) PROVE Scoped'
  BY <1>0, <1>1 DEF Scoped, InCore, EndWith, GoTo
<1>2. ASSUME NEW a \in Tasks, NEW p, GoTo(a, p), Kept,
             p \in {"up", "accepted", "down", "await", "apply"} <=> scope = a,
             p \in {"prepare", "up", "accepted"} => a \in Requests \ expiring,
             p \in {"join", "retire", "prepare", "scope", "up", "accepted", "down", "await", "apply"},
             p = "prepare" => a # Retry,
             a = Retry /\ p \in {"join", "retire"} => a \in expiring
      PROVE  Scoped'
  BY <1>0, <1>2 DEF Scoped, InCore, GoTo
<1>3. ASSUME NEW a \in Tasks, Begin(a) PROVE Scoped'
  BY <1>0, <1>3 DEF Scoped, InCore, Begin, GoTo, Active
<1>4. ASSUME UNCHANGED <<place, scope, expiring>> PROVE Scoped'
  BY <1>0, <1>4 DEF Scoped, InCore
<1>5. ASSUME NEW a \in Tasks, JoinRetry(a) PROVE Scoped'
  <2>1. a = Retry => Retry \in expiring
    BY <1>0, <1>5 DEF Scoped, JoinRetry, At
  <2>2. scope # a
    BY <1>0, <1>5 DEF Scoped, InCore, JoinRetry, At
  <2> QED BY <1>1, <1>2, <1>5, <2>1, <2>2 DEF JoinRetry
<1>6. ASSUME NEW a \in Tasks, JoinTargets(a) PROVE Scoped'
  <2>1. scope # a
    BY <1>0, <1>6 DEF Scoped, InCore, JoinTargets, At
  <2> QED BY <1>1, <1>2, <1>6, <2>1 DEF JoinTargets, End
<1>7. ASSUME NEW t \in Targets, Prepare(t) PROVE Scoped'
  BY <1>0, <1>1, <1>7 DEF Prepare, End, Scoped, InCore, GoTo, At
<1>8. CASE RetryStarts \/ RetryWakes
  BY <1>0, <1>8 DEF OwnerInv, Suspended, RetryStarts, RetryWakes, Scoped, InCore, GoTo, At, Active
<1>9. ASSUME NEW a \in Tasks, TakeScope(a) PROVE Scoped'
  BY <1>0, <1>1, <1>9 DEF TakeScope, ScopeFree, End, EnterDown, Superseder, Scoped, InCore, GoTo, At
<1>10. ASSUME NEW a \in Tasks, WithdrawScope(a) \/ WithdrawAuth(a) PROVE Scoped'
  BY <1>1, <1>10 DEF WithdrawScope, WithdrawAuth, End
<1>11. ASSUME NEW a \in Tasks, Up(a) PROVE Scoped'
  BY <1>0, <1>11 DEF Up, Scoped, InCore, GoTo, At
<1>12. ASSUME NEW a \in Tasks, UpReturns(a) PROVE Scoped'
  BY <1>0, <1>1, <1>12 DEF UpReturns, End, EnterDown, Scoped, InCore, GoTo, At
<1>13. ASSUME NEW a \in Tasks, UpFails(a) PROVE Scoped'
  BY <1>0, <1>1, <1>13 DEF UpFails, End, EnterDown, Scoped, InCore, GoTo, At
<1>14. ASSUME NEW a \in Tasks, DownReturns(a) PROVE Scoped'
  BY <1>0, <1>14 DEF DownReturns, Scoped, InCore, GoTo, At
<1>15. ASSUME NEW a \in Tasks, StateChanged(a) PROVE Scoped'
  BY <1>0, <1>15 DEF StateChanged, EnterDown, Scoped, InCore, GoTo, At
<1>16. ASSUME NEW a \in Tasks, Apply(a) PROVE Scoped'
  BY <1>1, <1>16 DEF Apply, End
<1>17. ASSUME NEW a \in Tasks, TakeAuth(a) PROVE Scoped'
  BY <1>0, <1>1, <1>17 DEF TakeAuth, End, Scoped, InCore, GoTo, At
<1>18. ASSUME CoreMoves \/ TunnelMoves \/ UNCHANGED vars
                \/ \E a \in Tasks : CancelCaller(a) \/ Terminate(a)
       PROVE  Scoped'
  BY <1>4, <1>18 DEF CoreMoves, TunnelMoves, CancelCaller, Terminate, vars, taskVars
<1> QED
  BY <1>3, <1>5, <1>6, <1>7, <1>8, <1>9, <1>10, <1>11, <1>12, <1>13, <1>14, <1>15, <1>16, <1>17,
     <1>18 DEF Next, TaskNext

LEMMA SuspendedStep == OwnerInv /\ [Next]_vars => Suspended'
<1> SUFFICES ASSUME OwnerInv, [Next]_vars
             PROVE  Suspended'
  OBVIOUS
<1> USE OwnerAssumption DEF Tasks
<1>0. /\ Suspended /\ rec \in Recs /\ expiring \subseteq Tasks
      /\ place \in [Tasks -> {"idle", "join", "retire", "prepare", "wait", "scope", "up",
                              "accepted", "down", "await", "apply", "auth"}]
  BY DEF OwnerInv, TypeOK
<1>a. /\ \A c \in Cleanups : place[c] \notin {"prepare", "wait", "up", "accepted", "auth"}
      /\ \A b \in expiring : place[b] # "wait"
      /\ place[Retry] # "prepare"
      /\ place[Retry] \in {"join", "retire"} => Retry \in expiring
  BY DEF OwnerInv, Scoped
\* A task that is not the retry task ends, and reconnection may be disabled.
<1>1. ASSUME NEW a \in Tasks, NEW r \in Recs, EndWith(a, r), Active(a),
             r.suspenders = rec.suspenders, r.slot = "held" <=> rec.slot = "held",
             rec.slot = "held" /\ rec.cancelled => r.cancelled,
             a # Retry /\ rec.enabled => r.enabled \/ (rec.slot = "held" => r.cancelled)
      PROVE  Suspended'
  <2>1. CASE a = Retry
    <3>1. /\ Resume(r, Retry) \in Recs
          /\ Resume(r, Retry).suspenders = rec.suspenders \ {Retry}
      BY <1>1, ResumeFacts
    <3>2. rec'.suspenders = rec.suspenders \ {Retry} /\ rec'.slot # "held"
      BY <1>1, <2>1, <3>1, RetryOverFacts DEF EndWith
    <3> QED BY <1>0, <1>1, <2>1, <3>2 DEF Suspended, EndWith, GoTo, Active
  <2>2. CASE a # Retry
    BY <1>0, <1>1, <2>2, ResumeFacts DEF Suspended, EndWith, GoTo, Active, Recs
  <2> QED BY <2>1, <2>2
\* A task goes on, and the reconnector changes quietly.
<1>2. ASSUME NEW a \in Tasks, NEW p, GoTo(a, p), p # "idle", Active(a), Calm(rec, rec'),
             rec'.enabled = rec.enabled, expiring' = expiring,
             a = Retry /\ a \notin expiring => p # "scope"
      PROVE  Suspended'
  BY <1>0, <1>2 DEF Suspended, GoTo, Active, Calm
<1>3. Calm(rec, rec)
  BY <1>0 DEF Calm
<1>4. ASSUME NEW a \in Tasks, Begin(a) PROVE Suspended'
  BY <1>0, <1>4, SuspendFacts DEF Suspended, Begin, GoTo, Active
<1>5. ASSUME Calm(rec, rec'), rec'.enabled = rec.enabled, UNCHANGED <<place, expiring>>
      PROVE  Suspended'
  BY <1>0, <1>5 DEF Suspended, Active, Calm
<1>6. ASSUME NEW a \in Tasks, JoinRetry(a) PROVE Suspended'
  <2>1. Calm(rec, Joined(rec)) /\ Joined(rec).enabled = rec.enabled
    BY <1>0, JoinedCalm
  <2>2. CASE Cancelled(a)
    BY <1>1, <1>6, <2>1, <2>2 DEF JoinRetry, At, Active, Calm
  <2>3. CASE ~Cancelled(a)
    <3>1. a = Retry => Retry \in expiring
      BY <1>a, <1>6 DEF JoinRetry, At
    <3> QED BY <1>2, <1>3, <1>6, <2>1, <2>3, <3>1 DEF JoinRetry, At, Active
  <2> QED BY <2>2, <2>3
<1>7. ASSUME NEW a \in Tasks, JoinTargets(a) PROVE Suspended'
  <2>1. CASE Cancelled(a)
    BY <1>0, <1>1, <1>7, <2>1 DEF JoinTargets, End, At, Active
  <2>2. CASE ~Cancelled(a)
    BY <1>a, <1>2, <1>3, <1>7, <2>2 DEF JoinTargets, At, Active
  <2> QED BY <2>1, <2>2
<1>8. ASSUME NEW t \in Targets, Prepare(t) PROVE Suspended'
  <2>1. CASE End(t)
    BY <1>0, <1>1, <1>8, <2>1 DEF Prepare, End, At, Active
  <2>2. CASE ~End(t)
    BY <1>2, <1>3, <1>8, <2>2 DEF Prepare, At, Active
  <2> QED BY <2>1, <2>2
<1>9. CASE RetryStarts
  BY <1>0, <1>9 DEF RetryStarts, Suspended, GoTo, Active, Recs
<1>10. CASE RetryWakes
  <2>1. Again(rec) \in Recs /\ Again(rec).suspenders = rec.suspenders
    BY <1>0, AgainTyped
  <2>2. /\ RetryOver(rec).suspenders = rec.suspenders /\ RetryOver(rec).slot # "held"
        /\ RetryOver(Again(rec)).suspenders = rec.suspenders /\ RetryOver(Again(rec)).slot # "held"
    BY <1>0, <2>1, RetryOverFacts
  <2>3. CASE GoTo(Retry, "scope") /\ RetryCurrent(rec) /\ UNCHANGED rec
    BY <1>0, <1>10, <2>3 DEF RetryWakes, RetryCurrent, Suspended, GoTo, Active, At
  <2>4. CASE GoTo(Retry, "idle") /\ (rec' = RetryOver(rec) \/ rec' = RetryOver(Again(rec)))
    BY <1>0, <1>10, <2>2, <2>4 DEF RetryWakes, Suspended, GoTo, Active
  <2> QED BY <1>10, <2>3, <2>4 DEF RetryWakes
<1>11. ASSUME NEW a \in Tasks, TakeScope(a) PROVE Suspended'
  <2>1. CASE End(a)
    BY <1>0, <1>1, <1>11, <2>1 DEF TakeScope, End, At, Active
  <2>2. CASE ~End(a)
    BY <1>2, <1>3, <1>11, <2>2 DEF TakeScope, EnterDown, At, Active
  <2> QED BY <2>1, <2>2
<1>12. ASSUME NEW a \in Tasks, WithdrawScope(a) \/ WithdrawAuth(a) PROVE Suspended'
  BY <1>0, <1>1, <1>12 DEF WithdrawScope, WithdrawAuth, End, At, Active
<1>13. ASSUME NEW c, Report(c) PROVE Calm(rec, rec') /\ rec'.enabled = rec.enabled
  BY <1>0, <1>13, StatusCalm DEF Report
<1>14. ASSUME NEW a \in Tasks, Up(a) PROVE Suspended'
  BY <1>2, <1>13, <1>14 DEF Up, At, Active
<1>15. ASSUME NEW a \in Tasks, UpReturns(a) PROVE Suspended'
  <2>1. CASE MayKeep(a)
    BY <1>0, <1>1, <1>15, <2>1 DEF UpReturns, End, At, Active
  <2>2. CASE ~MayKeep(a)
    BY <1>2, <1>3, <1>15, <2>2 DEF UpReturns, EnterDown, At, Active
  <2> QED BY <2>1, <2>2
<1>16. ASSUME NEW a \in Tasks, UpFails(a) PROVE Suspended'
  <2>1. ASSUME EndWith(a, Again(rec)), a = Retry PROVE Suspended'
    <3>1. Again(rec) \in Recs /\ Again(rec).suspenders = rec.suspenders /\ Again(rec).slot = rec.slot
          /\ Again(rec).cancelled = rec.cancelled
      BY <1>0, AgainTyped DEF Again, Recs
    <3> QED BY <1>0, <1>1, <1>16, <2>1, <3>1 DEF UpFails, Active, At
  <2>2. ASSUME End(a) PROVE Suspended'
    BY <1>0, <1>1, <1>16, <2>2 DEF UpFails, End, At, Active
  <2>3. ASSUME NEW p \in {"down", "auth"}, GoTo(a, p), UNCHANGED <<rec, expiring>> PROVE Suspended'
    BY <1>2, <1>3, <1>16, <2>3 DEF UpFails, At, Active
  <2> QED BY <1>16, <2>1, <2>2, <2>3 DEF UpFails, EnterDown
<1>17. ASSUME NEW a \in Tasks, DownReturns(a) PROVE Suspended'
  <2>1. Calm(rec, rec') /\ rec'.enabled = rec.enabled
    BY <1>3, <1>13, <1>17 DEF DownReturns
  <2> QED BY <1>2, <1>17, <2>1 DEF DownReturns, At, Active
<1>18. ASSUME NEW a \in Tasks, StateChanged(a) PROVE Suspended'
  BY <1>2, <1>3, <1>18 DEF StateChanged, EnterDown, At, Active
<1>19. ASSUME NEW a \in Tasks, Apply(a) PROVE Suspended'
  <2>1. /\ Calm(rec, Disable(rec, a))
        /\ a # Retry /\ rec.slot = "held" => Disable(rec, a).cancelled
    BY <1>0, DisableCalm
  <2>2. CASE EndWith(a, rec)
    BY <1>0, <1>1, <1>19, <2>2 DEF Apply, At, Active
  <2>3. CASE EndWith(a, Disable(rec, a))
    BY <1>1, <1>19, <2>1, <2>3 DEF Apply, At, Active, Calm
  <2>4. CASE EndWith(a, [rec EXCEPT !.enabled = TRUE])
    <3> DEFINE q == [rec EXCEPT !.enabled = TRUE]
    <3>1. q \in Recs /\ q.suspenders = rec.suspenders /\ q.slot = rec.slot
          /\ q.cancelled = rec.cancelled /\ q.enabled
      BY <1>0 DEF Recs
    <3> QED BY <1>1, <1>19, <2>4, <3>1 DEF Apply, At, Active
  <2> QED BY <1>19, <2>2, <2>3, <2>4 DEF Apply, End
<1>20. ASSUME NEW a \in Tasks, TakeAuth(a) PROVE Suspended'
  <2>1. CASE End(a)
    BY <1>0, <1>1, <1>20, <2>1 DEF TakeAuth, End, At, Active
  <2>2. CASE ~End(a)
    BY <1>0, <1>a, <1>20, <2>2, SuspendFacts DEF TakeAuth, Suspended, GoTo, At, Active
  <2> QED BY <2>1, <2>2
<1>21. CASE CoreMoves \/ TunnelMoves
  <2>1. PICK c : Report(c)
    BY <1>21 DEF CoreMoves, TunnelMoves
  <2> QED BY <1>5, <1>13, <1>21, <2>1 DEF CoreMoves, TunnelMoves, taskVars
<1>22. ASSUME UNCHANGED vars \/ \E a \in Tasks : CancelCaller(a) \/ Terminate(a) PROVE Suspended'
  BY <1>3, <1>5, <1>22 DEF CancelCaller, Terminate, vars, taskVars
<1> QED
  BY <1>4, <1>6, <1>7, <1>8, <1>9, <1>10, <1>11, <1>12, <1>14, <1>15, <1>16, <1>17, <1>18, <1>19,
     <1>20, <1>21, <1>22 DEF Next, TaskNext

LEMMA CountedStep == OwnerInv /\ [Next]_vars => Counted'
<1> SUFFICES ASSUME OwnerInv, [Next]_vars
             PROVE  Counted'
  OBVIOUS
<1> USE OwnerAssumption DEF Tasks, Requests
<1>0. /\ Counted /\ expiredAt \in Nat /\ intent \in Nat /\ enables \in Nat /\ loggedIn \in BOOLEAN
      /\ place \in [Tasks -> {"idle", "join", "retire", "prepare", "wait", "scope", "up",
                              "accepted", "down", "await", "apply", "auth"}]
      /\ intentOf \in [Tasks -> Nat]
  BY DEF OwnerInv, TypeOK, Intents
<1>1. ASSUME NEW a \in Tasks, NEW r, EndWith(a, r), UNCHANGED <<intent, enables, loggedIn, expiredAt>>
      PROVE  Counted'
  BY <1>0, <1>1 DEF Counted, EndWith, GoTo
<1>2. ASSUME NEW a \in Tasks, NEW p, GoTo(a, p), place[a] \notin {"idle", "wait"}, p \notin {"idle", "wait"},
             UNCHANGED <<intent, enables, loggedIn, expiredAt, intentOf>>
      PROVE  Counted'
  BY <1>0, <1>2 DEF Counted, GoTo
<1>3. ASSUME UNCHANGED <<intent, enables, loggedIn, expiredAt, intentOf, place>> PROVE Counted'
  BY <1>0, <1>3 DEF Counted
<1>4. ASSUME NEW a \in Tasks, Begin(a) PROVE Counted'
  <2>1. intent' + enables' <= MaxIntent /\ intent' >= intent /\ intent' \in Nat /\ enables' \in Nat
    BY <1>0, <1>4 DEF Begin, NewIntent
  <2>2. \A b \in Tasks : intentOf'[b] <= intent'
    BY <1>0, <1>4, <2>1 DEF Counted, Begin
  <2>3. /\ a \in Targets => expiredAt = 0
        /\ UNCHANGED <<loggedIn, expiredAt>>
    BY <1>0, <1>4 DEF Counted, Begin
  <2>4. \A b \in Requests : place'[b] \notin {"idle", "wait"} /\ expiredAt' # 0 => intentOf'[b] < expiredAt'
    BY <1>0, <1>4, <2>3 DEF Counted, Begin, GoTo
  <2>5. expiredAt' <= intent'
    BY <1>0, <2>1, <2>3 DEF Counted
  <2> QED BY <1>0, <2>1, <2>2, <2>3, <2>4, <2>5 DEF Counted
<1>5. ASSUME NEW a \in Tasks, JoinRetry(a) \/ JoinTargets(a) \/ TakeScope(a) \/ WithdrawScope(a)
               \/ Up(a) \/ UpReturns(a) \/ UpFails(a) \/ DownReturns(a) \/ StateChanged(a)
               \/ Apply(a) \/ WithdrawAuth(a)
      PROVE  Counted'
  <2>1. UNCHANGED <<intent, enables, loggedIn, expiredAt>>
    BY <1>5 DEF JoinRetry, JoinTargets, TakeScope, WithdrawScope, Up, UpReturns, UpFails, DownReturns,
      StateChanged, Apply, WithdrawAuth, sessionVars, historyVars
  <2>2. \/ \E r : EndWith(a, r)
        \/ \E p : GoTo(a, p) /\ p \notin {"idle", "wait"} /\ place[a] \notin {"idle", "wait"}
                  /\ UNCHANGED intentOf
    BY <1>5 DEF JoinRetry, JoinTargets, TakeScope, WithdrawScope, Up, UpReturns, UpFails, DownReturns,
      StateChanged, Apply, WithdrawAuth, At, End, EnterDown
  <2> QED BY <1>1, <1>2, <2>1, <2>2
<1>6. ASSUME NEW t \in Targets, Prepare(t) PROVE Counted'
  BY <1>1, <1>2, <1>6 DEF Prepare, End, At, sessionVars, historyVars
<1>7. CASE RetryStarts
  BY <1>0, <1>7 DEF RetryStarts, OwnerInv, Suspended, Active, Counted, GoTo, sessionVars, historyVars
<1>8. CASE RetryWakes
  BY <1>0, <1>8 DEF RetryWakes, Counted, GoTo, At, sessionVars, historyVars
<1>9. ASSUME NEW a \in Tasks, TakeAuth(a) PROVE Counted'
  <2>1. CASE Obsolete(a)
    BY <1>1, <1>9, <2>1 DEF TakeAuth, End, sessionVars
  <2>2. CASE ~Obsolete(a)
    <3>1. a \in Requests /\ place[a] = "auth"
      BY <1>9 DEF OwnerInv, Scoped, TakeAuth, At
    <3>2. expiredAt = 0
      BY <1>0, <2>2, <3>1 DEF Counted, Obsolete
    <3> QED BY <1>0, <1>9, <2>2, <3>1, <3>2 DEF Counted, TakeAuth, NewIntent, GoTo
  <2> QED BY <2>1, <2>2
<1>10. ASSUME CoreMoves \/ TunnelMoves \/ UNCHANGED vars
                \/ \E a \in Tasks : CancelCaller(a) \/ Terminate(a)
       PROVE  Counted'
  BY <1>3, <1>10 DEF CoreMoves, TunnelMoves, CancelCaller, Terminate, vars, taskVars, sessionVars, historyVars
<1> QED
  BY <1>4, <1>5, <1>6, <1>7, <1>8, <1>9, <1>10 DEF Next, TaskNext

-----------------------------------------------------------------------------
(* The theorems. *)

LEMMA OwnerInit == Init => OwnerInv
<1> SUFFICES ASSUME Init PROVE OwnerInv
  OBVIOUS
<1> USE OwnerAssumption DEF Init, Tasks
<1>1. core \in Cores /\ rec \in Recs
  BY DEF Cores, Recs, Intents
<1>2. TypeOK
  <2>1. 0 \in Intents /\ 0 \in 0..MaxIntent
    BY DEF Intents
  <2>2. place = [a \in Tasks |-> "idle"] /\ intentOf = [a \in Tasks |-> 0] /\ waits = [a \in Tasks |-> {}]
    OBVIOUS
  <2> HIDE DEF Tasks
  <2> QED BY <1>1, <2>1, <2>2 DEF TypeOK
<1>3. Scoped /\ Suspended
  BY DEF Scoped, InCore, Suspended, Active
<1>4. Counted
  BY DEF Counted, Requests
<1> QED BY <1>2, <1>3, <1>4 DEF OwnerInv

LEMMA OwnerStep == OwnerInv /\ [Next]_vars => OwnerInv'
BY TypeStep, ScopedStep, CountedStep, SuspendedStep DEF OwnerInv

LEMMA OwnerInvariant == Spec => []OwnerInv
BY OwnerInit, OwnerStep, PTL DEF Spec

\* Every state of the connection owner is well typed (adapters.py, reconnector.py),
\* for all sets of targets and cleanups and every bound on their number.
THEOREM ConnectionTypes == Spec => []TypeOK
<1>1. OwnerInv => TypeOK
  BY DEF OwnerInv
<1> QED BY <1>1, OwnerInvariant, PTL

\* One task at a time is between its entry into _connection_scope and the end of
\* its call to Core (_attempt_connection, _disconnect_until_stable).
THEOREM OneTaskInCore == Spec => []OneConnectionOwner
<1>1. OwnerInv => OneConnectionOwner
  BY DEF OwnerInv, Scoped, OneConnectionOwner
<1> QED BY <1>1, OwnerInvariant, PTL

\* The retry task enters Core only while it is enabled, signed in, and nobody has
\* suspended it (AsyncReconnector.suspended).
THEOREM RetryAlwaysYields == Spec => RetryYields
<1> DEFINE Step == place[Retry] = "scope" /\ place'[Retry] = "up" =>
                     rec.enabled /\ rec.suspenders = {} /\ loggedIn
<1>1. ASSUME OwnerInv, [Next]_vars PROVE [Step]_vars
  <2> SUFFICES ASSUME Next, place[Retry] = "scope", place'[Retry] = "up"
               PROVE  rec.enabled /\ rec.suspenders = {} /\ loggedIn
    BY <1>1
  <2> USE OwnerAssumption DEF Tasks
  <2>1. place \in [Tasks -> {"idle", "join", "retire", "prepare", "wait", "scope", "up",
                            "accepted", "down", "await", "apply", "auth"}]
    BY <1>1 DEF OwnerInv, TypeOK
  <2>2. \A a \in Tasks : \A p : GoTo(a, p) => a = Retry /\ p = "up"
    BY <2>1 DEF GoTo
  <2>3. \A a \in Tasks : \A r : ~EndWith(a, r)
    BY <2>1 DEF EndWith, GoTo
  <2>4. TakeScope(Retry)
    <3>1. \A a \in Tasks : TaskNext(a) => TakeScope(a) /\ a = Retry
      BY <2>1, <2>2, <2>3
      DEF TaskNext, Begin, CancelCaller, JoinRetry, JoinTargets, TakeScope, WithdrawScope, Up, UpReturns,
        UpFails, DownReturns, StateChanged, Apply, TakeAuth, WithdrawAuth, Terminate, End, EnterDown,
        taskVars
    <3>2. ~(\E t \in Targets : Prepare(t)) /\ ~RetryStarts /\ ~RetryWakes /\ ~CoreMoves /\ ~TunnelMoves
      BY <2>1, <2>2, <2>3 DEF Prepare, RetryStarts, RetryWakes, CoreMoves, TunnelMoves, End, taskVars
    <3> QED BY <3>1, <3>2 DEF Next
  <2>5. ~rec.cancelled /\ Retry \notin expiring /\ loggedIn
    BY <2>1, <2>2, <2>3, <2>4
    DEF TakeScope, ScopeFree, Cancelled, Superseder, StillCurrent, End, EnterDown
  <2> QED BY <1>1, <2>5 DEF OwnerInv, Suspended
<1> QED BY <1>1, OwnerInvariant, PTL DEF Spec, RetryYields

-----------------------------------------------------------------------------
(* What is connected when nobody is in Core. *)

\* Attempts and intents are numbered in the order in which they are made.
Numbered ==
    /\ core.state = "Disconnected" <=> core.of = 0
    /\ core.state \in {"Disconnected", "Disconnecting"} => core.cause = "none"
    /\ core.of <= intent /\ core.next <= intent /\ released <= intent
    /\ \A n \in superseded : 0 < n /\ n < intent
    /\ \A a \in Requests : place[a] \notin {"idle", "wait"} => intentOf[a] > 0

\* An attempt that was superseded in Core has an owner who takes it down.
Compensated ==
    core.of \in superseded \/ core.next \in superseded =>
        /\ scope # NoOne /\ place[scope] \in {"accepted", "down", "await"}
        /\ place[scope] = "accepted" => intentOf[scope] \in superseded

\* No request shares its intent with a Disconnect.
Distinct ==
    \A a \in Requests : place[a] \notin {"idle", "wait"} =>
        /\ intentOf[a] # released
        /\ \A c \in Cleanups : Active(c) /\ Kind[c] = "disconnect" => intentOf[a] # intentOf[c]

\* Who asks Core to connect is newer than any Disconnect that has returned, and
\* a Disconnect that is about to return has seen the end of all attempts.
Final ==
    /\ DisconnectIsFinal
    /\ \A a \in Requests : place[a] \in {"up", "accepted"} => intentOf[a] > released
    /\ \A c \in Cleanups : place[c] = "apply" /\ Kind[c] = "disconnect" => core = Stopped

SafeInv == OwnerInv /\ Numbered /\ Compensated /\ Distinct /\ Final

Places == {"idle", "join", "retire", "prepare", "wait", "scope", "up",
           "accepted", "down", "await", "apply", "auth"}

LEMMA SafeTypes ==
    SafeInv => /\ place \in [Tasks -> Places] /\ intentOf \in [Tasks -> Nat]
               /\ core \in Cores /\ core.of \in Nat /\ core.next \in Nat
               /\ intent \in Nat /\ released \in Nat /\ superseded \subseteq Nat
               /\ scope \in Tasks \cup {NoOne}
BY OwnerAssumption DEF SafeInv, OwnerInv, TypeOK, Places, Cores, Intents

\* How Core's connector may look after any step.
LEMMA CoreSteps ==
    ASSUME SafeInv, [Next]_vars
    PROVE \/ UNCHANGED core
          \/ \E a \in Tasks : Up(a)
          \/ core' = Stopped
          \/ core' = Stopping /\ core.state # "Disconnected"
          \/ CoreMoves
          \/ core'.of = core.of /\ core'.next = core.next
             /\ core.state \in {"Connecting", "Connected", "Error"}
             /\ core'.state \in {"Connected", "Error"}
<1> USE SafeTypes
<1>1. ASSUME NEW a \in Tasks, DownReturns(a), core # Stopped, core' = Stopping
      PROVE  core.state # "Disconnected"
  BY <1>1 DEF DownReturns, EventFree, SafeInv, Numbered, Cores, Stopped
<1>2. ASSUME TunnelMoves
      PROVE  \/ core' = Stopped
             \/ core'.of = core.of /\ core'.next = core.next
                /\ core.state \in {"Connecting", "Connected", "Error"}
                /\ core'.state \in {"Connected", "Error"}
  BY <1>2 DEF TunnelMoves, Report, Cores
<1>3. ASSUME NEW a \in Tasks, TaskNext(a), ~Up(a)
      PROVE  \/ UNCHANGED core \/ core' = Stopped
             \/ core' = Stopping /\ core.state # "Disconnected"
  BY <1>1, <1>3
  DEF TaskNext, Begin, CancelCaller, JoinRetry, JoinTargets, TakeScope, WithdrawScope, UpReturns,
    UpFails, DownReturns, Report, StateChanged, Apply, TakeAuth, WithdrawAuth, Terminate, coreVars
<1> QED
  BY <1>2, <1>3 DEF Next, Prepare, RetryStarts, RetryWakes, CoreMoves, vars, coreVars

LEMMA Attempters ==
    ASSUME SafeInv, NEW a \in Tasks, place[a] \in {"up", "accepted"}
    PROVE  a \in Requests /\ intentOf[a] > 0 /\ intentOf[a] <= intent /\ scope = a
BY DEF SafeInv, OwnerInv, Scoped, InCore, Counted, Numbered, Requests, Tasks

LEMMA IntentSteps ==
    ASSUME SafeInv, [Next]_vars
    PROVE  /\ intent' \in {intent, intent + 1}
           /\ released' = released \/ (\E c \in Cleanups : /\ place[c] = "apply" /\ Kind[c] = "disconnect"
                                                        /\ released' = intentOf[c] /\ Apply(c))
           /\ \/ superseded' = superseded
              \/ intent' = intent + 1 /\ superseded' = superseded \cup InFlight
              \/ \E a \in Tasks : Up(a) /\ superseded' = superseded \cup {intentOf[a]} /\ intentOf[a] # intent
<1> USE SafeTypes
<1>1. ASSUME NEW a \in Tasks, Begin(a) \/ TakeAuth(a)
      PROVE  /\ UNCHANGED released
             /\ \/ intent' = intent + 1 /\ superseded' = superseded \cup InFlight
                \/ UNCHANGED <<intent, superseded>>
  BY <1>1 DEF Begin, TakeAuth, NewIntent, sessionVars
<1>2. ASSUME NEW a \in Tasks, Up(a)
      PROVE  /\ UNCHANGED <<released, intent>>
             /\ \/ superseded' = superseded
                \/ superseded' = superseded \cup {intentOf[a]} /\ intentOf[a] # intent
  BY <1>2 DEF Up, sessionVars
<1>3. ASSUME NEW a \in Tasks, Apply(a)
      PROVE  /\ UNCHANGED <<superseded, intent>>
             /\ \/ UNCHANGED released
                \/ /\ a \in Cleanups /\ place[a] = "apply" /\ Kind[a] = "disconnect"
                   /\ released' = intentOf[a]
  BY <1>3 DEF Apply, At
<1>4. ASSUME NEW a \in Tasks, TaskNext(a), ~Begin(a), ~TakeAuth(a), ~Up(a), ~Apply(a)
      PROVE  UNCHANGED <<intent, released, superseded>>
  BY <1>4
  DEF TaskNext, CancelCaller, JoinRetry, JoinTargets, TakeScope, WithdrawScope, UpReturns, UpFails,
    DownReturns, StateChanged, WithdrawAuth, Terminate, sessionVars, historyVars
<1>5. ASSUME UNCHANGED vars \/ RetryStarts \/ RetryWakes \/ CoreMoves \/ TunnelMoves
               \/ \E t \in Targets : Prepare(t)
      PROVE  UNCHANGED <<intent, released, superseded>>
  BY <1>5 DEF vars, RetryStarts, RetryWakes, CoreMoves, TunnelMoves, Prepare, sessionVars, historyVars
<1> QED
  <2>1. CASE \E a \in Tasks : TaskNext(a)
    BY <1>1, <1>2, <1>3, <1>4, <2>1
  <2>2. CASE ~\E a \in Tasks : TaskNext(a)
    BY <1>5, <2>2 DEF Next
  <2> QED BY <2>1, <2>2

\* How a task comes to the place and the intent it has after a step.
LEMMA Moves ==
    ASSUME SafeInv, [Next]_vars, NEW b \in Tasks, place'[b] \notin {"idle", "wait"}
    PROVE  \/ place[b] \notin {"idle", "wait"} /\ intentOf'[b] = intentOf[b]
           \/ /\ Begin(b) /\ intentOf'[b] = intent' /\ place'[b] = "join"
              /\ b \in Targets \/ Kind[b] = "disconnect" => intent' = intent + 1
           \/ b = Retry /\ RetryCurrent(rec) /\ UNCHANGED <<core, intent, released>>
              /\ intentOf'[b] = intent /\ place'[b] = "scope"
<1> USE SafeTypes, OwnerAssumption DEF Tasks
<1>1. ASSUME NEW a \in Tasks, Begin(a)
      PROVE  IF a = b THEN /\ intentOf'[b] = intent' /\ place'[b] = "join"
                           /\ b \in Targets \/ Kind[b] = "disconnect" => intent' = intent + 1
             ELSE place'[b] = place[b] /\ intentOf'[b] = intentOf[b]
  BY <1>1 DEF Begin, GoTo, NewIntent
<1>2. ASSUME NEW a \in Tasks, NEW r, EndWith(a, r)
      PROVE  place[b] = place'[b] /\ intentOf'[b] = intentOf[b]
  BY <1>2 DEF EndWith, GoTo
<1>3. ASSUME NEW a \in Tasks, NEW p, GoTo(a, p), place[a] \notin {"idle", "wait"}, intentOf' = intentOf
      PROVE  place[b] \notin {"idle", "wait"} /\ intentOf'[b] = intentOf[b]
  BY <1>3 DEF GoTo
<1>4. ASSUME NEW a \in Tasks, TaskNext(a), ~Begin(a)
      PROVE  \/ \E r : EndWith(a, r)
             \/ place[a] \notin {"idle", "wait"} /\ intentOf' = intentOf /\ \E p : GoTo(a, p)
             \/ UNCHANGED <<place, intentOf>>
  BY <1>4
  DEF TaskNext, CancelCaller, JoinRetry, JoinTargets, TakeScope, WithdrawScope, Up, UpReturns, UpFails,
    DownReturns, StateChanged, Apply, TakeAuth, WithdrawAuth, Terminate, At, End, EnterDown, taskVars
<1>5. ASSUME NEW t \in Targets, Prepare(t)
      PROVE  place[b] \notin {"idle", "wait"} /\ intentOf'[b] = intentOf[b]
  BY <1>2, <1>3, <1>5 DEF Prepare, At, End
<1>6. CASE RetryStarts \/ RetryWakes
  BY <1>6 DEF RetryStarts, RetryWakes, GoTo, coreVars, sessionVars, historyVars
<1>7. ASSUME CoreMoves \/ TunnelMoves \/ UNCHANGED vars
      PROVE  UNCHANGED <<place, intentOf>>
  BY <1>7 DEF CoreMoves, TunnelMoves, vars, taskVars
<1> QED
  <2>1. ASSUME NEW a \in Tasks, TaskNext(a), ~Begin(a)
        PROVE  place[b] \notin {"idle", "wait"} /\ intentOf'[b] = intentOf[b]
    BY <1>2, <1>3, <1>4, <2>1
  <2> QED BY <1>1, <1>5, <1>6, <1>7, <2>1 DEF Next

LEMMA NumberedStep == SafeInv /\ [Next]_vars => Numbered'
<1> SUFFICES ASSUME SafeInv, [Next]_vars
             PROVE  Numbered'
  OBVIOUS
<1> USE SafeTypes
<1>0. Numbered
  BY DEF SafeInv
<1>1. intent' \in Nat /\ intent' >= intent
  BY IntentSteps
<1>2. /\ core'.state = "Disconnected" <=> core'.of = 0
      /\ core'.state \in {"Disconnected", "Disconnecting"} => core'.cause = "none"
      /\ core'.of <= intent /\ core'.next <= intent
  <2>1. ASSUME NEW a \in Tasks, Up(a)
        PROVE  /\ core'.state = "Disconnected" <=> core'.of = 0
               /\ core'.state \in {"Disconnected", "Disconnecting"} => core'.cause = "none"
               /\ core'.of <= intent /\ core'.next <= intent
    <3>1. intentOf[a] \in Nat /\ intentOf[a] > 0 /\ intentOf[a] <= intent
      BY <2>1, Attempters DEF Up, At
    <3> QED BY <1>0, <2>1, <3>1 DEF Numbered, Up, Report, Cores
  <2>2. CASE CoreMoves
    <3>1. CASE core.state = "Disconnecting"
      <4>1. core' = [core EXCEPT !.state = "Disconnected", !.of = 0]
        BY <2>2, <3>1 DEF CoreMoves, Report
      <4> QED BY <1>0, <3>1, <4>1 DEF Numbered, Cores
    <3>2. CASE core.state = "Disconnected"
      <4>1. core' = [core EXCEPT !.state = "Connecting", !.of = core.next, !.next = 0] /\ core.next # 0
        BY <2>2, <3>2 DEF CoreMoves, Report
      <4> QED BY <1>0, <3>2, <4>1 DEF Numbered, Cores
    <3> QED BY <2>2, <3>1, <3>2 DEF CoreMoves
  <2> QED BY <1>0, <2>1, <2>2, CoreSteps DEF Numbered, Stopped, Stopping
<1>3. released' <= intent'
  <2>1. \A c \in Cleanups : intentOf[c] <= intent
    BY DEF SafeInv, OwnerInv, Counted, Tasks
  <2>2. \A c \in Cleanups : intentOf[c] \in Nat
    BY DEF Tasks
  <2> QED BY <1>0, <1>1, <2>1, <2>2, IntentSteps DEF Numbered
<1>4. \A n \in superseded' : 0 < n /\ n < intent'
  <2>1. \A n \in InFlight : 0 < n /\ n <= intent /\ n \in Nat
    BY Attempters DEF InFlight
  <2>2. ASSUME NEW a \in Tasks, Up(a), intentOf[a] # intent PROVE 0 < intentOf[a] /\ intentOf[a] < intent
    BY <2>2, Attempters DEF Up, At
  <2> QED BY <1>0, <1>1, <2>1, <2>2, IntentSteps DEF Numbered
<1>5. ASSUME NEW a \in Requests, place'[a] \notin {"idle", "wait"} PROVE intentOf'[a] > 0
  <2>1. a \in Tasks
    BY DEF Requests, Tasks
  <2>2. RetryCurrent(rec) => intent > 0
    BY <1>0 DEF RetryCurrent, Numbered
  <2>3. CASE a \in Targets
    BY <1>0, <1>5, <2>1, <2>2, <2>3, Moves DEF Numbered
  <2>4. CASE a = Retry
    BY <1>0, <1>5, <2>1, <2>2, <2>4, Moves DEF Numbered, Begin
  <2> QED BY <2>3, <2>4 DEF Requests
<1>6. core'.of \in Nat /\ core'.next \in Nat
  BY OwnerStep, OwnerAssumption DEF SafeInv, OwnerInv, TypeOK, Cores, Intents
<1>7. core'.of <= intent' /\ core'.next <= intent'
  BY <1>1, <1>2, <1>6
<1> QED BY <1>2, <1>3, <1>4, <1>5, <1>7 DEF Numbered

LEMMA DistinctStep == SafeInv /\ [Next]_vars => Distinct'
<1> SUFFICES ASSUME SafeInv, [Next]_vars,
                    NEW a \in Requests, place'[a] \notin {"idle", "wait"}
             PROVE  /\ intentOf'[a] # released'
                    /\ \A c \in Cleanups : Active(c)' /\ Kind[c] = "disconnect" => intentOf'[a] # intentOf'[c]
  BY DEF Distinct
<1> USE SafeTypes, OwnerAssumption DEF Tasks, Requests
<1>0. /\ Distinct /\ released <= intent
      /\ \A b \in Tasks : intentOf[b] <= intent /\ intentOf[b] \in Nat
  BY DEF SafeInv, Numbered, OwnerInv, Counted
\* Where the intent of the request comes from.
<1>1. \/ place[a] \notin {"idle", "wait"} /\ intentOf'[a] = intentOf[a]
      \/ a \in Targets /\ Begin(a) /\ intentOf'[a] = intent + 1 /\ intent' = intent + 1
      \/ a = Retry /\ RetryCurrent(rec) /\ intentOf'[a] = intent /\ UNCHANGED <<core, intent, released>>
  BY Moves DEF Begin
\* A retry needs a connection that came after the last Disconnect, and no
\* Disconnect beside it.
<1>2. RetryCurrent(rec) => intent > released
  BY DEF RetryCurrent, SafeInv, Numbered, Final, DisconnectIsFinal
<1>3. RetryCurrent(rec) => \A c \in Cleanups : ~Active(c)
  BY DEF RetryCurrent, SafeInv, OwnerInv, Suspended
<1>4. intentOf'[a] # released'
  <2>1. CASE UNCHANGED released
    BY <1>0, <1>1, <1>2, <2>1 DEF Distinct
  <2>2. ASSUME NEW c \in Cleanups, place[c] = "apply", Kind[c] = "disconnect", released' = intentOf[c], Apply(c)
        PROVE  intentOf'[a] # released'
    <3>1. ~Begin(a)
      BY <2>2 DEF Apply, Begin, EndWith, End, GoTo, At, Active
    <3> QED BY <1>0, <1>1, <1>3, <2>2, <3>1 DEF Distinct, Active
  <2> QED BY <2>1, <2>2, IntentSteps
<1>5. ASSUME NEW c \in Cleanups, Active(c)', Kind[c] = "disconnect" PROVE intentOf'[a] # intentOf'[c]
  <2>1. place'[c] \notin {"idle", "wait"}
    <3>1. Scoped'
      BY ScopedStep DEF SafeInv
    <3> QED BY <1>5, <3>1 DEF Active, Scoped
  <2>2. \/ Active(c) /\ intentOf'[c] = intentOf[c]
        \/ Begin(c) /\ intentOf'[c] = intent + 1 /\ intent' = intent + 1
    BY <1>5, <2>1, Moves DEF Active
  <2>3. a # c
    OBVIOUS
  <2>4. ASSUME Begin(c) PROVE ~Begin(a)
    BY <2>3, <2>4 DEF Begin, GoTo, Active
  <2> QED BY <1>0, <1>1, <1>3, <1>5, <2>2, <2>4 DEF Distinct
<1> QED BY <1>4, <1>5

\* How a task comes to be in Core.
LEMMA Entries ==
    ASSUME SafeInv, [Next]_vars, NEW b \in Tasks
    PROVE  /\ place'[b] \in {"up", "accepted"} =>
                \/ place[b] \in {"up", "accepted"}
                \/ place[b] = "scope" /\ intentOf[b] = intent
           /\ place'[b] = "apply" =>
                \/ place[b] = "apply"
                \/ core' = Stopped
                \/ b \in Cleanups => Kind[b] # "disconnect"
<1> USE SafeTypes, OwnerAssumption DEF Tasks
<1>a. SafeInv /\ \A e \in expiring : e \in Requests
  BY DEF SafeInv, OwnerInv, Scoped
<1>1. ASSUME NEW a \in Tasks, NEW r, EndWith(a, r) PROVE place'[b] \in {place[b], "idle"}
  BY <1>1 DEF EndWith, GoTo
<1>2. ASSUME NEW a \in Tasks, NEW p, GoTo(a, p) PROVE place'[b] = IF a = b THEN p ELSE place[b]
  BY <1>2 DEF GoTo
<1>3. ASSUME NEW a \in Tasks, TaskNext(a), ~TakeScope(a), ~DownReturns(a)
      PROVE  \/ \E r : EndWith(a, r)
             \/ \E p : GoTo(a, p) /\ p \notin {"up", "accepted", "apply"}
             \/ GoTo(a, "accepted") /\ place[a] = "up"
             \/ UNCHANGED place
  BY <1>3
  DEF TaskNext, Begin, CancelCaller, JoinRetry, JoinTargets, WithdrawScope, Up, UpReturns, UpFails,
    StateChanged, Apply, TakeAuth, WithdrawAuth, Terminate, At, End, EnterDown, taskVars
<1>4. ASSUME NEW a \in Tasks, TakeScope(a)
      PROVE  \/ \E r : EndWith(a, r)
             \/ GoTo(a, "up") /\ place[a] = "scope" /\ intentOf[a] = intent
             \/ GoTo(a, "apply") /\ (a \in Cleanups => Kind[a] # "disconnect")
             \/ GoTo(a, "down")
  BY <1>a, <1>4 DEF TakeScope, Superseder, MayLeaveAlone, StillCurrent, End, EnterDown, At, Requests
<1>5. ASSUME NEW a \in Tasks, DownReturns(a)
      PROVE  (GoTo(a, "apply") /\ core' = Stopped) \/ GoTo(a, "await")
  BY <1>5 DEF DownReturns, BarrierCrossed, Report, Stopping, Stopped, coreVars
<1>6. ASSUME NEW t \in Targets, Prepare(t) PROVE (\E r : EndWith(t, r)) \/ GoTo(t, "scope") \/ GoTo(t, "auth")
  BY <1>6 DEF Prepare, End
<1>7. ASSUME RetryStarts \/ RetryWakes \/ CoreMoves \/ TunnelMoves \/ UNCHANGED vars
      PROVE  UNCHANGED place \/ \E p \in {"wait", "scope", "idle"} : GoTo(Retry, p)
  BY <1>7 DEF RetryStarts, RetryWakes, CoreMoves, TunnelMoves, vars, taskVars
<1> QED
  <2>1. CASE \E a \in Tasks : TaskNext(a)
    BY <1>1, <1>2, <1>3, <1>4, <1>5, <2>1
  <2>2. CASE \E t \in Targets : Prepare(t)
    BY <1>1, <1>2, <1>6, <2>2
  <2>3. CASE RetryStarts \/ RetryWakes \/ CoreMoves \/ TunnelMoves \/ UNCHANGED vars
    BY <1>2, <1>7, <2>3
  <2> QED BY <2>1, <2>2, <2>3 DEF Next

LEMMA FinalStep == SafeInv /\ [Next]_vars => Final'
<1> SUFFICES ASSUME SafeInv, [Next]_vars
             PROVE  Final'
  OBVIOUS
<1> USE SafeTypes, OwnerAssumption DEF Tasks, Requests
<1>0. /\ Final /\ Distinct /\ released <= intent
      /\ \A b \in Tasks : intentOf[b] <= intent /\ intentOf[b] \in Nat
      /\ \A b \in Tasks : InCore(b) => scope = b
  BY DEF SafeInv, Numbered, OwnerInv, Counted, Scoped
\* While a Disconnect applies, nobody else is in Core and nothing is there.
<1>1. ASSUME NEW c \in Cleanups, place[c] = "apply", Kind[c] = "disconnect"
      PROVE  /\ core = Stopped
             /\ \A b \in Tasks : place[b] \notin {"up", "accepted"}
             /\ ~\E b \in Tasks : Up(b)
             /\ core' = Stopped
  <2>1. core = Stopped
    BY <1>0, <1>1 DEF Final
  <2>2. \A b \in Tasks : place[b] \notin {"up", "accepted"}
    BY <1>0, <1>1 DEF InCore
  <2>3. ~\E b \in Tasks : Up(b)
    BY <2>2 DEF Up, At
  <2>4. ~CoreMoves
    BY <2>1 DEF CoreMoves, Stopped
  <2> QED BY <2>1, <2>2, <2>3, <2>4, CoreSteps DEF Stopped
\* A Disconnect that returns finds nothing left.
<1>2. CASE UNCHANGED released
  <2>1. ASSUME NEW a \in Tasks, Up(a) PROVE DisconnectIsFinal'
    <3>1. intentOf[a] > released
      BY <1>0, <2>1, Attempters DEF Final, Up, At
    <3> QED BY <1>0, <1>2, <2>1, <3>1 DEF Final, DisconnectIsFinal, Up, Report, Cores
  <2>2. ASSUME CoreMoves PROVE DisconnectIsFinal'
    <3>1. \/ core'.of = 0 /\ core'.next = core.next
          \/ core'.of = core.next /\ core'.next = 0
      BY <2>2 DEF CoreMoves, Report, Cores
    <3> QED BY <1>0, <1>2, <3>1 DEF Final, DisconnectIsFinal
  <2>3. DisconnectIsFinal'
    BY <1>0, <1>2, <2>1, <2>2, CoreSteps DEF Final, DisconnectIsFinal, Stopped, Stopping
  <2>4. ASSUME NEW a \in Requests, place'[a] \in {"up", "accepted"} PROVE intentOf'[a] > released'
    <3>1. intentOf'[a] = intentOf[a]
      BY <2>4, Moves
    <3>2. CASE place[a] \in {"up", "accepted"}
      BY <1>0, <1>2, <3>1, <3>2 DEF Final
    <3>3. CASE place[a] = "scope" /\ intentOf[a] = intent
      BY <1>0, <1>2, <3>1, <3>3 DEF Distinct
    <3> QED BY <2>4, <3>2, <3>3, Entries
  <2>5. ASSUME NEW c \in Cleanups, place'[c] = "apply", Kind[c] = "disconnect" PROVE core' = Stopped
    BY <1>1, <2>5, Entries
  <2> QED BY <2>3, <2>4, <2>5 DEF Final
<1>3. ASSUME NEW c \in Cleanups, place[c] = "apply", Kind[c] = "disconnect", Apply(c) PROVE Final'
  <2>1. core' = Stopped
    BY <1>1, <1>3
  <2>2. \A a \in Requests : place'[a] \notin {"up", "accepted"}
    BY <1>1, <1>3 DEF Apply, End, EndWith, GoTo
  <2> QED BY <2>1, <2>2 DEF Final, DisconnectIsFinal, Stopped
<1> QED BY <1>2, <1>3, IntentSteps

LEMMA CompensatedStep == SafeInv /\ [Next]_vars => Compensated'
<1> SUFFICES ASSUME SafeInv, [Next]_vars
             PROVE  Compensated'
  OBVIOUS
<1> USE SafeTypes, OwnerAssumption DEF Tasks
<1> DEFINE Tainted == core.of \in superseded \/ core.next \in superseded
           Owned == /\ scope # NoOne /\ place[scope] \in {"accepted", "down", "await"}
                    /\ place[scope] = "accepted" => intentOf[scope] \in superseded
<1>0. /\ Tainted => Owned
      /\ \A b \in Tasks : InCore(b) => scope = b
      /\ \A n \in superseded : 0 < n /\ n < intent
      /\ core.state = "Disconnected" <=> core.of = 0
  BY DEF SafeInv, Compensated, Numbered, OwnerInv, Scoped
\* An attempt that enters Core does so under an owner of its own.
<1>1. ASSUME NEW a \in Tasks, Up(a) PROVE Compensated'
  <2>1. place[a] = "up" /\ scope = a /\ intentOf[a] > 0 /\ intentOf[a] <= intent
    BY <1>1, Attempters DEF Up, At
  <2>2. ~Tainted
    BY <1>0, <2>1
  <2>3. core'.of \in {core.of, intentOf[a]} /\ core'.next \in {core.next, intentOf[a]}
    BY <1>1 DEF Up, Report, Cores
  <2>4. scope' = a /\ place'[a] = "accepted" /\ intentOf'[a] = intentOf[a]
    BY <1>1, <2>1 DEF Up, GoTo
  <2>5. superseded' \in {superseded, superseded \cup {intentOf[a]}}
    BY <1>1 DEF Up
  <2> QED BY <2>2, <2>3, <2>4, <2>5 DEF Compensated
\* Nothing else gives Core an attempt, and 0 is none.
<1>2. ASSUME ~\E a \in Tasks : Up(a)
      PROVE  /\ core'.of \in {core.of, core.next, 0} /\ core'.next \in {core.next, 0}
             /\ superseded' \in {superseded, superseded \cup InFlight}
             /\ 0 \notin superseded'
  <2>1. superseded' \in {superseded, superseded \cup InFlight}
    BY <1>2, IntentSteps
  <2>2. 0 \notin InFlight
    BY Attempters DEF InFlight
  <2>3. core'.of \in {core.of, core.next, 0} /\ core'.next \in {core.next, 0}
    <3>1. CASE CoreMoves
      BY <3>1 DEF CoreMoves, Report, Cores
    <3> QED BY <1>2, <3>1, CoreSteps DEF Stopped, Stopping
  <2> QED BY <1>0, <2>1, <2>2, <2>3
\* A new intent spoils what is in flight, whose owner is still there.
<1>3. ASSUME NEW a \in Tasks, NewIntent, ~Active(a) \/ place[a] = "auth", GoTo(a, "join"), UNCHANGED scope,
             \A b \in Tasks \ {a} : intentOf'[b] = intentOf[b], UNCHANGED core
      PROVE  Compensated'
  <2>1. superseded' = superseded \cup InFlight
    BY <1>3 DEF NewIntent
  <2>2. CASE Tainted
    BY <1>0, <1>3, <2>1, <2>2 DEF Compensated, GoTo, Active
  <2>3. ASSUME NEW t \in Tasks, place[t] = "accepted" PROVE Compensated'
    <3>1. scope = t /\ t # a
      BY <1>0, <1>3, <2>3 DEF InCore, Active
    <3>2. intentOf[t] \in superseded'
      BY <2>1, <2>3 DEF InFlight
    <3> QED BY <1>3, <2>3, <3>1, <3>2 DEF Compensated, GoTo
  <2>4. CASE ~Tainted /\ ~\E t \in Tasks : place[t] = "accepted"
    <3>1. superseded' = superseded
      BY <2>1, <2>4 DEF InFlight
    <3> QED BY <1>3, <2>4, <3>1 DEF Compensated
  <2> QED BY <2>2, <2>3, <2>4
\* Without a new intent, the owner of a superseded attempt leaves when it has
\* found Core stopped.
<1>4. ASSUME UNCHANGED superseded, ~\E a \in Tasks : Up(a),
             core' = Stopped \/ (Owned => Owned')
      PROVE  Compensated'
  <2>1. core' = Stopped => core'.of \notin superseded' /\ core'.next \notin superseded'
    BY <1>2, <1>4 DEF Stopped
  <2>2. core'.of \in superseded' \/ core'.next \in superseded' => Tainted
    BY <1>2, <1>4
  <2> QED BY <1>0, <1>4, <2>1, <2>2 DEF Compensated
<1>5. ASSUME NEW a \in Tasks, NEW r, EndWith(a, r), UNCHANGED superseded, a # scope, Owned
      PROVE  Owned'
  BY <1>5 DEF EndWith, GoTo
<1>6. ASSUME NEW a \in Tasks, NEW p, GoTo(a, p), UNCHANGED <<superseded, intentOf, scope>>,
             place[a] \notin {"accepted", "down", "await"} \/ p \in {"down", "await"},
             Owned
      PROVE  Owned'
  BY <1>6 DEF GoTo
<1>7. ASSUME UNCHANGED <<place, superseded, intentOf, scope>>, Owned
      PROVE  Owned'
  BY <1>7
<1>8. ASSUME NEW a \in Tasks, Begin(a) PROVE Compensated'
  <2>1. CASE NewIntent
    BY <1>3, <1>8, <2>1 DEF Begin, coreVars
  <2>2. CASE ~NewIntent
    <3>1. UNCHANGED <<superseded, core, scope>> /\ place[a] = "idle" /\ GoTo(a, "join")
          /\ \A b \in Tasks \ {a} : intentOf'[b] = intentOf[b]
      BY <1>8, <2>2 DEF Begin, coreVars, Active
    <3> QED BY <1>0, <3>1 DEF Compensated, GoTo
  <2> QED BY <2>1, <2>2
<1>9. ASSUME NEW a \in Tasks, TakeAuth(a) PROVE Compensated'
  <2>1. CASE Obsolete(a)
    <3>1. End(a) /\ UNCHANGED <<superseded, core>> /\ place[a] = "auth" /\ ~\E b \in Tasks : Up(b)
      BY <1>9, <2>1 DEF TakeAuth, Up, End, EndWith, GoTo, At, coreVars
    <3>2. Owned => Owned'
      <4>1. Owned => a # scope
        BY <3>1
      <4> QED BY <1>5, <3>1, <4>1 DEF End
    <3> QED BY <1>4, <3>1, <3>2
  <2>2. CASE ~Obsolete(a)
    BY <1>3, <1>9, <2>2 DEF TakeAuth, At, coreVars
  <2> QED BY <2>1, <2>2
<1>10. ASSUME NEW a \in Tasks, TaskNext(a), ~Begin(a), ~TakeAuth(a), Owned, ~Up(a)
       PROVE  core' = Stopped \/ Owned'
  <2>0. UNCHANGED superseded
    BY <1>10
    DEF TaskNext, CancelCaller, JoinRetry, JoinTargets, TakeScope, WithdrawScope, UpReturns, UpFails,
      DownReturns, StateChanged, Apply, WithdrawAuth, Terminate, historyVars
  <2>1. CASE JoinRetry(a) \/ JoinTargets(a) \/ WithdrawScope(a) \/ WithdrawAuth(a) \/ Apply(a)
    <3>1. /\ place[a] \in {"join", "retire", "scope", "auth", "apply"}
          /\ (\E r : EndWith(a, r)) \/ (\E p : GoTo(a, p) /\ UNCHANGED <<intentOf, scope>>)
      BY <2>1 DEF JoinRetry, JoinTargets, WithdrawScope, WithdrawAuth, Apply, At, End
    <3>2. ASSUME NEW r, EndWith(a, r) PROVE Owned'
      <4>1. a # scope
        BY <1>10, <3>1
      <4> QED BY <1>5, <1>10, <2>0, <3>2, <4>1
    <3>3. ASSUME NEW p, GoTo(a, p), UNCHANGED <<intentOf, scope>> PROVE Owned'
      BY <1>6, <1>10, <2>0, <3>1, <3>3
    <3> QED BY <3>1, <3>2, <3>3
  <2>2. CASE TakeScope(a)
    <3>1. scope # NoOne
      BY <1>10
    <3> QED BY <2>2, <3>1 DEF TakeScope, ScopeFree
  <2>3. CASE UpReturns(a)
    <3>1. CASE MayKeep(a)
      <4>1. a # scope
        BY <1>0, <1>10, <2>3, <3>1 DEF UpReturns, MayKeep, StillCurrent, At
      <4> QED BY <1>5, <1>10, <2>0, <2>3, <3>1, <4>1 DEF UpReturns, End
    <3>2. CASE ~MayKeep(a)
      BY <1>6, <1>10, <2>0, <2>3, <3>2 DEF UpReturns, EnterDown
    <3> QED BY <3>1, <3>2
  <2>4. CASE UpFails(a)
    <3>1. place[a] = "up" /\ scope = a
      BY <1>0, <2>4 DEF UpFails, At, InCore
    <3> QED BY <1>10, <3>1
  <2>5. CASE DownReturns(a)
    BY <1>6, <1>10, <2>0, <2>5 DEF DownReturns, BarrierCrossed, Stopping, Stopped, Report, coreVars
  <2>6. CASE StateChanged(a)
    BY <1>6, <1>10, <2>0, <2>6 DEF StateChanged, EnterDown
  <2>7. CASE CancelCaller(a) \/ Terminate(a)
    BY <1>7, <1>10, <2>0, <2>7 DEF CancelCaller, Terminate, taskVars
  <2> QED BY <1>10, <2>1, <2>2, <2>3, <2>4, <2>5, <2>6, <2>7 DEF TaskNext
<1>11. ASSUME NEW t \in Targets, Prepare(t), Owned PROVE Owned'
  <2>1. /\ place[t] = "prepare" /\ UNCHANGED superseded
        /\ (\E r : EndWith(t, r)) \/ (\E p : GoTo(t, p) /\ UNCHANGED <<intentOf, scope>>)
    BY <1>11 DEF Prepare, At, End, historyVars
  <2>2. ASSUME NEW r, EndWith(t, r) PROVE Owned'
    <3>1. t # scope
      BY <1>11, <2>1
    <3> QED BY <1>5, <1>11, <2>1, <2>2, <3>1
  <2>3. ASSUME NEW p, GoTo(t, p), UNCHANGED <<intentOf, scope>> PROVE Owned'
    BY <1>6, <1>11, <2>1, <2>3
  <2> QED BY <2>1, <2>2, <2>3
<1>12. ASSUME RetryStarts \/ RetryWakes, Owned PROVE Owned'
  <2>1. /\ place[Retry] \in {"idle", "wait"} /\ UNCHANGED <<superseded, scope>>
        /\ \E p : GoTo(Retry, p)
        /\ \A b \in Tasks \ {Retry} : intentOf'[b] = intentOf[b]
    BY <1>12 DEF RetryStarts, RetryWakes, At, SafeInv, OwnerInv, Suspended, Active, historyVars
  <2> QED BY <1>12, <2>1 DEF GoTo
<1>13. ASSUME CoreMoves \/ TunnelMoves \/ UNCHANGED vars, Owned PROVE Owned'
  BY <1>7, <1>13 DEF CoreMoves, TunnelMoves, vars, taskVars, historyVars
<1> QED
  <2>1. CASE \E a \in Tasks : Begin(a) \/ TakeAuth(a) \/ Up(a)
    BY <1>1, <1>8, <1>9, <2>1
  <2>2. CASE ~\E a \in Tasks : Begin(a) \/ TakeAuth(a) \/ Up(a)
    <3>1. UNCHANGED superseded
      BY <2>2
      DEF Next, TaskNext, CancelCaller, JoinRetry, JoinTargets, TakeScope, WithdrawScope, UpReturns,
        UpFails, DownReturns, StateChanged, Apply, WithdrawAuth, Terminate, Prepare, RetryStarts,
        RetryWakes, CoreMoves, TunnelMoves, vars, historyVars
    <3>2. core' = Stopped \/ (Owned => Owned')
      BY <1>10, <1>11, <1>12, <1>13, <2>2 DEF Next
    <3> QED BY <1>4, <2>2, <3>1, <3>2
  <2> QED BY <2>1, <2>2

-----------------------------------------------------------------------------
(* A dropped connection has a retry task. *)

\* The reconnector has a drop of the connection c to answer.
Watching(r, c) ==
    r.enabled /\ r.suspenders = {} /\ c.state = "Error" /\ c.cause = "drop"

\* It answers with a task, or with the one that runs and will ask again.
Answers(r, c) ==
    Watching(r, c) => r.slot # "empty" /\ (r.slot = "held" => r.pending)

\* A task that has not started is still wanted.
Wanted(r) == r.slot = "new" => r.current /\ ~r.cancelled

LEMMA StatusAnswers ==
    ASSUME NEW r \in Recs, NEW c, Wanted(r), r.slot = "new" => ~Attempting
    PROVE  Answers(StatusUpdate(r, c), c) /\ Wanted(StatusUpdate(r, c))
<1>1. Wanted(Reset(r, TRUE)) /\ Wanted(Reset(r, ~Attempting)) /\ Wanted(Schedule(r))
  BY DEF Wanted, Reset, Schedule, Recs
<1>2. Watching(r, c) => Answers(Schedule(r), c)
  BY DEF Watching, Answers, Schedule, Recs
<1>3. CASE ~r.enabled \/ r.suspenders # {}
  BY <1>3 DEF StatusUpdate, Answers, Watching
<1>4. CASE r.enabled /\ r.suspenders = {} /\ ~(c.state = "Error" /\ c.cause = "drop")
  BY <1>1, <1>4 DEF StatusUpdate, Answers, Watching
<1>5. CASE r.enabled /\ r.suspenders = {} /\ c.state = "Error" /\ c.cause = "drop"
  <2>1. StatusUpdate(r, c) = Schedule(r)
    BY <1>5 DEF StatusUpdate
  <2> QED BY <1>1, <1>2, <1>5, <2>1 DEF Watching
<1> QED BY <1>3, <1>4, <1>5

\* The retry task that ends leaves a new one where an Error asked for it.
LEMMA RetryOverAnswers ==
    ASSUME NEW r \in Recs, NEW c, Watching(r, c) => r.pending
    PROVE  Answers(RetryOver(r), c) /\ Wanted(RetryOver(r))
BY DEF Watching, Answers, Wanted, RetryOver, Schedule, Recs

\* The last suspension that ends looks at the connector again.
LEMMA ResumeAnswers ==
    ASSUME NEW r \in Recs, NEW a \in r.suspenders, Wanted(r), r.slot = "new" => ~Attempting
    PROVE  Answers(Resume(r, a), core) /\ Wanted(Resume(r, a))
<1> DEFINE q == [r EXCEPT !.suspenders = r.suspenders \ {a}]
<1>1. q \in Recs /\ Wanted(q) /\ (q.slot = "new" => ~Attempting)
  BY DEF Recs, Wanted
<1>2. Resume(r, a) = StatusUpdate(q, core)
  BY DEF Resume
<1> QED BY <1>1, <1>2, StatusAnswers

\* While the session lasts: requests suspend reconnection, the retry task in the
\* queue of the scope has the latest intent, and a drop that nobody is going to
\* look at again is answered by a task that is current and not cancelled.
Retried ==
    loggedIn =>
        /\ expiring = {}
        /\ \A t \in Targets : Active(t) => t \in rec.suspenders
        /\ Wanted(rec)
        /\ place[Retry] = "scope" /\ ~rec.cancelled => intentOf[Retry] = intent
        /\ Watching(rec, core) =>
             /\ rec.slot # "empty"
             /\ rec.slot = "held" /\ ~rec.pending =>
                  rec.current /\ ~rec.cancelled /\ place[Retry] \in {"wait", "scope", "up", "auth"}

\* A session that has expired does not come back.
LEMMA SessionSteps == [Next]_vars /\ loggedIn' => loggedIn
<1> SUFFICES ASSUME [Next]_vars, loggedIn' PROVE loggedIn
  OBVIOUS
<1>1. ASSUME NEW a \in Tasks, TaskNext(a) PROVE loggedIn
  BY <1>1 DEF TaskNext, Begin, CancelCaller, JoinRetry, JoinTargets, TakeScope, WithdrawScope, Up, UpReturns,
    UpFails, DownReturns, StateChanged, Apply, TakeAuth, WithdrawAuth, Terminate, sessionVars
<1> QED BY <1>1 DEF Next, Prepare, RetryStarts, RetryWakes, CoreMoves, TunnelMoves, vars, sessionVars

LEMMA RetriedStep == OwnerInv /\ Retried /\ [Next]_vars => Retried'
<1> SUFFICES ASSUME OwnerInv, Retried, [Next]_vars, loggedIn'
             PROVE  Retried'
  BY DEF Retried
<1> USE OwnerAssumption DEF Tasks
<1>0. /\ loggedIn /\ expiring = {} /\ Wanted(rec)
      /\ \A t \in Targets : Active(t) => t \in rec.suspenders
      /\ place[Retry] = "scope" /\ ~rec.cancelled => intentOf[Retry] = intent
      /\ Watching(rec, core) =>
             /\ rec.slot # "empty"
             /\ rec.slot = "held" /\ ~rec.pending =>
                  rec.current /\ ~rec.cancelled /\ place[Retry] \in {"wait", "scope", "up", "auth"}
  BY SessionSteps DEF Retried
<1>a. /\ rec \in Recs
      /\ place \in [Tasks -> {"idle", "join", "retire", "prepare", "wait", "scope", "up",
                              "accepted", "down", "await", "apply", "auth"}]
      /\ \A a \in Tasks : intentOf[a] \in Nat
      /\ expiredAt = 0
      /\ intentOf \in [Tasks -> Nat]
  BY <1>0 DEF OwnerInv, TypeOK, Counted, Intents
<1>b. /\ Active(Retry) <=> rec.slot = "held"
      /\ \A a \in Targets \cup Cleanups : Active(a) => a \in rec.suspenders
      /\ Active(Retry) => place[Retry] \notin {"join", "retire", "prepare"}
      /\ rec.slot = "new" => ~Attempting
  BY <1>0 DEF OwnerInv, Suspended, Scoped, Active, Attempting
<1>c. \A a \in Tasks : ~Obsolete(a)
  BY <1>a DEF Obsolete
\* A request ends.
<1>1. ASSUME NEW a \in Targets \cup Cleanups, NEW r \in Recs, EndWith(a, r), Active(a), Wanted(r),
             r.suspenders = rec.suspenders, r.slot = "held" <=> rec.slot = "held",
             rec.slot = "held" /\ rec.cancelled => r.cancelled,
             r.slot = "new" => rec.slot = "new",
             UNCHANGED <<core, intent>>
      PROVE  Retried'
  <2>1. a # Retry /\ a \in r.suspenders
    BY <1>1, <1>b
  <2>2. /\ Resume(r, a) \in Recs /\ Resume(r, a).suspenders = r.suspenders \ {a}
        /\ r.slot = "held" /\ r.cancelled => Resume(r, a).cancelled
    BY <1>1, ResumeFacts
  <2>3. Answers(Resume(r, a), core) /\ Wanted(Resume(r, a))
    BY <1>1, <1>b, <2>1, ResumeAnswers
  <2>4. rec' = Resume(r, a) /\ expiring' = {} /\ place'[Retry] = place[Retry] /\ intentOf'[Retry] = intentOf[Retry]
    BY <1>0, <1>1, <1>a, <2>1 DEF EndWith, GoTo
  <2>5. \A t \in Targets : Active(t)' => t \in rec'.suspenders
    BY <1>0, <1>1, <1>a, <2>2, <2>4 DEF EndWith, GoTo, Active
  <2>6. place'[Retry] = "scope" /\ ~rec'.cancelled => intentOf'[Retry] = intent'
    BY <1>0, <1>1, <1>b, <2>2, <2>4 DEF Active
  <2> QED BY <1>1, <2>3, <2>4, <2>5, <2>6 DEF Retried, Answers, Watching
\* The retry task ends.
<1>2. ASSUME NEW r \in Recs, EndWith(Retry, r), r.slot = "held", r.suspenders = rec.suspenders,
             Watching(r, core) => r.pending, UNCHANGED <<core, intent>>
      PROVE  Retried'
  <2>1. /\ Resume(r, Retry) \in Recs /\ Resume(r, Retry).suspenders = rec.suspenders \ {Retry}
        /\ Resume(r, Retry).slot = "held"
    BY <1>2, ResumeFacts
  <2>2. Watching(Resume(r, Retry), core) => Resume(r, Retry).pending
    <3>1. CASE Retry \in r.suspenders
      <4>1. Wanted(r)
        BY <1>2 DEF Wanted
      <4>2. Answers(Resume(r, Retry), core)
        BY <1>2, <3>1, <4>1, ResumeAnswers
      <4> QED BY <2>1, <4>2 DEF Answers
    <3>2. CASE Retry \notin r.suspenders
      BY <1>2, <3>2 DEF Resume
    <3> QED BY <3>1, <3>2
  <2>3. rec' = RetryOver(Resume(r, Retry)) /\ place'[Retry] = "idle" /\ expiring' = {}
    BY <1>0, <1>2, <1>a DEF EndWith, GoTo
  <2>4. Answers(rec', core) /\ Wanted(rec') /\ rec'.suspenders = rec.suspenders \ {Retry}
        /\ rec'.slot # "held"
    BY <2>1, <2>2, <2>3, RetryOverAnswers, RetryOverFacts
  <2>5. \A t \in Targets : Active(t)' => t \in rec'.suspenders
    BY <1>0, <1>2, <1>a, <2>4 DEF EndWith, GoTo, Active
  <2> QED BY <1>2, <2>3, <2>4, <2>5 DEF Retried, Answers, Watching
\* The reconnector and the connector stay as they are.
<1>3. ASSUME UNCHANGED <<rec, core, intent, intentOf, expiring>>,
             \/ place' = place
             \/ \E a \in Targets \cup Cleanups : \E p : Active(a) /\ GoTo(a, p)
             \/ \E p \in {"up", "auth"} : GoTo(Retry, p)
             \/ (Watching(rec, core) => rec.pending) /\ \E p : p # "scope" /\ GoTo(Retry, p)
      PROVE  Retried'
  <2>1. \A t \in Targets : Active(t)' => Active(t)
    BY <1>3, <1>a DEF GoTo, Active
  <2>2. \/ place'[Retry] = place[Retry] \/ place'[Retry] \in {"up", "auth"}
        \/ (Watching(rec, core) => rec.pending) /\ place'[Retry] # "scope"
    BY <1>3, <1>a DEF GoTo
  <2> QED BY <1>0, <1>3, <2>1, <2>2 DEF Retried, Watching, Wanted
\* The connector reports a change.
<1>4. ASSUME NEW c, Report(c), UNCHANGED <<intent, intentOf, expiring>>,
             place' = place \/ \E a \in Tasks : \E p : Active(a) /\ p # "scope" /\ GoTo(a, p)
      PROVE  Retried'
  <2>1. rec' = StatusUpdate(rec, core') /\ Calm(rec, rec') /\ Answers(rec', core') /\ Wanted(rec')
    BY <1>0, <1>4, <1>a, <1>b, StatusCalm, StatusAnswers DEF Report
  <2>2. \A t \in Targets : Active(t)' => Active(t)
    BY <1>4, <1>a DEF GoTo, Active
  <2>3. place'[Retry] = "scope" => place[Retry] = "scope"
    BY <1>4, <1>a DEF GoTo
  <2>4. place[Retry] = "scope" => rec.slot = "held"
    BY <1>b DEF Active
  <2> QED BY <1>0, <1>4, <2>1, <2>2, <2>3, <2>4 DEF Retried, Answers, Watching, Calm
\* Where the retry task is, and it would not have to ask again.
<1>5. place[Retry] \in {"accepted", "down", "await", "apply"} \/ (Active(Retry) /\ rec.cancelled) =>
        (Watching(rec, core) => rec.pending)
  BY <1>0, <1>b DEF Active
<1>6. ASSUME NEW a \in Targets \cup Cleanups, EndWith(a, rec), Active(a), UNCHANGED <<core, intent>>
      PROVE  Retried'
  BY <1>0, <1>1, <1>6, <1>a
<1>7. ASSUME EndWith(Retry, rec), Active(Retry), Watching(rec, core) => rec.pending, UNCHANGED <<core, intent>>
      PROVE  Retried'
  BY <1>2, <1>7, <1>a, <1>b
<1>8. ASSUME NEW a \in Tasks, Begin(a) PROVE Retried'
  <2>1. a # Retry /\ rec' = Suspend(rec, a)
    BY <1>8 DEF Begin
  <2>2. /\ rec'.suspenders = rec.suspenders \cup {a}
        /\ rec.slot = "held" => rec'.cancelled
    BY <1>a, <2>1, SuspendFacts
  <2>3. rec'.slot # "new"
    BY <1>a, <2>1 DEF Suspend, Reset, Recs
  <2>4. expiring' = expiring /\ place'[Retry] = place[Retry] /\ UNCHANGED core
        /\ \A t \in Targets : Active(t)' => Active(t) \/ t = a
    BY <1>8, <1>a, <2>1 DEF Begin, GoTo, Active, coreVars
  <2>5. place[Retry] = "scope" => rec.slot = "held"
    BY <1>b DEF Active
  <2> QED BY <1>0, <2>2, <2>3, <2>4, <2>5 DEF Retried, Watching, Wanted
<1>9. ASSUME NEW a \in Tasks, JoinRetry(a) PROVE Retried'
  <2>1. a # Retry /\ Active(a) /\ a \in rec.suspenders
    BY <1>9, <1>b DEF JoinRetry, At, Active
  <2>2. Calm(rec, Joined(rec)) /\ Joined(rec).cancelled = rec.cancelled /\ Joined(rec).slot # "new"
    BY <1>a, JoinedCalm DEF Joined, Recs
  <2>3. CASE EndWith(a, Joined(rec))
    BY <1>1, <1>9, <2>1, <2>2, <2>3 DEF JoinRetry, Calm, Wanted, coreVars, sessionVars
  <2>4. CASE ~Cancelled(a)
    <3>1. /\ rec' = Joined(rec) /\ expiring' = expiring /\ place'[Retry] = place[Retry]
          /\ UNCHANGED <<core, intent, intentOf>>
          /\ \A t \in Targets : Active(t)' => Active(t)
      BY <1>9, <1>a, <2>1, <2>4 DEF JoinRetry, GoTo, Active, coreVars, sessionVars
    <3> QED BY <1>0, <2>1, <2>2, <3>1 DEF Retried, Watching, Wanted, Calm
  <2> QED BY <1>9, <2>3, <2>4 DEF JoinRetry
<1>10. ASSUME NEW a \in Tasks, JoinTargets(a) PROVE Retried'
  <2>1. a # Retry /\ Active(a)
    BY <1>10, <1>b DEF JoinTargets, At, Active
  <2>2. UNCHANGED <<core, intent>>
    BY <1>10 DEF JoinTargets, coreVars, sessionVars
  <2> QED BY <1>3, <1>6, <1>10, <2>1, <2>2 DEF JoinTargets, End
<1>11. ASSUME NEW t \in Targets, Prepare(t) PROVE Retried'
  <2>1. Active(t) /\ UNCHANGED <<core, intent>>
    BY <1>11 DEF Prepare, At, Active, coreVars, sessionVars
  <2> QED BY <1>3, <1>6, <1>11, <2>1 DEF Prepare, End
<1>12. CASE RetryStarts
  <2>1. /\ rec' = [rec EXCEPT !.slot = "held"] /\ place'[Retry] = "wait" /\ UNCHANGED <<core, expiring>>
        /\ \A t \in Targets : Active(t)' => Active(t)
        /\ rec.slot = "new"
    BY <1>12, <1>a DEF RetryStarts, GoTo, Active, coreVars
  <2> QED BY <1>0, <1>a, <2>1 DEF Retried, Watching, Wanted, Recs
<1>13. CASE RetryWakes
  <2>1. /\ UNCHANGED <<core, intent, expiring>> /\ place[Retry] = "wait"
        /\ \A t \in Targets : Active(t)' => Active(t)
    BY <1>13, <1>a DEF RetryWakes, GoTo, Active, coreVars, sessionVars, At
  <2>2. CASE GoTo(Retry, "scope") /\ UNCHANGED rec
    <3>1. intentOf'[Retry] = intent /\ place'[Retry] = "scope"
      BY <1>13, <1>a, <2>2 DEF RetryWakes, GoTo
    <3> QED BY <1>0, <2>1, <2>2, <3>1 DEF Retried, Watching, Wanted
  <2>3. ASSUME NEW r \in Recs, GoTo(Retry, "idle"), rec' = RetryOver(r), r.suspenders = rec.suspenders,
               Watching(r, core) => r.pending
        PROVE  Retried'
    <3>1. Answers(rec', core) /\ Wanted(rec') /\ rec'.suspenders = rec.suspenders /\ rec'.slot # "held"
      BY <2>3, RetryOverAnswers, RetryOverFacts
    <3>2. place'[Retry] = "idle"
      BY <1>a, <2>3 DEF GoTo
    <3> QED BY <1>0, <2>1, <3>1, <3>2 DEF Retried, Answers, Watching
  <2>4. CASE GoTo(Retry, "idle") /\ RetryCurrent(rec) /\ rec' = RetryOver(Again(rec))
    <3>1. Again(rec) \in Recs /\ Again(rec).suspenders = rec.suspenders /\ Again(rec).pending
      BY <1>a, <2>4, AgainTyped DEF Again, Recs
    <3> QED BY <2>3, <2>4, <3>1
  <2>5. CASE GoTo(Retry, "idle") /\ (rec.cancelled \/ ~RetryCurrent(rec)) /\ rec' = RetryOver(rec)
    <3>1. Watching(rec, core) => rec.pending
      <4>1. rec.slot = "held"
        BY <1>b, <2>1 DEF Active
      <4> QED BY <1>0, <2>5, <4>1 DEF Watching, RetryCurrent
    <3> QED BY <1>a, <2>3, <2>5, <3>1
  <2> QED BY <1>0, <1>13, <2>2, <2>4, <2>5 DEF RetryWakes
<1>14. ASSUME NEW a \in Tasks, TakeScope(a) PROVE Retried'
  <2>1. Active(a) /\ UNCHANGED <<core, intent>> /\ ~Cancelled(a)
    BY <1>14 DEF TakeScope, At, Active, sessionVars, ScopeFree
  <2>2. CASE a # Retry
    BY <1>3, <1>6, <1>14, <2>1, <2>2 DEF TakeScope, End, EnterDown
  <2>3. CASE a = Retry
    <3>1. ~Superseder(a) /\ StillCurrent(a)
      BY <1>0, <1>14, <1>c, <2>1, <2>3 DEF Superseder, StillCurrent, TakeScope, At, Cancelled
    <3>2. GoTo(Retry, "up") /\ UNCHANGED <<rec, intentOf, expiring>>
      BY <1>14, <2>3, <3>1 DEF TakeScope
    <3> QED BY <1>3, <2>1, <3>2
  <2> QED BY <2>2, <2>3
<1>15. ASSUME NEW a \in Tasks, WithdrawScope(a) \/ WithdrawAuth(a) PROVE Retried'
  <2>1. Active(a) /\ UNCHANGED <<core, intent>> /\ Cancelled(a) /\ EndWith(a, rec)
    BY <1>15 DEF WithdrawScope, WithdrawAuth, End, At, Active, coreVars, sessionVars
  <2> QED BY <1>5, <1>6, <1>7, <2>1 DEF Cancelled
<1>16. ASSUME NEW a \in Tasks, Up(a) PROVE Retried'
  <2>1. Active(a) /\ GoTo(a, "accepted") /\ UNCHANGED <<intent, intentOf, expiring>> /\ \E c : Report(c)
    BY <1>16 DEF Up, At, Active, sessionVars
  <2> QED BY <1>4, <2>1
<1>17. ASSUME NEW a \in Tasks, UpReturns(a) PROVE Retried'
  <2>1. place[a] = "accepted" /\ Active(a) /\ UNCHANGED <<core, intent>>
    BY <1>17 DEF UpReturns, At, Active, sessionVars
  <2>2. CASE EndWith(a, rec)
    BY <1>5, <1>6, <1>7, <2>1, <2>2
  <2>3. CASE GoTo(a, "down") /\ UNCHANGED <<rec, intentOf, expiring>>
    BY <1>3, <1>5, <2>1, <2>3
  <2> QED BY <1>17, <2>2, <2>3 DEF UpReturns, End, EnterDown
<1>18. ASSUME NEW a \in Tasks, UpFails(a) PROVE Retried'
  <2>1. place[a] = "up" /\ Active(a) /\ UNCHANGED <<core, intent>>
    BY <1>18 DEF UpFails, At, Active, sessionVars
  <2>2. CASE Cancelled(a) /\ GoTo(a, "down") /\ UNCHANGED <<rec, intentOf, expiring>>
    BY <1>3, <1>5, <2>1, <2>2 DEF Cancelled
  <2>3. CASE GoTo(a, "auth") /\ UNCHANGED <<rec, intentOf, expiring>>
    BY <1>3, <2>1, <2>3
  <2>4. CASE a = Retry /\ EndWith(a, Again(rec))
    <3>1. Again(rec) \in Recs /\ Again(rec).suspenders = rec.suspenders /\ Again(rec).slot = rec.slot
          /\ Again(rec).enabled = rec.enabled
          /\ Again(rec).pending = (rec.pending \/ RetryCurrent(rec))
      BY <1>a, AgainTyped DEF Again, Recs
    <3>2. rec.slot = "held"
      BY <1>b, <2>1, <2>4
    <3>3. Watching(Again(rec), core) => Again(rec).pending
      BY <1>0, <3>1, <3>2 DEF Watching, RetryCurrent
    <3> QED BY <1>2, <2>1, <2>4, <3>1, <3>2, <3>3
  <2>5. CASE a # Retry /\ EndWith(a, rec)
    BY <1>6, <2>1, <2>5
  <2> QED BY <1>18, <2>2, <2>3, <2>4, <2>5 DEF UpFails, End, EnterDown
<1>19. ASSUME NEW a \in Tasks, DownReturns(a) PROVE Retried'
  <2>1. /\ place[a] = "down" /\ Active(a) /\ UNCHANGED <<intent, intentOf, expiring>>
        /\ \E p \in {"apply", "await"} : GoTo(a, p)
        /\ UNCHANGED <<core, rec>> \/ \E c : Report(c)
    BY <1>19 DEF DownReturns, At, Active, sessionVars, coreVars
  <2>2. CASE UNCHANGED <<core, rec>>
    BY <1>3, <1>5, <2>1, <2>2
  <2>3. CASE \E c : Report(c)
    BY <1>4, <2>1, <2>3
  <2> QED BY <2>1, <2>2, <2>3
<1>20. ASSUME NEW a \in Tasks, StateChanged(a) PROVE Retried'
  <2>1. place[a] = "await" /\ Active(a) /\ UNCHANGED <<rec, core, intent, intentOf, expiring>>
        /\ GoTo(a, "down")
    BY <1>20 DEF StateChanged, EnterDown, At, Active, sessionVars
  <2> QED BY <1>3, <1>5, <2>1
<1>21. ASSUME NEW a \in Tasks, Apply(a) PROVE Retried'
  <2>1. place[a] = "apply" /\ Active(a) /\ UNCHANGED <<core, intent>>
    BY <1>21 DEF Apply, At, Active, coreVars
  <2>2. CASE EndWith(a, rec)
    BY <1>5, <1>6, <1>7, <2>1, <2>2
  <2>3. CASE a \in Cleanups /\ EndWith(a, Disable(rec, a))
    <3>1. Calm(rec, Disable(rec, a))
      BY <1>a, DisableCalm
    <3>2. Disable(rec, a).slot # "new"
      BY <1>a DEF Disable, Joined, Reset, Recs
    <3> QED BY <1>1, <2>1, <2>3, <3>1, <3>2 DEF Calm, Wanted
  <2>4. CASE a \in Cleanups /\ EndWith(a, [rec EXCEPT !.enabled = TRUE])
    <3> DEFINE q == [rec EXCEPT !.enabled = TRUE]
    <3>1. q \in Recs /\ q.suspenders = rec.suspenders /\ q.slot = rec.slot
          /\ q.cancelled = rec.cancelled /\ q.current = rec.current
      BY <1>a DEF Recs
    <3>2. Wanted(q)
      BY <1>0, <3>1 DEF Wanted
    <3> HIDE DEF q
    <3>3. EndWith(a, q)
      BY <2>4 DEF q
    <3> QED BY <1>1, <2>1, <2>4, <3>1, <3>2, <3>3
  <2> QED BY <1>0, <1>21, <2>2, <2>3, <2>4 DEF Apply, End
<1>22. ASSUME NEW a \in Tasks, TakeAuth(a) PROVE Retried'
  BY <1>22, <1>c DEF TakeAuth
<1>23. CASE CoreMoves \/ TunnelMoves
  <2>1. UNCHANGED <<intent, intentOf, expiring, place>> /\ \E c : Report(c)
    BY <1>23 DEF CoreMoves, TunnelMoves, taskVars, sessionVars
  <2> QED BY <1>4, <2>1
<1>24. ASSUME UNCHANGED vars \/ \E a \in Tasks : CancelCaller(a) \/ Terminate(a) PROVE Retried'
  BY <1>3, <1>24 DEF CancelCaller, Terminate, vars, taskVars, coreVars, sessionVars
<1> QED
  BY <1>8, <1>9, <1>10, <1>11, <1>12, <1>13, <1>14, <1>15, <1>16, <1>17, <1>18, <1>19, <1>20, <1>21,
     <1>22, <1>23, <1>24 DEF Next, TaskNext

-----------------------------------------------------------------------------
(* The theorems. *)

LEMMA SafeInit == Init => SafeInv
<1> SUFFICES ASSUME Init PROVE Numbered /\ Compensated /\ Distinct /\ Final
  BY OwnerInit DEF SafeInv
<1> USE OwnerAssumption DEF Init, Tasks, Requests
<1>1. Numbered /\ Compensated
  BY DEF Numbered, Compensated
<1>2. Distinct /\ Final
  BY DEF Distinct, Final, DisconnectIsFinal
<1> QED BY <1>1, <1>2

LEMMA SafeStep == SafeInv /\ [Next]_vars => SafeInv'
BY OwnerStep, NumberedStep, CompensatedStep, DistinctStep, FinalStep DEF SafeInv

LEMMA SafeInvariant == Spec => []SafeInv
BY SafeInit, SafeStep, PTL DEF Spec

\* With the connection scope free, what Core has or is about to start was not
\* replaced while it was being made: its own task would have taken it down
\* (_attempt_connection and _connect_while_reconnection_suspended).
THEOREM SupersededNeverStays == Spec => []SupersededStaysDown
<1>1. SafeInv => SupersededStaysDown
  BY DEF SafeInv, Compensated, SupersededStaysDown
<1> QED BY <1>1, SafeInvariant, PTL

\* Once a Disconnect has returned, Core has no attempt of an earlier intent, and
\* none will come (AsyncConnectionService.disconnect, _disconnect_until_stable).
THEOREM DisconnectStaysFinal == Spec => []DisconnectIsFinal
<1>1. SafeInv => DisconnectIsFinal
  BY DEF SafeInv, Final
<1> QED BY <1>1, SafeInvariant, PTL

LEMMA RetriedInvariant == Spec => []Retried
<1>1. Init => Retried
  BY OwnerAssumption DEF Init, Retried, Watching, Wanted, Active, Tasks
<1>2. OwnerInv /\ Retried /\ [Next]_vars => Retried'
  BY RetriedStep
<1> QED BY <1>1, <1>2, OwnerInvariant, PTL DEF Spec

\* While the session lasts and reconnection is on, a drop of the connection finds
\* or makes a retry task (AsyncReconnector.status_update, suspended, _retry_after).
THEOREM DropsAreRetried == Spec => []DropIsRetried
<1>1. Retried => DropIsRetried
  BY DEF Retried, Watching, DropIsRetried
<1> QED BY <1>1, RetriedInvariant, PTL

===============================================================================
