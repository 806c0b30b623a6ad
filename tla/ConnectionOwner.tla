--------------------------- MODULE ConnectionOwner ---------------------------
(***************************************************************************)
(* The owner of Proton Core's connector: the manual targets, Disconnect,   *)
(* the reconnection preference and the expiry of a session (adapters.py),  *)
(* with the retry task of AsyncReconnector (reconnector.py).               *)
(*                                                                         *)
(* Every intent to change the connection takes a number, suspends          *)
(* automatic reconnection, joins the retry task, cancels and joins the     *)
(* older manual targets, and only then enters the connection scope, in     *)
(* which one task at a time asks Core.  A task that was superseded while   *)
(* it was in Core takes its own connection down again.                     *)
(*                                                                         *)
(* Simplifications:                                                        *)
(*  - the process has signed in and created its reconnector; a process     *)
(*    serves one account, so nothing signs in again after an expiry;       *)
(*  - deadlines may run out at any time, and then the process exits;       *)
(*  - an attempt is the intent it was made for, and the authentication     *)
(*    epoch of a task is told from its intent: an expiry takes one too;    *)
(*  - the awaits before the connection scope are one step, and so are the  *)
(*    delay and the session probe of a retry;                              *)
(*  - an Up that raises was not accepted by Core;                          *)
(*  - shutdown, logout and the recovery of an account are left out.        *)
(***************************************************************************)
EXTENDS Naturals

CONSTANTS
    Targets,    \* manual connection requests
    Cleanups,   \* the requests that supersede or suspend them
    Kind,       \* of each cleanup: what it does
    Retry,      \* the task of the reconnector
    NoOne,
    MaxIntent   \* bound of the model: requests of one process, but for its expiry

Tasks == Targets \cup Cleanups \cup {Retry}

ASSUME OwnerAssumption ==
    /\ Kind \in [Cleanups -> {"disconnect", "disable", "enable"}]
    /\ Targets \cap Cleanups = {}
    /\ Retry \notin Targets \cup Cleanups /\ NoOne \notin Tasks
    /\ MaxIntent \in Nat

VARIABLES
    core,       \* the connector: its state, its attempt, the queued one, a cause
    moved,      \* _connector_state_revision differs from the observed one
    intent,     \* _connection_intent_generation
    loggedIn,   \* _logged_in
    expiredAt,  \* the intent that came with the expiry of the session, or 0
    preference, \* _reconnection_enabled
    rec,        \* the reconnector
    place,      \* where each task is
    intentOf,   \* the intent it was admitted with
    cancelled,  \* tasks asked to cancel, but for the retry task
    waits,      \* the older targets a task joins
    scope,      \* owner of _connection_scope
    auth,       \* owner of _authentication_scope
    expiring,   \* the tasks that run _expire_session
    exited,     \* _terminal_exit
    released,   \* history: the latest intent whose Disconnect has returned
    superseded, \* history: attempts that were in Core beside a newer intent
    enables     \* for the bound: requests that took no intent

coreVars == <<core, moved>>
sessionVars == <<intent, loggedIn, expiredAt, preference>>
taskVars == <<place, intentOf, cancelled, waits, scope, auth, expiring>>
historyVars == <<released, superseded, enables>>
vars == <<coreVars, sessionVars, rec, taskVars, exited, historyVars>>

Init ==
    /\ core = [state |-> "Disconnected", of |-> 0, next |-> 0, cause |-> "none"]
    /\ moved = FALSE
    /\ intent = 0 /\ loggedIn = TRUE /\ expiredAt = 0 /\ preference = TRUE
    /\ rec = [enabled |-> TRUE, suspenders |-> {}, slot |-> "empty",
              pending |-> FALSE, current |-> FALSE, cancelled |-> FALSE]
    /\ place = [a \in Tasks |-> "idle"]
    /\ intentOf = [a \in Tasks |-> 0]
    /\ cancelled = {} /\ waits = [a \in Tasks |-> {}]
    /\ scope = NoOne /\ auth = NoOne /\ expiring = {}
    /\ exited = FALSE
    /\ released = 0 /\ superseded = {} /\ enables = 0

-----------------------------------------------------------------------------
(* AsyncReconnector.  Its slot is "new" for a task that has not started, and *)
(* "dead" for one that was cancelled before it did.                         *)

\* _connection_attempt_active
Attempting == place[Retry] \in {"scope", "up", "accepted", "down", "await"} /\ Retry \notin expiring

\* Mutant: a suspension leaves the retry task alone.
ResetWithoutCancel(r, cancel) == [r EXCEPT !.current = FALSE, !.pending = FALSE]

\* _reset
Reset(r, cancel) ==
    [r EXCEPT !.current = FALSE, !.pending = FALSE,
              !.slot = IF cancel /\ r.slot = "new" THEN "dead" ELSE r.slot,
              !.cancelled = r.cancelled \/ (cancel /\ r.slot = "held")]

\* _schedule_retry
Schedule(r) ==
    IF ~r.enabled \/ r.suspenders # {} THEN r
    ELSE IF r.slot # "empty" THEN [r EXCEPT !.pending = TRUE]
    ELSE [r EXCEPT !.slot = "new", !.pending = FALSE, !.current = TRUE, !.cancelled = FALSE]

\* status_update.  A Disconnected with a queued replacement says nothing.
StatusUpdate(r, c) ==
    IF ~r.enabled \/ r.suspenders # {} THEN r
    ELSE CASE c.state = "Connected" -> Reset(r, ~Attempting)
           [] c.state = "Disconnected" /\ c.next = 0 -> Reset(r, TRUE)
           [] c.state = "Error" /\ c.cause = "final" -> Reset(r, TRUE)
           [] c.state = "Error" /\ c.cause = "drop" -> Schedule(r)
           [] OTHER -> r

Suspend(r, a) == [Reset(r, a # Retry) EXCEPT !.suspenders = r.suspenders \cup {a}]

\* Mutant: the connector is not looked at when the last suspension ends.
ResumeBlindly(r, a) == [r EXCEPT !.suspenders = r.suspenders \ {a}]

\* The end of suspended(): the last owner looks at the connector again.
Resume(r, a) ==
    LET q == [r EXCEPT !.suspenders = r.suspenders \ {a}]
    IN IF a \in r.suspenders THEN StatusUpdate(q, core) ELSE r

\* The join of a task that is done empties its slot.
Joined(r) == [r EXCEPT !.slot = IF r.slot = "held" THEN "held" ELSE "empty"]

\* disable(), whose join has nothing to wait for under a suspension.
Disable(r, a) == [Joined(Reset(r, a # Retry)) EXCEPT !.enabled = FALSE]

\* _retry_is_current
RetryCurrent(r) ==
    r.enabled /\ r.suspenders = {} /\ r.current /\ core.state = "Error"

\* _retry_after, from its finally block on: nothing asks for another retry
\* unless an Error came meanwhile.
RetryOver(r) ==
    LET q == [r EXCEPT !.slot = "empty", !.cancelled = FALSE]
    IN IF r.pending THEN Schedule(q) ELSE q

\* An attempt that failed and is still wanted asks for another.
Again(r) == [r EXCEPT !.pending = r.pending \/ RetryCurrent(r)]

-----------------------------------------------------------------------------
(* Tasks. *)

Cancelled(a) == IF a = Retry THEN rec.cancelled ELSE a \in cancelled

Active(a) == place[a] # "idle"

\* A live process, and a task of it at p.
At(a, p) == ~exited /\ place[a] = p

\* The attempts Core has accepted and not yet answered.
InFlight == {intentOf[t] : t \in {u \in Tasks : place[u] = "accepted"}}

NewIntent ==
    /\ intent' = intent + 1
    /\ superseded' = superseded \cup InFlight

Obsolete(a) == intentOf[a] < expiredAt

GoTo(a, p) == place' = [place EXCEPT ![a] = p]

\* a ends: its scopes, its registration and its suspension with it.
EndWith(a, r) ==
    /\ GoTo(a, "idle")
    /\ intentOf' = [intentOf EXCEPT ![a] = 0]
    /\ cancelled' = cancelled \ {a}
    /\ waits' = [b \in Tasks |-> IF b = a THEN {} ELSE waits[b] \ {a}]
    /\ scope' = IF scope = a THEN NoOne ELSE scope
    /\ auth' = IF auth = a THEN NoOne ELSE auth
    /\ expiring' = expiring \ {a}
    /\ rec' = IF a = Retry THEN RetryOver(Resume(r, a)) ELSE Resume(r, a)

End(a) == EndWith(a, rec)

\* An admitted request suspends reconnection before its first await.
Begin(a) ==
    /\ ~exited /\ a # Retry /\ ~Active(a)
    /\ intent + enables < MaxIntent
    /\ IF a \in Targets \/ Kind[a] # "enable" THEN NewIntent /\ UNCHANGED enables
       ELSE enables' = enables + 1 /\ UNCHANGED <<intent, superseded>>
    /\ a \in Targets => loggedIn
    /\ intentOf' = [intentOf EXCEPT ![a] = intent']
    /\ GoTo(a, "join")
    /\ rec' = Suspend(rec, a)
    /\ UNCHANGED <<coreVars, loggedIn, expiredAt, preference, cancelled, waits, scope, auth,
                   expiring, exited, released>>

\* The caller of a manual target goes away.
CancelCaller(t) ==
    /\ ~exited /\ t \in Targets /\ Active(t)
    /\ cancelled' = cancelled \cup {t}
    /\ UNCHANGED <<coreVars, sessionVars, rec, place, intentOf, waits, scope, auth, expiring,
                   exited, historyVars>>

\* Mutant: every older task is taken for a target.
EveryOlder(a) == {t \in Tasks \ {a} : Active(t) /\ intentOf[t] < intent}

\* The targets a retires: those admitted before it; all others at an expiry.
Older(a) ==
    {t \in Targets \ {a} : Active(t) /\ intentOf[t] < IF a \in expiring THEN intent ELSE intentOf[a]}

\* suspended(): the retry task is done.  Then _retire_manual_connection_tasks.
JoinRetry(a) ==
    /\ At(a, "join")
    /\ rec.slot # "held" \/ a = Retry
    /\ IF Cancelled(a) THEN EndWith(a, Joined(rec))
       ELSE /\ rec' = IF a = Retry THEN rec ELSE Joined(rec)
            /\ IF a \in Cleanups /\ Kind[a] = "enable"
                 THEN GoTo(a, "scope") /\ UNCHANGED <<cancelled, waits>>
                 ELSE /\ GoTo(a, "retire")
                      /\ cancelled' = cancelled \cup Older(a)
                      /\ waits' = [waits EXCEPT ![a] = Older(a)]
            /\ UNCHANGED <<intentOf, scope, auth, expiring>>
    /\ UNCHANGED <<coreVars, sessionVars, exited, historyVars>>

\* A cancelled join still waits for what it joins.
JoinTargets(a) ==
    /\ At(a, "retire") /\ waits[a] = {}
    /\ IF Cancelled(a) THEN End(a)
       ELSE /\ GoTo(a, IF a \in Targets \ expiring THEN "prepare" ELSE "scope")
            /\ UNCHANGED <<rec, intentOf, cancelled, waits, scope, auth, expiring>>
    /\ UNCHANGED <<coreVars, sessionVars, exited, historyVars>>

StillCurrent(a) == intentOf[a] = intent /\ ~Obsolete(a) /\ loggedIn

\* The server list, the client configuration and the settings are read.
Prepare(t) ==
    /\ At(t, "prepare")
    /\ \/ ~Cancelled(t) /\ StillCurrent(t) /\ GoTo(t, "scope")
          /\ UNCHANGED <<rec, intentOf, cancelled, waits, scope, auth, expiring>>
       \/ End(t)
       \/ ~Cancelled(t) /\ GoTo(t, "auth")
          /\ UNCHANGED <<rec, intentOf, cancelled, waits, scope, auth, expiring>>
    /\ UNCHANGED <<coreVars, sessionVars, exited, historyVars>>

-----------------------------------------------------------------------------
(* The retry task. *)

RetryStarts ==
    /\ ~exited /\ rec.slot = "new"
    /\ rec' = [rec EXCEPT !.slot = "held"]
    /\ GoTo(Retry, "wait")
    /\ UNCHANGED <<coreVars, sessionVars, intentOf, cancelled, waits, scope, auth, expiring,
                   exited, historyVars>>

\* After the delay and the session probe: ask the owner, wait again, or give up.
RetryWakes ==
    /\ At(Retry, "wait")
    /\ \/ /\ ~rec.cancelled /\ RetryCurrent(rec) /\ loggedIn
          /\ GoTo(Retry, "scope")
          /\ intentOf' = [intentOf EXCEPT ![Retry] = intent]
          /\ UNCHANGED rec
       \/ /\ ~rec.cancelled /\ RetryCurrent(rec)
          /\ GoTo(Retry, "idle")
          /\ rec' = RetryOver(Again(rec))
          /\ UNCHANGED intentOf
       \/ /\ rec.cancelled \/ ~RetryCurrent(rec) \/ ~loggedIn
          /\ GoTo(Retry, "idle")
          /\ rec' = RetryOver(rec)
          /\ UNCHANGED intentOf
    /\ UNCHANGED <<coreVars, sessionVars, cancelled, waits, scope, auth, expiring, exited,
                   historyVars>>

-----------------------------------------------------------------------------
(* The connection scope. *)

\* Mutant: the scope is not consulted.
ScopeIgnored(a) == ~Cancelled(a)

ScopeFree(a) == scope = NoOne /\ ~Cancelled(a)

Superseder(a) == a \in Cleanups \/ a \in expiring

\* transitional_only: an established or failed connection is left alone.
MayLeaveAlone(a) ==
    /\ a \in expiring \/ (a \in Cleanups /\ Kind[a] = "disable")
    /\ core.state \in {"Connected", "Error"}

EnterDown(a) == GoTo(a, "down") /\ moved' = FALSE

TakeScope(a) ==
    /\ At(a, "scope") /\ ScopeFree(a)
    /\ IF Superseder(a) \/ StillCurrent(a)
         THEN /\ scope' = a
              /\ CASE ~Superseder(a) -> GoTo(a, "up") /\ UNCHANGED moved
                   [] Superseder(a) /\ (MayLeaveAlone(a) \/ (a \notin expiring /\ Kind[a] = "enable")) ->
                        GoTo(a, "apply") /\ UNCHANGED moved
                   [] OTHER -> EnterDown(a)
              /\ UNCHANGED <<rec, intentOf, cancelled, waits, auth, expiring>>
         ELSE End(a) /\ UNCHANGED moved
    /\ UNCHANGED <<core, sessionVars, exited, historyVars>>

WithdrawScope(a) ==
    /\ At(a, "scope") /\ Cancelled(a)
    /\ End(a)
    /\ UNCHANGED <<coreVars, sessionVars, exited, historyVars>>

\* Mutant: a change of the connector does not wake the barrier.
ReportToRetry(c) ==
    /\ core' = c
    /\ UNCHANGED moved
    /\ rec' = StatusUpdate(rec, c)

\* A change of the connector reaches the adapter and the reconnector.
Report(c) ==
    /\ core' = c
    /\ moved' = TRUE
    /\ rec' = StatusUpdate(rec, c)

\* Up of a: at once, or after the stop of the connection there is.
Up(a) ==
    /\ At(a, "up")
    /\ ~(core.state = "Disconnected" /\ core.next # 0)
    /\ Report(CASE core.state = "Disconnected" -> [core EXCEPT !.state = "Connecting", !.of = intentOf[a]]
                [] core.state = "Disconnecting" -> [core EXCEPT !.next = intentOf[a]]
                [] OTHER -> [core EXCEPT !.state = "Disconnecting", !.next = intentOf[a], !.cause = "none"])
    /\ GoTo(a, "accepted")
    /\ superseded' = IF intentOf[a] = intent THEN superseded ELSE superseded \cup {intentOf[a]}
    /\ UNCHANGED <<sessionVars, intentOf, cancelled, waits, scope, auth, expiring, exited,
                   released, enables>>

\* Mutant: only a cancelled attempt is compensated.
KeepUnlessCancelled(a) == ~Cancelled(a)

\* A successful attempt is kept if nothing replaced it while it was in Core.
MayKeep(a) == ~Cancelled(a) /\ StillCurrent(a)

UpReturns(a) ==
    /\ At(a, "accepted")
    /\ IF MayKeep(a)
         THEN End(a) /\ UNCHANGED moved
         ELSE EnterDown(a) /\ UNCHANGED <<rec, intentOf, cancelled, waits, scope, auth, expiring>>
    /\ UNCHANGED <<core, sessionVars, exited, historyVars>>

\* The error of a retry that is obsolete is not looked at.
ExpiryNoticed(a) == a = Retry => RetryCurrent(rec)

\* Core raises: the scope is left, and the session expired or the attempt failed.
UpFails(a) ==
    /\ At(a, "up")
    /\ \/ /\ Cancelled(a) /\ EnterDown(a)
          /\ UNCHANGED <<rec, intentOf, cancelled, waits, scope, auth, expiring>>
       \/ /\ ~Cancelled(a) /\ ExpiryNoticed(a)
          /\ GoTo(a, "auth") /\ scope' = NoOne
          /\ UNCHANGED <<moved, rec, intentOf, cancelled, waits, auth, expiring>>
       \/ /\ ~Cancelled(a) /\ UNCHANGED moved
          /\ IF a = Retry THEN EndWith(a, Again(rec)) ELSE End(a)
    /\ UNCHANGED <<core, sessionVars, exited, historyVars>>

\* Core's event lock: the handoff to a queued replacement is one event.
EventFree == ~(core.state = "Disconnected" /\ core.next # 0)

Stopping == [state |-> "Disconnecting", of |-> core.of, next |-> 0, cause |-> "none"]
Stopped == [state |-> "Disconnected", of |-> 0, next |-> 0, cause |-> "none"]

\* Mutant: Core is asked to disconnect and believed.
DownAccepted(c) == TRUE

\* Only a Disconnected ends the barrier.
BarrierCrossed(c) == c.state = "Disconnected"

\* _disconnect_barrier: Down crosses Core's event lock and the state is sampled.
DownReturns(a) ==
    /\ At(a, "down") /\ EventFree
    /\ IF core = Stopped
         THEN GoTo(a, "apply") /\ UNCHANGED <<coreVars, rec>>
         ELSE \E c \in {Stopping, Stopped} :
                /\ core.state = "Disconnecting" => c = Stopping
                /\ IF c = core THEN UNCHANGED <<coreVars, rec>> ELSE Report(c)
                /\ GoTo(a, IF BarrierCrossed(c) THEN "apply" ELSE "await")
    /\ UNCHANGED <<sessionVars, intentOf, cancelled, waits, scope, auth, expiring, exited,
                   historyVars>>

\* _wait_for_connector_state_change, and once more through Down.
StateChanged(a) ==
    /\ At(a, "await") /\ moved
    /\ EnterDown(a)
    /\ UNCHANGED <<core, sessionVars, rec, intentOf, cancelled, waits, scope, auth, expiring,
                   exited, historyVars>>

\* The rest of the scope: the preference or the expiry is applied, all ends.
Apply(a) ==
    /\ At(a, "apply")
    /\ CASE a \in expiring ->
              /\ EndWith(a, IF Cancelled(a) THEN rec ELSE Disable(rec, a))
              /\ UNCHANGED <<preference, released>>
         [] a \in Cleanups /\ Kind[a] = "disable" ->
              /\ EndWith(a, Disable(rec, a))
              /\ preference' = FALSE /\ UNCHANGED released
         [] a \in Cleanups /\ Kind[a] = "enable" ->
              /\ EndWith(a, IF loggedIn THEN [rec EXCEPT !.enabled = TRUE] ELSE Disable(rec, a))
              /\ preference' = TRUE /\ UNCHANGED released
         [] a \in Cleanups /\ Kind[a] = "disconnect" ->
              /\ End(a)
              /\ released' = IF intentOf[a] > released THEN intentOf[a] ELSE released
              /\ UNCHANGED preference
         [] OTHER -> End(a) /\ UNCHANGED <<preference, released>>
    /\ UNCHANGED <<coreVars, intent, loggedIn, expiredAt, exited, superseded, enables>>

-----------------------------------------------------------------------------
(* The expiry of the session, noticed by a target or by the retry task. *)

TakeAuth(a) ==
    /\ At(a, "auth") /\ auth = NoOne /\ ~Cancelled(a)
    /\ IF Obsolete(a)
         THEN End(a) /\ UNCHANGED <<sessionVars, superseded>>
         ELSE /\ auth' = a
              /\ NewIntent
              /\ loggedIn' = FALSE /\ expiredAt' = intent'
              /\ expiring' = expiring \cup {a}
              /\ rec' = Suspend(rec, a)
              /\ GoTo(a, "join")
              /\ UNCHANGED <<preference, intentOf, cancelled, waits, scope>>
    /\ UNCHANGED <<coreVars, exited, released, enables>>

WithdrawAuth(a) ==
    /\ At(a, "auth") /\ Cancelled(a)
    /\ End(a)
    /\ UNCHANGED <<coreVars, sessionVars, exited, historyVars>>

\* A deadline of the retirement: the process exits.
Terminate(a) ==
    /\ ~exited
    /\ \/ place[a] \in {"join", "retire", "down", "await"}
       \/ place[a] = "scope" /\ a \in Cleanups /\ Kind[a] = "disconnect"
    /\ exited' = TRUE
    /\ UNCHANGED <<coreVars, sessionVars, rec, taskVars, historyVars>>

-----------------------------------------------------------------------------
(* Core on its own. *)

CoreMoves ==
    /\ ~exited
    /\ \/ core.state = "Disconnecting" /\ Report([core EXCEPT !.state = "Disconnected", !.of = 0])
       \/ core.state = "Disconnected" /\ core.next # 0
          /\ Report([core EXCEPT !.state = "Connecting", !.of = core.next, !.next = 0])
    /\ UNCHANGED <<sessionVars, taskVars, exited, historyVars>>

TunnelMoves ==
    /\ ~exited
    /\ \/ core.state \in {"Connecting", "Error"}
          /\ Report([core EXCEPT !.state = "Connected", !.cause = "none"])
       \/ core.state \in {"Connecting", "Connected", "Error"}
          /\ \E why \in {"drop", "final", "certificate"} :
               Report([core EXCEPT !.state = "Error", !.cause = why])
       \/ core.state = "Error" /\ Report(Stopped)
    /\ UNCHANGED <<sessionVars, taskVars, exited, historyVars>>

-----------------------------------------------------------------------------
TaskNext(a) ==
    \/ Begin(a) \/ CancelCaller(a) \/ JoinRetry(a) \/ JoinTargets(a)
    \/ TakeScope(a) \/ WithdrawScope(a)
    \/ Up(a) \/ UpReturns(a) \/ UpFails(a)
    \/ DownReturns(a) \/ StateChanged(a) \/ Apply(a)
    \/ TakeAuth(a) \/ WithdrawAuth(a) \/ Terminate(a)

Next ==
    \/ \E a \in Tasks : TaskNext(a)
    \/ \E t \in Targets : Prepare(t)
    \/ RetryStarts \/ RetryWakes
    \/ CoreMoves \/ TunnelMoves

Spec == Init /\ [][Next]_vars

(***************************************************************************)
(* Fairness.  The event loop does not stop: whenever a task is ready, or a *)
(* read or a call of Core is out (their transports have timeouts), some of *)
(* them moves on.  No deadline is assumed to fire, no lock to be fair, and *)
(* the tunnel may stay as it is.                                           *)
(***************************************************************************)
LoopStep ==
    \/ \E a \in Tasks :
         \/ JoinRetry(a) \/ JoinTargets(a) \/ TakeScope(a) \/ WithdrawScope(a)
         \/ Up(a) \/ UpReturns(a) \/ DownReturns(a) \/ StateChanged(a) \/ Apply(a)
         \/ TakeAuth(a) \/ WithdrawAuth(a)
    \/ \E t \in Targets : Prepare(t)
    \/ RetryStarts \/ RetryWakes
    \/ CoreMoves

FairSpec == Spec /\ WF_vars(LoopStep)

-----------------------------------------------------------------------------
(* Properties. *)

Intents == 0..MaxIntent + 1
Cores == [state : {"Disconnected", "Connecting", "Connected", "Disconnecting", "Error"},
          of : Intents, next : Intents,
          cause : {"none", "drop", "final", "certificate"}]
Recs == [enabled : BOOLEAN, suspenders : SUBSET Tasks, slot : {"empty", "new", "held", "dead"},
         pending : BOOLEAN, current : BOOLEAN, cancelled : BOOLEAN]

TypeOK ==
    /\ core \in Cores
    /\ moved \in BOOLEAN /\ intent \in Intents /\ loggedIn \in BOOLEAN
    /\ expiredAt \in Intents /\ preference \in BOOLEAN
    /\ rec \in Recs
    /\ place \in [Tasks -> {"idle", "join", "retire", "prepare", "wait", "scope", "up",
                            "accepted", "down", "await", "apply", "auth"}]
    /\ intentOf \in [Tasks -> Intents]
    /\ cancelled \subseteq Targets /\ waits \in [Tasks -> SUBSET Targets]
    /\ scope \in Tasks \cup {NoOne} /\ auth \in Tasks \cup {NoOne}
    /\ expiring \subseteq Tasks /\ exited \in BOOLEAN
    /\ released \in Intents /\ superseded \subseteq Intents
    /\ enables \in 0..MaxIntent

\* One task at a time asks Core to connect or to disconnect.
InCore(a) == place[a] \in {"up", "accepted", "down", "await", "apply"}
OneConnectionOwner == \A a, b \in Tasks : InCore(a) /\ InCore(b) => a = b

\* A connection somebody replaced while it was being made does not come up for
\* good: once nobody is in Core, it is not up and nothing will bring it up.
SupersededStaysDown ==
    scope = NoOne =>
        /\ core.next \notin superseded
        /\ core.state \in {"Connecting", "Connected"} => core.of \notin superseded

\* A Disconnect that has returned was the last word to all earlier intents.
DisconnectIsFinal ==
    /\ core.of = 0 \/ core.of > released
    /\ core.next = 0 \/ core.next > released

\* Automatic reconnection enters Core only while it is enabled and nobody who
\* asked for something else is at work.
RetryYields ==
    [][place[Retry] = "scope" /\ place'[Retry] = "up" =>
         rec.enabled /\ rec.suspenders = {} /\ loggedIn]_vars

\* A dropped connection is somebody's business: while a session lasts and its
\* reconnection is on and not suspended, a retry task has the slot.  (It may be
\* one that was cancelled before it began: see PendingErrorHasOwner.)
DropIsRetried ==
    loggedIn /\ rec.enabled /\ rec.suspenders = {} /\ core.state = "Error" /\ core.cause = "drop" =>
        rec.slot # "empty"

\* An Error that came while a retry was ending is not forgotten.
PendingErrorHasOwner == rec.pending => rec.slot \in {"new", "held"}

\* Every request ends: no join, scope or lock is part of a cycle.
RequestsEnd == \A a \in Targets \cup Cleanups : Active(a) ~> ~Active(a) \/ exited
=============================================================================
