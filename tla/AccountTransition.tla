--------------------------- MODULE AccountTransition ---------------------------
(***************************************************************************)
(* The session of a Proton account across sign-in, sign-out, expiry and    *)
(* the replacement of the backend process: the authentication half of      *)
(* ProtonCoreAdapter (adapters) and its journal (account_transition).      *)
(*                                                                         *)
(* Core saves a session in the keyring and starts refreshers that save it  *)
(* again; disabling the scheduler does not prove that its children ended.  *)
(* So once a process has started them it admits no other account: a        *)
(* sign-out leaves a record, and only a process that has seen the writer   *)
(* of the record end may clear the session and accept new credentials.     *)
(*                                                                         *)
(* The authentication scope serializes these operations (TaskScope), so    *)
(* one place, phase, says where the operation under way is between two     *)
(* awaits.  Simplifications:                                               *)
(*  - the connection scope and its targets are those of ConnectionOwner:   *)
(*    a connection or a disconnection is one step here;                    *)
(*  - awaits with nothing between them that another actor can see or       *)
(*    change are one step, with the outcomes of all of them;               *)
(*  - deadlines that end the process are Crash, which may happen anywhere; *)
(*  - controller, dispatched transactions are not cancelled                *)
(*    (TransactionsNeverCancelled of Controller), except when the tasks of *)
(*    a leaving process are retired (ZeroInterrupted);                     *)
(*  - a security key is one more second factor;                            *)
(*  - a call of Core in flight in a process that ends does not commit      *)
(*    afterwards, except a refresh.                                        *)
(***************************************************************************)
EXTENDS Naturals

CONSTANTS
    Accounts,       \* the Proton accounts
    NoAccount,      \* no session, no tunnel, no refresher
    MaxFaults       \* bound of the model: failed calls and crashes

MaybeAccount == Accounts \cup {NoAccount}

ASSUME AccountAssumption ==
    NoAccount \notin Accounts /\ "dead" \notin MaybeAccount /\ MaxFaults \in Nat

VARIABLES
    session,        \* the session saved in the keyring
    record,         \* the file of AccountTransitionJournal
    stored,         \* the kill switch in Core's persisted settings
    tunnel,         \* the account whose tunnel NetworkManager holds up
    proc,           \* the serving process: its adapter and the operation under way
    outgoing,       \* the process before it: "dead", or what it still refreshes
    faults,         \* how many calls and processes have failed
    wanted,         \* ghost: the kill switch the session that is on began with or chose
    resigned        \* ghost: a sign-out began although no session was saved

disk == <<session, record, stored, tunnel>>
ghosts == <<wanted, resigned>>
vars == <<disk, proc, outgoing, faults, ghosts>>

KillSwitches == 0..2        \* off, until disconnected, permanent
NoRecord == [by |-> "nobody", retired |-> FALSE]
RecoveryAuthStates == {"authentication_unknown", "settings_unavailable",
                       "protection_unknown", "expired", "account_restart_required"}
AuthStates == RecoveryAuthStates \cup
    {"signed_out", "signing_in", "two_factor", "signed_in", "signed_in_degraded"}
BarrierPhases == {"load", "retire", "teardown", "zero", "late", "logout", "repair", "restore"}
Phases == BarrierPhases \cup
    {"off", "boot", "probe", "connector", "confirm", "settings", "services", "failed",
     "ready", "signIn", "authenticate", "verify", "reconcile", "complete",
     "undo", "undoLogout", "undoQuery", "cancel"}

\* A process that has not done anything.
Fresh == [phase |-> "off", starting |-> FALSE, loggedIn |-> FALSE,
          restartRequired |-> FALSE, authState |-> "signed_out", fallback |-> "signed_out",
          services |-> "disabled", servicesStarted |-> FALSE, refreshing |-> NoAccount,
          account |-> NoAccount, killSwitch |-> 0, previous |-> 0,
          written |-> FALSE, known |-> FALSE]

Init ==
    /\ session = NoAccount /\ record = NoRecord /\ stored \in KillSwitches
    /\ tunnel = NoAccount /\ proc = Fresh /\ outgoing = "dead" /\ faults = 0
    /\ wanted = stored /\ resigned = FALSE

-----------------------------------------------------------------------------
(* The journal, the scopes and what is published. *)

Fault == faults < MaxFaults /\ faults' = faults + 1

\* The record this process writes.  A write that fails may have replaced the file.
Stored(retired) == [by |-> "serving", retired |-> retired]
MayStore(retired) == {record, Stored(retired)}

\* The process that wrote the record is known to have ended.
RetiredProcessConfirmed == record.by # "outgoing"

\* The state a snapshot shows, and whether the controller admits ordinary work.
Published(p) ==
    IF p.restartRequired /\ p.authState \notin
            {"authentication_unknown", "settings_unavailable", "protection_unknown"}
    THEN "account_restart_required" ELSE p.authState
Admitted(p) == p.phase = "ready" /\ Published(p) \notin RecoveryAuthStates

\* A startup that fails ends the process while there is cleanup on disk, and
\* else shows the failure until the service is stopped.
FailedStart(p, pending) ==
    IF pending # NoRecord THEN Fresh
    ELSE [p EXCEPT !.phase = "failed", !.starting = FALSE]

\* What _enable_session_services leaves when it succeeds, and when it does not.
Enabled(p) ==
    [p EXCEPT !.services = "enabled", !.servicesStarted = TRUE, !.refreshing = p.account]
NotEnabled(p) ==
    {[p EXCEPT !.services = left.services, !.servicesStarted = TRUE,
               !.refreshing = left.refreshing] :
        left \in [services : {"disabled", "cleanup"}, refreshing : {p.refreshing, p.account}]}

\* _disable_refresher, best effort: the scheduler stops or its state is kept as unknown.
Quiesced(p) ==
    {[p EXCEPT !.services = s] :
        s \in IF p.services = "disabled" THEN {"disabled"} ELSE {"disabled", "cleanup"}}

SignedOut(p, authState) == [p EXCEPT !.loggedIn = FALSE, !.authState = authState]
Ready(p) == [p EXCEPT !.phase = "ready"]

-----------------------------------------------------------------------------
(* Startup: initialize. *)

Boot ==
    /\ proc.phase = "off"
    /\ proc' = [Fresh EXCEPT !.phase = "boot"]
    /\ UNCHANGED <<disk, outgoing, faults, ghosts>>

\* The record is read, and refused while its writer lives.
LoadRecord ==
    /\ proc.phase = "boot"
    /\ proc' = IF RetiredProcessConfirmed
               THEN [proc EXCEPT !.phase = "probe", !.restartRequired = (record # NoRecord)]
               ELSE Fresh
    /\ UNCHANGED <<disk, outgoing, faults, ghosts>>

\* The journal cannot be read, or not trusted.
RecordUnreadable ==
    /\ proc.phase = "boot" /\ record # NoRecord
    /\ Fault
    /\ proc' = Fresh
    /\ UNCHANGED <<disk, outgoing, ghosts>>

\* Core restores the saved session.
ProbeSession ==
    /\ proc.phase = "probe"
    /\ proc' = [proc EXCEPT !.phase = "connector", !.account = session,
                            !.loggedIn = (session # NoAccount)]
    /\ UNCHANGED <<disk, outgoing, faults, ghosts>>

\* Mutant: recovery needs a session even when the tunnel is known to be down.
AcquireConnectorWithSession ==
    /\ proc.phase = "connector"
    /\ proc' = IF record = NoRecord
               THEN IF proc.loggedIn
                    THEN [proc EXCEPT !.phase = "services", !.authState = "signed_in"]
                    ELSE [proc EXCEPT !.phase = "settings", !.authState = "signed_out"]
               ELSE IF proc.loggedIn
                    THEN [proc EXCEPT !.phase = "load", !.starting = TRUE]
                    ELSE Fresh
    /\ UNCHANGED <<disk, outgoing, faults, ghosts>>

\* The connector exists.  Without a session and without proof that the tunnel
\* was taken down, account recovery is refused; else it runs the logout barrier.
AcquireConnector ==
    /\ proc.phase = "connector"
    /\ proc' = IF record = NoRecord
               THEN IF proc.loggedIn
                    THEN [proc EXCEPT !.phase = "services", !.authState = "signed_in"]
                    ELSE [proc EXCEPT !.phase = "settings", !.authState = "signed_out"]
               ELSE IF proc.loggedIn \/ record.retired
                    THEN [proc EXCEPT !.phase = "load", !.starting = TRUE]
                    ELSE Fresh
    /\ UNCHANGED <<disk, outgoing, faults, ghosts>>

\* A probe, the connector, the final check or the services fail.
StartupFails ==
    /\ proc.phase \in {"probe", "connector", "confirm", "services"}
    /\ Fault
    /\ \E p \in IF proc.phase = "services" THEN NotEnabled(proc) ELSE {proc} :
           proc' = FailedStart(p, record)
    /\ UNCHANGED <<disk, outgoing, ghosts>>

\* _finish_account_restart after the barrier: the session is gone and the
\* record is cleared, or startup fails.
FinishAccountRestart ==
    /\ proc.phase = "confirm"
    /\ IF session # NoAccount
       THEN proc' = Fresh /\ UNCHANGED <<disk, faults, ghosts>>
       ELSE /\ \/ /\ record' = NoRecord
                  /\ proc' = [proc EXCEPT !.phase = "settings", !.starting = FALSE,
                                  !.restartRequired = FALSE, !.loggedIn = FALSE]
                  /\ resigned' = FALSE
                  /\ UNCHANGED faults
               \/ /\ Fault
                  /\ record' \in {record, NoRecord}
                  /\ proc' = FailedStart(proc, record')
                  /\ resigned' = (resigned /\ record' # NoRecord)
            /\ UNCHANGED <<session, stored, tunnel, wanted>>
    /\ UNCHANGED outgoing

\* A signed-out process reads the kill switch before it is ready.
ReadSettings ==
    /\ proc.phase = "settings"
    /\ \/ proc' = Ready([proc EXCEPT !.killSwitch = stored]) /\ UNCHANGED faults
       \/ Fault /\ proc' = Ready([proc EXCEPT !.killSwitch = 0,
                                              !.authState = "settings_unavailable"])
    /\ UNCHANGED <<disk, outgoing, ghosts>>

StartServices ==
    /\ proc.phase = "services"
    /\ proc' = Ready(Enabled(proc))
    /\ UNCHANGED <<disk, outgoing, faults, ghosts>>

-----------------------------------------------------------------------------
(* Sign-in. *)

\* Mutant: refreshers that were started do not close the process.
CredentialsAdmittedAfterServices ==
    ~proc.restartRequired /\ ~proc.loggedIn

CredentialsAdmitted ==
    ~proc.restartRequired /\ ~proc.servicesStarted /\ ~proc.loggedIn

\* _login up to its first await; refused under the permanent kill switch.
SignIn(a) ==
    /\ Admitted(proc) /\ proc.killSwitch # 2 /\ CredentialsAdmitted
    /\ proc' = [proc EXCEPT !.phase = "signIn", !.account = a]
    /\ UNCHANGED <<disk, outgoing, faults, ghosts>>

SignInSettings ==
    /\ proc.phase = "signIn"
    /\ \/ /\ proc' = IF stored = 2
                     THEN Ready([proc EXCEPT !.killSwitch = 2, !.authState = "signed_out"])
                     ELSE [proc EXCEPT !.killSwitch = stored, !.authState = "signing_in",
                                       !.fallback = "signed_out", !.phase = "authenticate"]
          /\ wanted' = stored
          /\ UNCHANGED faults
       \/ Fault /\ proc' = Ready(proc) /\ UNCHANGED wanted
    /\ UNCHANGED <<disk, outgoing, resigned>>

SubmitTwoFactor ==
    /\ Admitted(proc) /\ proc.authState = "two_factor"
    /\ proc' = [proc EXCEPT !.phase = "verify", !.fallback = "two_factor"]
    /\ UNCHANGED <<disk, outgoing, faults, ghosts>>

\* Core answers the credentials or the second factor.
CoreAuthenticates ==
    /\ proc.phase \in {"authenticate", "verify"}
    /\ session' = proc.account
    /\ proc' = [proc EXCEPT !.phase = "complete"]
    /\ UNCHANGED <<record, stored, tunnel, outgoing, faults, ghosts>>

CoreRefuses ==
    /\ proc.phase \in {"authenticate", "verify"}
    /\ proc' = Ready([proc EXCEPT !.authState = proc.fallback])
    /\ UNCHANGED <<disk, outgoing, faults, ghosts>>

AsksTwoFactor ==
    /\ proc.phase = "authenticate"
    /\ proc' = Ready([proc EXCEPT !.authState = "two_factor"])
    /\ UNCHANGED <<disk, outgoing, faults, ghosts>>

\* An error, before or after Core saved the session.
AuthenticationFails ==
    /\ proc.phase \in {"authenticate", "verify"}
    /\ Fault
    /\ session' \in {session, proc.account}
    /\ proc' = [proc EXCEPT !.phase = "reconcile"]
    /\ UNCHANGED <<record, stored, tunnel, outgoing, ghosts>>

\* _reconcile_authentication_failure, and the same for a cancelled sign-in.
Reconcile ==
    /\ proc.phase = "reconcile"
    /\ LET kept == [proc EXCEPT !.loggedIn = TRUE, !.account = session]
       IN \/ /\ session = NoAccount
             /\ proc' = Ready(SignedOut(proc, proc.fallback))
             /\ UNCHANGED faults
          \/ /\ session # NoAccount
             /\ proc' = Ready([Enabled(kept) EXCEPT !.authState = "signed_in"])
             /\ UNCHANGED faults
          \/ /\ session # NoAccount /\ Fault
             /\ \E p \in NotEnabled(kept) :
                    proc' = Ready([p EXCEPT !.authState = "signed_in_degraded"])
          \/ /\ Fault
             /\ proc' = Ready(SignedOut(proc, "authentication_unknown"))
    /\ UNCHANGED <<disk, outgoing, ghosts>>

\* _complete_login: the services start, or the session is rolled back.
CompleteLogin ==
    /\ proc.phase = "complete"
    /\ proc' = Ready([Enabled(proc) EXCEPT !.loggedIn = TRUE, !.authState = "signed_in"])
    /\ UNCHANGED <<disk, outgoing, faults, ghosts>>

\* The record is written before the restart is required: when the write itself
\* fails, only servicesStarted keeps the process closed to other accounts.
CompleteLoginFails ==
    /\ proc.phase = "complete"
    /\ Fault
    /\ \E p \in NotEnabled(proc) :
           \/ /\ record' = Stored(FALSE)
              /\ proc' = [p EXCEPT !.restartRequired = TRUE, !.phase = "undo"]
           \/ record' \in MayStore(FALSE) /\ proc' = Ready(p)
    /\ UNCHANGED <<session, stored, tunnel, outgoing, ghosts>>

UndoTunnel ==
    /\ proc.phase = "undo"
    /\ \/ /\ tunnel' = NoAccount /\ record' = Stored(TRUE)
          /\ proc' = [proc EXCEPT !.phase = "undoLogout"]
          /\ UNCHANGED faults
       \/ /\ Fault
          /\ tunnel' \in {tunnel, NoAccount}
          /\ record' \in IF tunnel' = NoAccount THEN MayStore(TRUE) ELSE {record}
          /\ proc' = [proc EXCEPT !.phase = "undoQuery"]
    /\ UNCHANGED <<session, stored, outgoing, ghosts>>

UndoLogout ==
    /\ proc.phase = "undoLogout"
    /\ \/ session' = NoAccount /\ UNCHANGED faults
       \/ Fault /\ session' \in {session, NoAccount}
    /\ proc' = [proc EXCEPT !.phase = "undoQuery"]
    /\ UNCHANGED <<record, stored, tunnel, outgoing, ghosts>>

UndoQuery ==
    /\ proc.phase = "undoQuery"
    /\ \/ /\ session = NoAccount
          /\ \E p \in Quiesced(proc) : proc' = Ready(SignedOut(p, "signed_out"))
          /\ UNCHANGED faults
       \/ /\ session # NoAccount
          /\ proc' = Ready([proc EXCEPT !.loggedIn = TRUE, !.authState = "signed_in_degraded"])
          /\ UNCHANGED faults
       \/ /\ Fault
          /\ \E p \in Quiesced(proc) : proc' = Ready(SignedOut(p, "authentication_unknown"))
    /\ UNCHANGED <<disk, outgoing, ghosts>>

-----------------------------------------------------------------------------
(* Sign-out. *)

\* _logout: the fence and the record come before anything else.
BeginLogout ==
    /\ resigned' = (resigned \/ session = NoAccount)
    /\ LET fenced == [proc EXCEPT !.restartRequired = TRUE]
       IN \/ /\ record' = Stored(FALSE)
             /\ proc' = [fenced EXCEPT !.phase = "load"]
             /\ UNCHANGED faults
          \/ Fault /\ record' \in MayStore(FALSE) /\ proc' = fenced
    /\ UNCHANGED <<session, stored, tunnel, outgoing, wanted>>

SignOut ==
    /\ \/ Admitted(proc)
       \/ proc.phase = "ready" /\ Published(proc) \in {"expired", "account_restart_required"}
    /\ BeginLogout

\* _cancel_login: a plain logout of Core while no refresher was ever started.
CancelSignIn ==
    /\ Admitted(proc)
    /\ IF proc.servicesStarted \/ proc.restartRequired
       THEN BeginLogout
       ELSE /\ proc' = [proc EXCEPT !.phase = "cancel", !.fallback = "signed_out"]
            /\ UNCHANGED <<disk, outgoing, faults, ghosts>>

CancelLogout ==
    /\ proc.phase = "cancel"
    /\ \/ session' = NoAccount /\ proc' = Ready(SignedOut(proc, "signed_out")) /\ UNCHANGED faults
       \/ Fault /\ session' \in {session, NoAccount} /\ proc' = [proc EXCEPT !.phase = "reconcile"]
    /\ UNCHANGED <<record, stored, tunnel, outgoing, ghosts>>

\* The barrier that sign-out and account recovery share ends in an error.
BarrierFailed(p) == IF p.starting THEN FailedStart(p, record) ELSE Ready(p)

BarrierSettings ==
    /\ proc.phase = "load"
    /\ \/ /\ proc' = [proc EXCEPT !.previous = stored, !.written = FALSE, !.phase = "retire"]
          /\ UNCHANGED faults
       \/ /\ Fault
          /\ \E p \in {proc} \cup {SignedOut(q, "expired") : q \in Quiesced(proc)} :
                 proc' = BarrierFailed(p)
    /\ UNCHANGED <<disk, outgoing, ghosts>>

RetireServices ==
    /\ proc.phase = "retire"
    /\ \/ proc' = [proc EXCEPT !.services = "disabled", !.phase = "teardown"] /\ UNCHANGED faults
       \/ /\ Fault
          /\ \E p \in Quiesced(proc) : proc' = [p EXCEPT !.phase = "repair"]
    /\ UNCHANGED <<disk, outgoing, ghosts>>

\* The tunnel goes down before the record says so, and the kill switch after both.
Teardown ==
    /\ proc.phase = "teardown"
    /\ \/ /\ tunnel' = NoAccount /\ record' = Stored(TRUE)
          /\ proc' = IF proc.previous = 0
                     THEN [proc EXCEPT !.killSwitch = 0, !.phase = "logout"]
                     ELSE [proc EXCEPT !.phase = "zero"]
          /\ UNCHANGED faults
       \/ /\ Fault
          /\ tunnel' \in {tunnel, NoAccount}
          /\ record' \in IF tunnel' = NoAccount THEN MayStore(TRUE) ELSE {record}
          /\ proc' = [proc EXCEPT !.phase = "repair"]
    /\ UNCHANGED <<session, stored, outgoing, ghosts>>

\* Mutant: a write whose acknowledgement failed is taken for not written.
LowerKillSwitchUnrecorded ==
    /\ proc.phase = "zero"
    /\ \/ /\ stored' = 0
          /\ proc' = [proc EXCEPT !.written = TRUE, !.killSwitch = 0, !.phase = "logout"]
          /\ UNCHANGED faults
       \/ /\ Fault
          /\ stored' \in {stored, 0}
          /\ proc' = [proc EXCEPT !.phase = "repair"]
    /\ UNCHANGED <<session, record, tunnel, outgoing, ghosts>>

LowerKillSwitch ==
    /\ proc.phase = "zero"
    /\ \/ /\ stored' = 0
          /\ proc' = [proc EXCEPT !.written = TRUE, !.killSwitch = 0, !.phase = "logout"]
          /\ UNCHANGED faults
       \/ /\ Fault
          /\ stored' \in {stored, 0}
          /\ proc' = [proc EXCEPT !.written = TRUE, !.phase = "repair"]
    /\ UNCHANGED <<session, record, tunnel, outgoing, ghosts>>

\* The task of the sign-out is cancelled; its shielded write goes on.
ZeroInterrupted ==
    /\ proc.phase = "zero"
    /\ Fault
    /\ proc' = [proc EXCEPT !.written = TRUE, !.phase = "late"]
    /\ UNCHANGED <<disk, outgoing, ghosts>>

\* _publish_unknown_protection: zero is the projection that claims nothing.
UnknownProtection(p) ==
    {SignedOut([q EXCEPT !.killSwitch = 0], "protection_unknown") : q \in Quiesced(p)}

\* _recover_failed_logout first waits for the write, however long it takes.
LateWriteEnds ==
    /\ proc.phase = "late"
    /\ stored' \in {stored, 0}
    /\ \/ proc' = [proc EXCEPT !.phase = "repair"]
       \/ \E p \in UnknownProtection(proc) : proc' = BarrierFailed(p)
    /\ UNCHANGED <<session, record, tunnel, outgoing, faults, ghosts>>

CoreLogout ==
    /\ proc.phase = "logout"
    /\ \/ /\ session' = NoAccount
          /\ LET p == SignedOut(proc, "signed_out")
             IN proc' = IF p.starting THEN [p EXCEPT !.phase = "confirm"] ELSE Ready(p)
          /\ wanted' = stored
          /\ UNCHANGED faults
       \/ /\ Fault
          /\ session' \in {session, NoAccount}
          /\ proc' = [proc EXCEPT !.phase = "repair"]
          /\ UNCHANGED wanted
    /\ UNCHANGED <<record, stored, tunnel, outgoing, resigned>>

\* What is published once the protection is what it was: the restart is still
\* required, and an unknown session is no session.
Settled(p) ==
    LET restored == [p EXCEPT !.killSwitch = p.previous]
    IN IF p.known
       THEN {[restored EXCEPT !.loggedIn = TRUE, !.authState = "account_restart_required"]}
       ELSE {SignedOut(q, "authentication_unknown") : q \in Quiesced(restored)}

RepairLogout ==
    /\ proc.phase = "repair"
    /\ \/ /\ session = NoAccount
          /\ \E p \in Quiesced(proc) : proc' = BarrierFailed(SignedOut(p, "signed_out"))
          /\ wanted' = stored
          /\ UNCHANGED faults
       \/ /\ \/ session # NoAccount /\ UNCHANGED faults
             \/ Fault
          /\ LET p == [proc EXCEPT !.known = (faults' = faults)]
             IN IF p.written
                THEN proc' = [p EXCEPT !.phase = "restore"]
                ELSE \E q \in Settled(p) : proc' = BarrierFailed(q)
          /\ UNCHANGED wanted
    /\ UNCHANGED <<disk, outgoing, resigned>>

\* The compensating write, or no claim at all.
RestoreProtection ==
    /\ proc.phase = "restore"
    /\ \/ /\ stored' = proc.previous
          /\ \E p \in Settled(proc) : proc' = BarrierFailed(p)
          /\ UNCHANGED faults
       \/ /\ Fault
          /\ stored' \in {stored, proc.previous}
          /\ \E p \in UnknownProtection(proc) : proc' = BarrierFailed(p)
    /\ UNCHANGED <<session, record, tunnel, outgoing, ghosts>>

-----------------------------------------------------------------------------
(* A signed-in process. *)

\* _expire_session: the saved session and an established tunnel stay.
Expire ==
    /\ proc.phase = "ready" /\ proc.loggedIn /\ ~proc.restartRequired
    /\ \E p \in Quiesced(proc) : proc' = SignedOut(p, "expired")
    /\ UNCHANGED <<disk, outgoing, faults, ghosts>>

DisableKillSwitch ==
    /\ Admitted(proc) /\ ~proc.loggedIn
    /\ \/ stored' = 0 /\ proc' = [proc EXCEPT !.killSwitch = 0] /\ UNCHANGED faults
       \/ Fault /\ stored' \in {stored, 0} /\ UNCHANGED proc
    /\ wanted' = stored'
    /\ UNCHANGED <<session, record, tunnel, outgoing, resigned>>

\* A save of the kill switch; a save that fails is SettingsSave.
SetKillSwitch(k) ==
    /\ Admitted(proc) /\ proc.loggedIn /\ tunnel = NoAccount
    /\ stored' = k /\ wanted' = k /\ proc' = [proc EXCEPT !.killSwitch = k]
    /\ UNCHANGED <<session, record, tunnel, outgoing, faults, resigned>>

Connect ==
    /\ Admitted(proc) /\ proc.loggedIn
    /\ tunnel' = proc.account
    /\ UNCHANGED <<session, record, stored, proc, outgoing, faults, ghosts>>

Disconnect ==
    /\ proc.phase = "ready"
    /\ tunnel' = NoAccount
    /\ UNCHANGED <<session, record, stored, proc, outgoing, faults, ghosts>>

-----------------------------------------------------------------------------
(* Refreshers and the end of processes. *)

\* Core's refresh children save their session again, whatever has become of it.
Refresh(r) ==
    /\ r \in {proc.refreshing, outgoing} \cap Accounts
    /\ session' = r
    /\ UNCHANGED <<record, stored, tunnel, proc, outgoing, faults, ghosts>>

\* The service stops and gives its name away; its process goes on for a while.
\* The units let a process outlive its name, not also the next process.
Leave ==
    /\ proc.phase \in {"ready", "failed"} /\ outgoing = "dead"
    /\ outgoing' = proc.refreshing
    /\ record' = IF record.by = "serving" THEN [record EXCEPT !.by = "outgoing"] ELSE record
    /\ proc' = Fresh
    /\ UNCHANGED <<session, stored, tunnel, faults, ghosts>>

Died(who) == IF record.by = who THEN [record EXCEPT !.by = "gone"] ELSE record

OutgoingEnds ==
    /\ outgoing # "dead"
    /\ outgoing' = "dead" /\ record' = Died("outgoing")
    /\ UNCHANGED <<session, stored, tunnel, proc, faults, ghosts>>

Crash ==
    /\ proc.phase # "off" /\ outgoing = "dead"
    /\ Fault
    /\ proc' = Fresh /\ record' = Died("serving")
    /\ UNCHANGED <<session, stored, tunnel, outgoing, ghosts>>

-----------------------------------------------------------------------------

Startup ==
    Boot \/ LoadRecord \/ ProbeSession \/ AcquireConnector \/ FinishAccountRestart
    \/ ReadSettings \/ StartServices
SignInSteps ==
    SignInSettings \/ CoreAuthenticates \/ Reconcile \/ CompleteLogin \/ UndoTunnel
    \/ UndoLogout \/ UndoQuery
SignOutSteps ==
    CancelLogout \/ BarrierSettings \/ RetireServices \/ Teardown \/ LowerKillSwitch
    \/ LateWriteEnds \/ CoreLogout \/ RepairLogout \/ RestoreProtection
Requests ==
    \/ \E a \in Accounts : SignIn(a)
    \/ SubmitTwoFactor \/ SignOut \/ CancelSignIn \/ DisableKillSwitch
    \/ \E k \in KillSwitches : SetKillSwitch(k)
    \/ Connect \/ Disconnect

Next ==
    \/ Startup \/ SignInSteps \/ SignOutSteps \/ Requests
    \/ RecordUnreadable \/ StartupFails \/ CoreRefuses \/ AsksTwoFactor \/ AuthenticationFails
    \/ CompleteLoginFails \/ ZeroInterrupted \/ Expire
    \/ \E r \in Accounts : Refresh(r)
    \/ Leave \/ OutgoingEnds \/ Crash

Spec == Init /\ [][Next]_vars

\* A process that has work goes on with it, the bus or systemd starts the next
\* one, an outgoing one ends, and the service is stopped again and again while
\* a record waits: its message asks for the restart, and the idle lifetime
\* ends the service once no frontend is left.
Fairness ==
    /\ WF_vars(Startup) /\ WF_vars(SignInSteps) /\ WF_vars(SignOutSteps)
    /\ WF_vars(OutgoingEnds) /\ SF_vars(record # NoRecord /\ Leave)
FairSpec == Spec /\ Fairness

-----------------------------------------------------------------------------
(* Properties. *)

Processes ==
    [phase : Phases, starting : BOOLEAN, loggedIn : BOOLEAN,
     restartRequired : BOOLEAN, authState : AuthStates, fallback : AuthStates,
     services : {"disabled", "cleanup", "enabled"}, servicesStarted : BOOLEAN,
     refreshing : MaybeAccount, account : MaybeAccount,
     killSwitch : KillSwitches, previous : KillSwitches,
     written : BOOLEAN, known : BOOLEAN]
Records == [by : {"nobody", "serving", "outgoing", "gone"}, retired : BOOLEAN]

TypeOK ==
    /\ session \in MaybeAccount /\ tunnel \in MaybeAccount /\ stored \in KillSwitches
    /\ record \in Records
    /\ proc \in Processes
    /\ outgoing \in MaybeAccount \cup {"dead"}
    /\ faults \in 0..MaxFaults /\ wanted \in KillSwitches /\ resigned \in BOOLEAN

\* While anything can still save the session of one account, no other account
\* is saved or being signed in: a late refresh cannot replace a new session.
NoForeignRefresh ==
    \A r \in {proc.refreshing, outgoing} \cap Accounts :
        /\ session \in {NoAccount, r}
        /\ proc.phase \in {"authenticate", "verify", "complete"} => proc.account = r

\* A tunnel can be taken down again: its session is there to restore it with,
\* and no record claims that it was taken down.
TunnelAnswered ==
    tunnel # NoAccount => session = tunnel /\ ~record.retired

\* Recovery is out of reach only after a sign-out without a session.
NeverStranded ==
    (record # NoRecord /\ ~record.retired /\ session = NoAccount) => resigned

\* The handoff of the keyring and of the tunnel from one account to the next.
AccountHandoff == NoForeignRefresh /\ TunnelAnswered /\ NeverStranded

\* A sign-out that failed has not lowered the protection of a session that is
\* still on, and claims no protection that is not in force.
ProtectionKept ==
    (proc.phase = "ready" /\ proc.loggedIn) =>
        /\ stored = wanted
        /\ proc.authState = "account_restart_required" => proc.killSwitch = stored

\* A recorded account change is completed by a later process, unless it needs
\* the assistance that NeverStranded speaks of.
TransitionEnds ==
    (record # NoRecord) ~>
        (record = NoRecord \/ (~record.retired /\ session = NoAccount))

===============================================================================
