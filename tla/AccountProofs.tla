----------------------------- MODULE AccountProofs -----------------------------
(***************************************************************************)
(* The proofs about AccountTransition: that the keyring and the tunnel are *)
(* handed from one account to the next (AccountHandoff), and that a failed *)
(* sign-out keeps the protection it found (ProtectionKept).                *)
(*                                                                         *)
(* Neither property is inductive: what may be concluded from the phase of  *)
(* a process depends on who wrote the record, on what the process started, *)
(* and on whether the process before it has ended.  Safe states these      *)
(* relations phase by phase: Stage (the process alone), Recording (the     *)
(* process and the record), Sessions (the keyring and its writers) and     *)
(* Protection (the kill switch in the settings, and who will repair it).   *)
(*                                                                         *)
(* The step of an operation with several outcomes is proved outcome by     *)
(* outcome: each is a record proc' under its own hypotheses, and the QED   *)
(* step shows that the action has no other.                                *)
(***************************************************************************)
EXTENDS AccountTransition, TLAPS

Down == {"off", "boot"}
Undoing == {"undo", "undoLogout", "undoQuery"}
SigningIn ==
    {"settings", "signIn", "authenticate", "verify", "complete", "reconcile", "cancel"}
    \cup Undoing
TornDown == {"zero", "late", "logout", "restore", "undoLogout", "confirm"}
Lowering == {"zero", "late", "logout", "repair", "restore"}
AtWork == SigningIn \cup BarrierPhases \cup {"connector", "services", "ready", "confirm"}

\* A signed-out process that would accept a sign-in.
Waits == proc.phase = "ready" /\ ~proc.loggedIn /\ Admitted(proc)

\* A process that is signed out for good, or may be asked to be.
Leaving ==
    /\ proc.phase \in BarrierPhases \cup {"ready"} /\ ~proc.starting
    /\ proc.phase = "ready" =>
           proc.restartRequired \/ proc.authState \in {"expired", "account_restart_required"}

\* What a process knows of itself, by the phase it is in.
Stage ==
    /\ proc.phase \in Down =>
           ~proc.starting /\ ~proc.loggedIn /\ ~proc.restartRequired /\ ~proc.servicesStarted
    /\ proc.phase \in {"probe", "connector", "settings", "services", "confirm",
                       "signIn", "authenticate", "cancel"} => ~proc.servicesStarted
    /\ proc.phase \in SigningIn =>
           ~proc.starting /\ ~proc.loggedIn /\ (proc.restartRequired <=> proc.phase \in Undoing)
    /\ proc.phase \in {"probe", "connector", "services", "ready", "failed"} => ~proc.starting
    /\ proc.phase \in BarrierPhases \cup {"confirm"} => proc.restartRequired
    /\ proc.phase = "confirm" => proc.starting
    /\ proc.phase = "restore" /\ proc.known /\ ~proc.starting => proc.servicesStarted
    /\ proc.phase = "probe" => ~proc.loggedIn
    /\ proc.phase \in Down \cup {"probe"} =>
           proc.authState = "signed_out" /\ proc.fallback = "signed_out"
    /\ proc.phase = "services" =>
           proc.loggedIn /\ ~proc.restartRequired /\ proc.authState = "signed_in"
    /\ proc.phase \in Undoing => proc.servicesStarted
    /\ proc.phase \in BarrierPhases \cup {"ready"} /\ ~proc.starting /\ proc.loggedIn =>
           proc.servicesStarted /\ proc.authState # "two_factor"
    /\ proc.starting => ~proc.servicesStarted /\ outgoing = "dead"
    /\ proc.refreshing # NoAccount => proc.servicesStarted
    /\ proc.refreshing \in {NoAccount, proc.account}
    /\ proc.fallback \in {"signed_out", "two_factor"}
    /\ "two_factor" \in {proc.authState, proc.fallback} => proc.account # NoAccount

\* When there is a record, who wrote it, and how much of the change it says is done.
Recording ==
    /\ record.by = "nobody" <=> record = NoRecord
    /\ proc.phase \in Down /\ outgoing # "dead" => record.by \in {"nobody", "outgoing"}
    /\ proc.phase \in {"probe", "connector"} =>
           /\ proc.restartRequired <=> record.by # "nobody"
           /\ proc.restartRequired => outgoing = "dead"
    /\ proc.phase \notin Down => record.by # "outgoing"
    /\ record.by = "gone" => proc.phase \in Down \cup {"probe", "connector"} \/ proc.starting
    /\ proc.phase \notin Down /\ ~proc.restartRequired =>
           ~record.retired /\ (proc.servicesStarted \/ record.by = "nobody")
    /\ proc.phase = "failed" => record.by = "nobody"
    /\ proc.phase \in BarrierPhases \cup Undoing \cup {"confirm"} => record.by # "nobody"
    /\ proc.phase \in TornDown => record.retired
    /\ proc.phase = "repair" /\ proc.written => record.retired

\* Whose session is saved, beside the one a process may still save.
Writers == {proc.refreshing, outgoing} \cap Accounts
Sessions ==
    /\ \A r \in Writers : session \in {NoAccount, r}
    /\ \A r, s \in Writers : r = s
    /\ session = NoAccount /\ Writers # {} =>
           record.by # "nobody" /\ (proc.phase \in Down \/ proc.restartRequired)
    /\ proc.phase \in SigningIn \/ Waits => outgoing \notin Accounts /\ tunnel = NoAccount
    /\ proc.phase \in AtWork =>
           /\ session \in {NoAccount, proc.account}
           /\ outgoing \in Accounts => outgoing = proc.account
    /\ proc.phase \in {"signIn", "authenticate", "verify", "cancel", "settings"} \/ Waits =>
           proc.servicesStarted \/ session = NoAccount
    /\ Leaving /\ ~proc.servicesStarted =>
           session = NoAccount /\ outgoing \notin Accounts
    /\ proc.phase = "connector" => (proc.loggedIn <=> session # NoAccount)
    /\ proc.phase \in {"services", "complete", "undo"} => session # NoAccount
    /\ proc.phase = "ready" /\ proc.loggedIn /\ ~proc.restartRequired => session # NoAccount
    /\ proc.phase \in {"signIn", "authenticate", "verify"} => proc.account # NoAccount

\* While the kill switch is not what the session began with or chose, either
\* somebody is going to write it again or nobody claims to be signed in.
Protection ==
    /\ record.by = "nobody" \/ proc.phase = "confirm" => stored = wanted
    /\ proc.phase \notin Down \cup Lowering \cup {"probe", "connector"}
           /\ ~proc.starting /\ stored # wanted =>
       proc.phase = "ready" /\ proc.authState = "protection_unknown" /\ ~proc.loggedIn
    /\ proc.phase \in {"retire", "teardown", "zero"} => ~proc.written
    /\ proc.phase = "late" => proc.written
    /\ proc.phase \in Lowering \cup {"retire", "teardown"} /\ ~proc.starting =>
           proc.previous = wanted /\ (proc.written \/ stored = wanted)
    /\ proc.phase \in {"ready", "load"} /\ ~proc.starting /\ proc.loggedIn
           /\ proc.authState = "account_restart_required" =>
       proc.killSwitch = stored

Safe == Stage /\ Recording /\ Sessions /\ Protection /\ TunnelAnswered /\ NeverStranded
IInv == TypeOK /\ Safe

\* The phases and states that helpers set.
LEMMA Constants ==
    /\ {"off", "boot", "probe", "connector", "confirm", "settings", "services", "failed",
                 "ready", "signIn", "authenticate", "verify", "reconcile", "complete",
                 "undo", "undoLogout", "undoQuery", "cancel", "load", "retire", "teardown", "zero",
                 "late", "logout", "repair", "restore"} \subseteq Phases
    /\ {"signed_out", "signing_in", "two_factor", "signed_in", "signed_in_degraded",
         "authentication_unknown", "settings_unavailable", "protection_unknown", "expired",
         "account_restart_required"} \subseteq AuthStates
    /\ NoAccount \in MaybeAccount /\ {0, 2} \subseteq KillSwitches
BY DEF Phases, BarrierPhases, AuthStates, RecoveryAuthStates, MaybeAccount, KillSwitches

\* q is p but for its services.
Alike(p, q) ==
    /\ q.phase = p.phase /\ q.starting = p.starting /\ q.loggedIn = p.loggedIn
    /\ q.restartRequired = p.restartRequired
    /\ q.authState = p.authState /\ q.fallback = p.fallback /\ q.account = p.account
    /\ q.killSwitch = p.killSwitch /\ q.previous = p.previous
    /\ q.written = p.written /\ q.known = p.known

\* What the helpers that do not say which of several states they leave may leave.
LEMMA NotEnabledFacts ==
    ASSUME NEW p \in Processes, NEW q \in NotEnabled(p)
    PROVE  /\ q \in Processes /\ Alike(p, q)
           /\ q.servicesStarted /\ q.refreshing \in {p.refreshing, p.account}
BY DEF NotEnabled, Processes, Alike

LEMMA QuiescedFacts ==
    ASSUME NEW p \in Processes, NEW q \in Quiesced(p)
    PROVE  /\ q \in Processes /\ Alike(p, q)
           /\ q.servicesStarted = p.servicesStarted /\ q.refreshing = p.refreshing
BY DEF Quiesced, Processes, Alike

\* Every helper returns a process.
LEMMA HelperTypes ==
    ASSUME NEW p \in Processes
    PROVE  /\ Fresh \in Processes
           /\ Ready(p) \in Processes
           /\ \A s \in AuthStates : SignedOut(p, s) \in Processes
           /\ Enabled(p) \in Processes
           /\ \A r \in Records : FailedStart(p, r) \in Processes
<1> USE Constants DEF Processes
<1>1. Fresh \in Processes
  BY DEF Fresh
<1>2. Ready(p) \in Processes
  BY DEF Ready
<1>3. \A s \in AuthStates : SignedOut(p, s) \in Processes
  BY DEF SignedOut
<1>4. Enabled(p) \in Processes
  BY DEF Enabled
<1>5. \A r \in Records : FailedStart(p, r) \in Processes
  BY <1>1 DEF FailedStart
<1> QED
  BY <1>1, <1>2, <1>3, <1>4, <1>5


\* Every outcome of an operation is a process.
LEMMA OutcomeTypes ==
    ASSUME NEW p \in Processes
    PROVE  /\ UnknownProtection(p) \subseteq Processes
           /\ Settled(p) \subseteq Processes
           /\ record \in Records => BarrierFailed(p) \in Processes
<1>1. UnknownProtection(p) \subseteq Processes
  <2>1. ASSUME NEW q \in Quiesced(p)
        PROVE  SignedOut([q EXCEPT !.killSwitch = 0], "protection_unknown") \in Processes
    <3>1. [q EXCEPT !.killSwitch = 0] \in Processes
      BY <2>1, QuiescedFacts, Constants DEF Processes
    <3> QED
      BY <3>1, HelperTypes, Constants
  <2> QED
    BY <2>1 DEF UnknownProtection
<1>2. Settled(p) \subseteq Processes
  <2>1. [p EXCEPT !.killSwitch = p.previous] \in Processes
    BY DEF Processes
  <2>2. [[p EXCEPT !.killSwitch = p.previous] EXCEPT
            !.loggedIn = TRUE, !.authState = "account_restart_required"] \in Processes
    BY <2>1, Constants DEF Processes
  <2>3. ASSUME NEW q \in Quiesced([p EXCEPT !.killSwitch = p.previous])
        PROVE  SignedOut(q, "authentication_unknown") \in Processes
    BY <2>1, <2>3, QuiescedFacts, HelperTypes, Constants
  <2> QED
    BY <2>2, <2>3 DEF Settled
<1>3. record \in Records => BarrierFailed(p) \in Processes
  BY HelperTypes DEF BarrierFailed
<1> QED
  BY <1>1, <1>2, <1>3

\* Every step leaves a process.
LEMMA ProcessStep == TypeOK /\ [Next]_vars => proc' \in Processes
<1> SUFFICES ASSUME TypeOK, [Next]_vars PROVE proc' \in Processes
  OBVIOUS
<1>t. proc \in Processes /\ record \in Records /\ session \in MaybeAccount
      /\ stored \in KillSwitches /\ Accounts \subseteq MaybeAccount
  BY DEF TypeOK, MaybeAccount
<1>q. Quiesced(proc) \subseteq Processes /\ NotEnabled(proc) \subseteq Processes
  BY <1>t, QuiescedFacts, NotEnabledFacts
<1>p. ASSUME NEW p \in Processes
      PROVE  /\ \A at \in Phases : [p EXCEPT !.phase = at] \in Processes
             /\ \A s \in AuthStates : [p EXCEPT !.authState = s] \in Processes
             /\ [p EXCEPT !.loggedIn = TRUE, !.account = session] \in Processes
             /\ [p EXCEPT !.loggedIn = TRUE, !.authState = "signed_in_degraded"] \in Processes
             /\ [p EXCEPT !.loggedIn = TRUE, !.authState = "signed_in"] \in Processes
             /\ [p EXCEPT !.restartRequired = TRUE, !.phase = "undo"] \in Processes
             /\ \A b \in BOOLEAN : [p EXCEPT !.known = b] \in Processes
  BY <1>t, Constants DEF Processes
<1>1. CASE RetireServices
  <2>1. [proc EXCEPT !.services = "disabled", !.phase = "teardown"] \in Processes
    BY <1>t, Constants DEF Processes
  <2>2. ASSUME NEW p \in Processes, proc' = [p EXCEPT !.phase = "repair"] PROVE proc' \in Processes
    BY <2>2, Constants DEF Processes
  <2> QED
    BY <1>1, <1>q, <2>1, <2>2 DEF RetireServices
<1>2. CASE Expire
  BY <1>2, <1>q, HelperTypes, Constants DEF Expire
<1>3. CASE SignInSettings
  <2>1. [proc EXCEPT !.killSwitch = 2, !.authState = "signed_out"] \in Processes
    BY <1>t, Constants DEF Processes
  <2>2. [proc EXCEPT !.killSwitch = stored, !.authState = "signing_in",
                     !.fallback = "signed_out", !.phase = "authenticate"] \in Processes
    BY <1>t, Constants DEF Processes
  <2> QED
    BY <1>t, <1>3, <2>1, <2>2, HelperTypes DEF SignInSettings
<1>4. CASE CoreLogout
  <2>1. SignedOut(proc, "signed_out") \in Processes
    BY <1>t, HelperTypes, Constants
  <2>2. [SignedOut(proc, "signed_out") EXCEPT !.phase = "confirm"] \in Processes
    BY <2>1, Constants DEF Processes
  <2>3. Ready(SignedOut(proc, "signed_out")) \in Processes
    BY <2>1, HelperTypes
  <2>4. [proc EXCEPT !.phase = "repair"] \in Processes
    BY <1>t, Constants DEF Processes
  <2> QED
    BY <1>4, <2>2, <2>3, <2>4 DEF CoreLogout
<1>5. CASE FinishAccountRestart
  <2>1. [proc EXCEPT !.phase = "settings", !.starting = FALSE,
                     !.restartRequired = FALSE, !.loggedIn = FALSE] \in Processes
    BY <1>t, Constants DEF Processes
  <2>2. record' \in {record, NoRecord} => record' \in Records
    <3>1. NoRecord \in Records
      BY DEF NoRecord, Records
    <3> QED
      BY <1>t, <3>1
  <2> QED
    BY <1>t, <1>5, <2>1, <2>2, HelperTypes DEF FinishAccountRestart
<1>6. CASE StartupFails
  <2>1. ASSUME NEW p \in Processes, proc' = FailedStart(p, record) PROVE proc' \in Processes
    BY <1>t, <2>1, HelperTypes
  <2> QED
    BY <1>t, <1>q, <1>6, <2>1 DEF StartupFails
<1>7. CASE CompleteLoginFails
  BY <1>q, <1>p, <1>7, HelperTypes DEF CompleteLoginFails
<1>8. CASE Reconcile
  <2>1. PICK kept \in Processes : kept = [proc EXCEPT !.loggedIn = TRUE, !.account = session]
    BY <1>t, <1>p
  <2>2. NotEnabled(kept) \subseteq Processes /\ Enabled(kept) \in Processes
    BY NotEnabledFacts, HelperTypes
  <2>3. SignedOut(proc, proc.fallback) \in Processes
    BY <1>t, HelperTypes DEF Processes
  <2> QED
    BY <1>t, <1>p, <1>8, <2>1, <2>2, <2>3, HelperTypes, Constants DEF Reconcile
<1>9. CASE UndoQuery
  BY <1>t, <1>q, <1>p, <1>9, HelperTypes, Constants DEF UndoQuery
<1>10. CASE BarrierSettings
  <2>1. [proc EXCEPT !.previous = stored, !.written = FALSE, !.phase = "retire"] \in Processes
    BY <1>t, Constants DEF Processes
  <2> QED
    BY <1>t, <1>q, <1>10, <2>1, HelperTypes, OutcomeTypes, Constants DEF BarrierSettings
<1>11. CASE LateWriteEnds
  BY <1>t, <1>p, <1>11, OutcomeTypes, Constants DEF LateWriteEnds
<1>12. CASE RepairLogout
  <2>1. ASSUME NEW p \in Quiesced(proc), proc' = BarrierFailed(SignedOut(p, "signed_out"))
        PROVE  proc' \in Processes
    BY <1>t, <1>q, <2>1, HelperTypes, OutcomeTypes, Constants
  <2>2. PICK p \in Processes : p = [proc EXCEPT !.known = (faults' = faults)]
    BY <1>t DEF Processes
  <2>3. [p EXCEPT !.phase = "restore"] \in Processes
    BY Constants DEF Processes
  <2>4. ASSUME NEW q \in Settled(p), proc' = BarrierFailed(q) PROVE proc' \in Processes
    BY <1>t, <2>4, OutcomeTypes
  <2> QED
    BY <1>12, <2>1, <2>2, <2>3, <2>4 DEF RepairLogout
<1>13. CASE RestoreProtection
  BY <1>t, <1>13, OutcomeTypes DEF RestoreProtection
<1>14. CASE CompleteLogin
  BY <1>t, <1>14, HelperTypes, <1>p DEF CompleteLogin
<1>15. CASE Boot
  BY <1>t, <1>15, Constants DEF Boot, Processes, Fresh, Ready, SignedOut, Enabled
<1>16. CASE LoadRecord
  BY <1>t, <1>16, Constants DEF LoadRecord, Processes, Fresh, Ready, SignedOut, Enabled
<1>17. CASE ProbeSession
  BY <1>t, <1>17, Constants DEF ProbeSession, Processes, Fresh, Ready, SignedOut, Enabled
<1>18. CASE AcquireConnector
  BY <1>t, <1>18, Constants DEF AcquireConnector, Processes, Fresh, Ready, SignedOut, Enabled
<1>19. CASE ReadSettings
  BY <1>t, <1>19, Constants DEF ReadSettings, Processes, Fresh, Ready, SignedOut, Enabled
<1>20. CASE StartServices
  BY <1>t, <1>20, Constants DEF StartServices, Processes, Fresh, Ready, SignedOut, Enabled
<1>21. CASE CoreAuthenticates
  BY <1>t, <1>21, Constants DEF CoreAuthenticates, Processes, Fresh, Ready, SignedOut, Enabled
<1>22. CASE UndoTunnel
  BY <1>t, <1>22, Constants DEF UndoTunnel, Processes, Fresh, Ready, SignedOut, Enabled
<1>23. CASE UndoLogout
  BY <1>t, <1>23, Constants DEF UndoLogout, Processes, Fresh, Ready, SignedOut, Enabled
<1>24. CASE CancelLogout
  BY <1>t, <1>24, Constants DEF CancelLogout, Processes, Fresh, Ready, SignedOut, Enabled
<1>25. CASE Teardown
  BY <1>t, <1>25, Constants DEF Teardown, Processes, Fresh, Ready, SignedOut, Enabled
<1>26. CASE LowerKillSwitch
  BY <1>t, <1>26, Constants DEF LowerKillSwitch, Processes, Fresh, Ready, SignedOut, Enabled
<1>27. CASE SubmitTwoFactor
  BY <1>t, <1>27, Constants DEF SubmitTwoFactor, Processes, Fresh, Ready, SignedOut, Enabled
<1>28. CASE BeginLogout
  BY <1>t, <1>28, Constants DEF BeginLogout, Processes, Fresh, Ready, SignedOut, Enabled
<1>29. CASE DisableKillSwitch
  BY <1>t, <1>29, Constants DEF DisableKillSwitch, Processes, Fresh, Ready, SignedOut, Enabled
<1>30. CASE Connect
  BY <1>t, <1>30, Constants DEF Connect, Processes, Fresh, Ready, SignedOut, Enabled
<1>31. CASE Disconnect
  BY <1>t, <1>31, Constants DEF Disconnect, Processes, Fresh, Ready, SignedOut, Enabled
<1>32. CASE RecordUnreadable
  BY <1>t, <1>32, Constants DEF RecordUnreadable, Processes, Fresh, Ready, SignedOut, Enabled
<1>33. CASE CoreRefuses
  BY <1>t, <1>33, Constants DEF CoreRefuses, Processes, Fresh, Ready, SignedOut, Enabled
<1>34. CASE AsksTwoFactor
  BY <1>t, <1>34, Constants DEF AsksTwoFactor, Processes, Fresh, Ready, SignedOut, Enabled
<1>35. CASE AuthenticationFails
  BY <1>t, <1>35, Constants DEF AuthenticationFails, Processes, Fresh, Ready, SignedOut, Enabled
<1>36. CASE ZeroInterrupted
  BY <1>t, <1>36, Constants DEF ZeroInterrupted, Processes, Fresh, Ready, SignedOut, Enabled
<1>37. CASE Leave
  BY <1>t, <1>37, Constants DEF Leave, Processes, Fresh, Ready, SignedOut, Enabled
<1>38. CASE OutgoingEnds
  BY <1>t, <1>38, Constants DEF OutgoingEnds, Processes, Fresh, Ready, SignedOut, Enabled
<1>39. CASE Crash
  BY <1>t, <1>39, Constants DEF Crash, Processes, Fresh, Ready, SignedOut, Enabled
<1>40. ASSUME NEW a \in Accounts, SignIn(a) PROVE proc' \in Processes
  BY <1>t, <1>40, Constants DEF SignIn, Processes
<1>41. ASSUME NEW k \in KillSwitches, SetKillSwitch(k) PROVE proc' \in Processes
  BY <1>t, <1>41, Constants DEF SetKillSwitch, Processes
<1>42. CASE CancelSignIn
  BY <1>t, <1>42, <1>28, Constants DEF CancelSignIn, Processes
<1>43. CASE UNCHANGED proc
  BY <1>t, <1>43
<1>44. (\E r \in Accounts : Refresh(r)) => UNCHANGED proc
  BY DEF Refresh
<1> QED
  BY <1>1, <1>2, <1>3, <1>4, <1>5, <1>6, <1>7, <1>8, <1>9, <1>10, <1>11, <1>12, <1>13, <1>14,
     <1>15, <1>16, <1>17, <1>18, <1>19, <1>20, <1>21, <1>22, <1>23, <1>24, <1>25, <1>26, <1>27,
     <1>28, <1>29, <1>30, <1>31, <1>32, <1>33, <1>34, <1>35, <1>36, <1>37, <1>38, <1>39, <1>40,
     <1>41, <1>42, <1>43, <1>44
  DEF Next, Startup, SignInSteps, SignOutSteps, Requests, SignOut, vars

\* The rest of the state.
Held ==
    /\ session \in MaybeAccount /\ tunnel \in MaybeAccount /\ stored \in KillSwitches
    /\ record \in Records /\ outgoing \in MaybeAccount \cup {"dead"}
    /\ faults \in 0..MaxFaults /\ wanted \in KillSwitches

\* Every step keeps the types of the rest of the state.
LEMMA HeldStep == TypeOK /\ [Next]_vars => Held'
<1> SUFFICES ASSUME TypeOK, [Next]_vars PROVE Held'
  OBVIOUS
<1>t. Held /\ proc \in Processes
  BY DEF TypeOK, Held
<1>f. faults' = faults \/ (faults < MaxFaults /\ faults' = faults + 1)
      => faults' \in 0..MaxFaults
  BY <1>t, AccountAssumption DEF Held
<1>r. {NoRecord, Stored(TRUE), Stored(FALSE)} \subseteq Records
  BY DEF NoRecord, Stored, Records
<1> USE AccountAssumption, Constants DEF Held, Fault, disk, ghosts
<1>1. CASE Boot
  BY <1>t, <1>1 DEF Boot
<1>2. CASE LoadRecord
  BY <1>t, <1>2 DEF LoadRecord
<1>3. CASE ProbeSession
  BY <1>t, <1>3 DEF ProbeSession
<1>4. CASE AcquireConnector
  BY <1>t, <1>4 DEF AcquireConnector
<1>5. CASE FinishAccountRestart
  <2>1. record' \in {record, NoRecord, Stored(TRUE), Stored(FALSE)}
    BY <1>5 DEF FinishAccountRestart, MayStore
  <2>2. record' \in Records
    BY <1>t, <1>r, <2>1
  <2>3. session' \in MaybeAccount /\ tunnel' \in MaybeAccount /\ stored' \in KillSwitches
        /\ outgoing' \in MaybeAccount \cup {"dead"} /\ wanted' \in KillSwitches
    BY <1>t, <1>5 DEF FinishAccountRestart
  <2>4. faults' \in 0..MaxFaults
    BY <1>f, <1>5 DEF FinishAccountRestart
  <2> QED
    BY <2>2, <2>3, <2>4
<1>6. CASE ReadSettings
  BY <1>t, <1>6 DEF ReadSettings
<1>7. CASE StartServices
  BY <1>t, <1>7 DEF StartServices
<1>8. CASE SignInSettings
  BY <1>t, <1>8 DEF SignInSettings
<1>9. CASE CoreAuthenticates
  BY <1>t, <1>9 DEF CoreAuthenticates, Processes
<1>10. CASE Reconcile
  BY <1>t, <1>10 DEF Reconcile
<1>11. CASE CompleteLogin
  BY <1>t, <1>11 DEF CompleteLogin
<1>12. CASE UndoTunnel
  <2>1. record' \in {record, NoRecord, Stored(TRUE), Stored(FALSE)}
    BY <1>12 DEF UndoTunnel, MayStore
  <2>2. record' \in Records
    BY <1>t, <1>r, <2>1
  <2>3. session' \in MaybeAccount /\ tunnel' \in MaybeAccount /\ stored' \in KillSwitches
        /\ outgoing' \in MaybeAccount \cup {"dead"} /\ wanted' \in KillSwitches
    BY <1>t, <1>12 DEF UndoTunnel
  <2>4. faults' \in 0..MaxFaults
    BY <1>f, <1>12 DEF UndoTunnel
  <2> QED
    BY <2>2, <2>3, <2>4
<1>13. CASE UndoLogout
  BY <1>t, <1>13 DEF UndoLogout
<1>14. CASE UndoQuery
  BY <1>t, <1>14 DEF UndoQuery
<1>15. CASE CancelLogout
  BY <1>t, <1>15 DEF CancelLogout
<1>16. CASE BarrierSettings
  BY <1>t, <1>16 DEF BarrierSettings
<1>17. CASE RetireServices
  BY <1>t, <1>17 DEF RetireServices
<1>18. CASE Teardown
  <2>1. record' \in {record, NoRecord, Stored(TRUE), Stored(FALSE)}
    BY <1>18 DEF Teardown, MayStore
  <2>2. record' \in Records
    BY <1>t, <1>r, <2>1
  <2>3. session' \in MaybeAccount /\ tunnel' \in MaybeAccount /\ stored' \in KillSwitches
        /\ outgoing' \in MaybeAccount \cup {"dead"} /\ wanted' \in KillSwitches
    BY <1>t, <1>18 DEF Teardown
  <2>4. faults' \in 0..MaxFaults
    BY <1>f, <1>18 DEF Teardown
  <2> QED
    BY <2>2, <2>3, <2>4
<1>19. CASE LowerKillSwitch
  BY <1>t, <1>19 DEF LowerKillSwitch
<1>20. CASE LateWriteEnds
  BY <1>t, <1>20 DEF LateWriteEnds
<1>21. CASE CoreLogout
  BY <1>t, <1>21 DEF CoreLogout
<1>22. CASE RepairLogout
  BY <1>t, <1>22 DEF RepairLogout
<1>23. CASE RestoreProtection
  BY <1>t, <1>23 DEF RestoreProtection, Processes
<1>24. CASE SubmitTwoFactor
  BY <1>t, <1>24 DEF SubmitTwoFactor
<1>25. CASE BeginLogout
  <2>1. record' \in {record, NoRecord, Stored(TRUE), Stored(FALSE)}
    BY <1>25 DEF BeginLogout, MayStore
  <2>2. record' \in Records
    BY <1>t, <1>r, <2>1
  <2>3. session' \in MaybeAccount /\ tunnel' \in MaybeAccount /\ stored' \in KillSwitches
        /\ outgoing' \in MaybeAccount \cup {"dead"} /\ wanted' \in KillSwitches
    BY <1>t, <1>25 DEF BeginLogout
  <2>4. faults' \in 0..MaxFaults
    BY <1>f, <1>25 DEF BeginLogout
  <2> QED
    BY <2>2, <2>3, <2>4
<1>26. CASE CancelSignIn
  BY <1>t, <1>25, <1>26 DEF CancelSignIn
<1>27. CASE DisableKillSwitch
  BY <1>t, <1>27 DEF DisableKillSwitch
<1>28. CASE Connect
  BY <1>t, <1>28 DEF Connect, Processes
<1>29. CASE Disconnect
  BY <1>t, <1>29 DEF Disconnect
<1>30. CASE RecordUnreadable
  BY <1>t, <1>30 DEF RecordUnreadable
<1>31. CASE StartupFails
  BY <1>t, <1>31 DEF StartupFails
<1>32. CASE CoreRefuses
  BY <1>t, <1>32 DEF CoreRefuses
<1>33. CASE AsksTwoFactor
  BY <1>t, <1>33 DEF AsksTwoFactor
<1>34. CASE AuthenticationFails
  BY <1>t, <1>34 DEF AuthenticationFails, Processes
<1>35. CASE CompleteLoginFails
  <2>1. record' \in {record, NoRecord, Stored(TRUE), Stored(FALSE)}
    BY <1>35 DEF CompleteLoginFails, MayStore
  <2>2. record' \in Records
    BY <1>t, <1>r, <2>1
  <2>3. session' \in MaybeAccount /\ tunnel' \in MaybeAccount /\ stored' \in KillSwitches
        /\ outgoing' \in MaybeAccount \cup {"dead"} /\ wanted' \in KillSwitches
    BY <1>t, <1>35 DEF CompleteLoginFails
  <2>4. faults' \in 0..MaxFaults
    BY <1>f, <1>35 DEF CompleteLoginFails
  <2> QED
    BY <2>2, <2>3, <2>4
<1>36. CASE ZeroInterrupted
  BY <1>t, <1>36 DEF ZeroInterrupted
<1>37. CASE Expire
  BY <1>t, <1>37 DEF Expire
<1>38. CASE Leave
  BY <1>t, <1>38 DEF Leave, Records, Processes
<1>39. CASE OutgoingEnds
  BY <1>t, <1>39 DEF OutgoingEnds, Died, Records, Processes
<1>40. CASE Crash
  BY <1>t, <1>40 DEF Crash, Died, Records, Processes
<1>41. ASSUME NEW a \in Accounts, SignIn(a) PROVE Held'
  BY <1>t, <1>41 DEF SignIn
<1>42. ASSUME NEW k \in KillSwitches, SetKillSwitch(k) PROVE Held'
  BY <1>t, <1>42 DEF SetKillSwitch
<1>43. ASSUME NEW r \in Accounts, Refresh(r) PROVE Held'
  BY <1>t, <1>43 DEF Refresh, MaybeAccount
<1>44. CASE UNCHANGED vars
  BY <1>t, <1>44 DEF vars
<1> HIDE AccountAssumption, Constants DEF Held, Fault, disk, ghosts
<1> QED
  BY <1>1, <1>2, <1>3, <1>4, <1>5, <1>6, <1>7, <1>8, <1>9, <1>10, <1>11, <1>12, <1>13, <1>14,
     <1>15, <1>16, <1>17, <1>18, <1>19, <1>20, <1>21, <1>22, <1>23, <1>24, <1>25, <1>26, <1>27,
     <1>28, <1>29, <1>30, <1>31, <1>32, <1>33, <1>34, <1>35, <1>36, <1>37, <1>38, <1>39, <1>40,
     <1>41, <1>42, <1>43, <1>44
  DEF Next, Startup, SignInSteps, SignOutSteps, Requests, SignOut

\* A ghost that says whether something happened.
LEMMA ResignedStep == TypeOK /\ [Next]_vars => resigned' \in BOOLEAN
<1> SUFFICES ASSUME TypeOK, [Next]_vars PROVE resigned' \in BOOLEAN
  OBVIOUS
<1> QED
  BY DEF TypeOK, Next, Startup, SignInSteps, SignOutSteps, Requests, SignOut, vars, disk, ghosts,
     Boot, LoadRecord, ProbeSession, AcquireConnector, FinishAccountRestart, ReadSettings,
     StartServices, SignInSettings, CoreAuthenticates, Reconcile, CompleteLogin, UndoTunnel,
     UndoLogout, UndoQuery, CancelLogout, BarrierSettings, RetireServices, Teardown,
     LowerKillSwitch, LateWriteEnds, CoreLogout, RepairLogout, RestoreProtection, SubmitTwoFactor,
     BeginLogout, CancelSignIn, DisableKillSwitch, Connect, Disconnect, RecordUnreadable,
     StartupFails, CoreRefuses, AsksTwoFactor, AuthenticationFails, CompleteLoginFails,
     ZeroInterrupted, Expire, Leave, OutgoingEnds, Crash, SignIn, SetKillSwitch, Refresh

\* Every step keeps the types.
LEMMA TypeStep == TypeOK /\ [Next]_vars => TypeOK'
BY ProcessStep, HeldStep, ResignedStep DEF TypeOK, Held

\* A published state in which a sign-out is admitted.
Asked ==
    Published(proc) \notin {"authentication_unknown", "settings_unavailable", "protection_unknown"}

\* p and q differ at most in what is published and in the services.
Kept(p, q) ==
    /\ q.phase = p.phase /\ q.starting = p.starting /\ q.restartRequired = p.restartRequired
    /\ q.servicesStarted = p.servicesStarted /\ q.refreshing = p.refreshing
    /\ q.fallback = p.fallback /\ q.account = p.account

\* A sign-out that cannot tell the protection ends as signed out.
LEMMA UnknownFacts ==
    ASSUME NEW p \in Processes, NEW q \in UnknownProtection(p)
    PROVE  /\ q \in Processes /\ Kept(p, q)
           /\ ~q.loggedIn /\ q.authState = "protection_unknown"
<1>1. PICK r \in Quiesced(p) : q = SignedOut([r EXCEPT !.killSwitch = 0], "protection_unknown")
  BY DEF UnknownProtection
<1>2. r \in Processes /\ Alike(p, r) /\ r.servicesStarted = p.servicesStarted
      /\ r.refreshing = p.refreshing
  BY QuiescedFacts
<1>3. Kept(p, q) /\ ~q.loggedIn /\ q.authState = "protection_unknown"
  BY <1>1, <1>2 DEF Processes, Alike, Kept, SignedOut
<1> QED
  BY <1>3, OutcomeTypes

\* A sign-out that restored the protection claims a session only if it is known.
LEMMA SettledFacts ==
    ASSUME NEW p \in Processes, NEW q \in Settled(p)
    PROVE  /\ q \in Processes /\ Kept(p, q) /\ q.killSwitch = p.previous
           /\ \/ p.known /\ q.loggedIn /\ q.authState = "account_restart_required"
              \/ ~q.loggedIn /\ q.authState = "authentication_unknown"
<1>1. PICK restored \in Processes : restored = [p EXCEPT !.killSwitch = p.previous]
  BY DEF Processes
<1>2. CASE /\ q = [restored EXCEPT !.loggedIn = TRUE, !.authState = "account_restart_required"]
           /\ p.known
  BY <1>1, <1>2, OutcomeTypes DEF Processes, Kept
<1>3. ASSUME NEW r \in Quiesced(restored), q = SignedOut(r, "authentication_unknown")
      PROVE  Kept(p, q) /\ q.killSwitch = p.previous
             /\ ~q.loggedIn /\ q.authState = "authentication_unknown"
  <2>1. r \in Processes /\ Alike(restored, r) /\ r.servicesStarted = restored.servicesStarted
        /\ r.refreshing = restored.refreshing
    BY <1>1, QuiescedFacts
  <2> QED
    BY <1>1, <1>3, <2>1 DEF Processes, Alike, Kept, SignedOut
<1> QED
  BY <1>1, <1>2, <1>3, OutcomeTypes DEF Settled

\* Every step keeps the invariant.
LEMMA SafeStep == TypeOK /\ Safe /\ [Next]_vars => Safe'
<1> SUFFICES ASSUME TypeOK, Safe, [Next]_vars PROVE Safe'
  OBVIOUS
<1>p. proc \in Processes /\ proc' \in Processes
  BY ProcessStep DEF TypeOK
<1>n. \A p \in NotEnabled(proc) :
          /\ p \in Processes /\ Alike(proc, p)
          /\ p.servicesStarted /\ p.refreshing \in {proc.refreshing, proc.account}
  BY <1>p, NotEnabledFacts
<1>q. \A p \in Quiesced(proc) :
          /\ p \in Processes /\ Alike(proc, p)
          /\ p.servicesStarted = proc.servicesStarted /\ p.refreshing = proc.refreshing
  BY <1>p, QuiescedFacts
<1>u. \A p \in UnknownProtection(proc) :
          /\ p \in Processes /\ Kept(proc, p)
          /\ ~p.loggedIn /\ p.authState = "protection_unknown"
  BY <1>p, UnknownFacts
<1>b. ASSUME proc.phase \in BarrierPhases, NEW p
      PROVE  BarrierFailed(p) = IF p.starting THEN Fresh ELSE Ready(p)
  BY <1>b DEF BarrierFailed, FailedStart, Safe, Recording
<1> USE <1>p, AccountAssumption
    DEF Writers, Waits, Leaving, Asked, Admitted, Published, RecoveryAuthStates, AtWork,
        Processes, Records, Stored, NoRecord, Down, Undoing, SigningIn, TornDown, Lowering,
        BarrierPhases, Fresh, Ready, SignedOut, Enabled, Fault, disk, ghosts, TypeOK,
        MaybeAccount, KillSwitches, Alike, Kept
<1>1. CASE Boot
  BY <1>1
  DEF Safe, Stage, Recording, Sessions, Protection, TunnelAnswered, NeverStranded, Boot
<1>2. CASE LoadRecord
  <2>1. ASSUME proc.phase = "boot", record.by # "outgoing",
               proc' = [proc EXCEPT !.phase = "probe", !.restartRequired = (record # NoRecord)],
               UNCHANGED <<disk, outgoing, ghosts>>
        PROVE  Safe'
    <3>0. proc'.restartRequired <=> record.by # "nobody"
      BY <2>1 DEF Safe, Recording
    <3>1. Stage'
      BY <2>1, <3>0 DEF Safe, Stage, Recording
    <3>2. Recording'
      BY <2>1, <3>0 DEF Safe, Stage, Recording
    <3>3. Sessions'
      BY <2>1, <3>0 DEF Safe, Stage, Recording, Sessions, TunnelAnswered
    <3>4. Protection'
      BY <2>1, <3>0 DEF Safe, Stage, Recording, Protection
    <3>5. TunnelAnswered'
      BY <2>1, <3>0 DEF Safe, Stage, Recording, Sessions, TunnelAnswered
    <3>6. NeverStranded'
      BY <2>1, <3>0 DEF Safe, Stage, Recording, Sessions, NeverStranded
    <3> QED
      BY <3>1, <3>2, <3>3, <3>4, <3>5, <3>6 DEF Safe
  <2>2. ASSUME proc.phase = "boot", record.by = "outgoing", proc' = Fresh,
               UNCHANGED <<disk, outgoing, ghosts>>
        PROVE  Safe'
    BY <2>2
    DEF Safe, Stage, Recording, Sessions, Protection, TunnelAnswered, NeverStranded
  <2> HIDE DEF Processes, TypeOK, Alike, Kept
  <2> QED
    BY <1>2, <2>1, <2>2 DEF LoadRecord, RetiredProcessConfirmed
<1>3. CASE RecordUnreadable
  BY <1>3
  DEF Safe, Stage, Recording, Sessions, Protection, TunnelAnswered, NeverStranded, RecordUnreadable
<1>4. CASE ProbeSession
  <2>0. proc'.loggedIn <=> session # NoAccount
    BY <1>4 DEF Safe, Recording, ProbeSession
  <2>1. Stage'
    BY <1>4, <2>0 DEF Safe, Stage, Recording, ProbeSession
  <2>2. Recording'
    BY <1>4, <2>0 DEF Safe, Stage, Recording, ProbeSession
  <2>3. Sessions'
    BY <1>4, <2>0 DEF Safe, Stage, Recording, Sessions, TunnelAnswered, ProbeSession
  <2>4. Protection'
    BY <1>4, <2>0 DEF Safe, Stage, Recording, Protection, ProbeSession
  <2>5. TunnelAnswered'
    BY <1>4, <2>0 DEF Safe, Stage, Recording, Sessions, TunnelAnswered, ProbeSession
  <2>6. NeverStranded'
    BY <1>4, <2>0 DEF Safe, Stage, Recording, Sessions, NeverStranded, ProbeSession
  <2> QED
    BY <2>1, <2>2, <2>3, <2>4, <2>5, <2>6 DEF Safe
<1>5. CASE AcquireConnector
  <2>1. ASSUME proc.phase = "connector", record = NoRecord, proc.loggedIn,
               proc' = [proc EXCEPT !.phase = "services", !.authState = "signed_in"],
               UNCHANGED <<disk, outgoing, ghosts>>
        PROVE  Safe'
    BY <2>1
    DEF Safe, Stage, Recording, Sessions, Protection, TunnelAnswered, NeverStranded
  <2>2. ASSUME proc.phase = "connector", record = NoRecord, ~proc.loggedIn,
               proc' = [proc EXCEPT !.phase = "settings", !.authState = "signed_out"],
               UNCHANGED <<disk, outgoing, ghosts>>
        PROVE  Safe'
    BY <2>2
    DEF Safe, Stage, Recording, Sessions, Protection, TunnelAnswered, NeverStranded
  <2>3. ASSUME proc.phase = "connector", record # NoRecord,
               proc' = [proc EXCEPT !.phase = "load", !.starting = TRUE],
               UNCHANGED <<disk, outgoing, ghosts>>
        PROVE  Safe'
    BY <2>3
    DEF Safe, Stage, Recording, Sessions, Protection, TunnelAnswered, NeverStranded
  <2>4. ASSUME proc.phase = "connector", record # NoRecord, proc' = Fresh,
               UNCHANGED <<disk, outgoing, ghosts>>
        PROVE  Safe'
    BY <2>4
    DEF Safe, Stage, Recording, Sessions, Protection, TunnelAnswered, NeverStranded
  <2> HIDE DEF Processes, TypeOK, Alike, Kept
  <2> QED
    BY <1>5, <2>1, <2>2, <2>3, <2>4 DEF AcquireConnector
<1>6. CASE StartupFails
  <2>1. ASSUME proc.phase \in {"probe", "connector", "confirm", "services"}, record # NoRecord,
               proc' = Fresh, UNCHANGED <<disk, outgoing, ghosts>>
        PROVE  Safe'
    BY <2>1
    DEF Safe, Stage, Recording, Sessions, Protection, TunnelAnswered, NeverStranded
  <2>2. ASSUME proc.phase \in {"probe", "connector", "confirm"}, record = NoRecord,
               proc' = [proc EXCEPT !.phase = "failed", !.starting = FALSE],
               UNCHANGED <<disk, outgoing, ghosts>>
        PROVE  Safe'
    BY <2>2
    DEF Safe, Stage, Recording, Sessions, Protection, TunnelAnswered, NeverStranded
  <2>3. ASSUME proc.phase = "services", record = NoRecord, NEW p \in Processes, Alike(proc, p),
               p.servicesStarted, p.refreshing \in {proc.refreshing, proc.account},
               proc' = [p EXCEPT !.phase = "failed", !.starting = FALSE],
               UNCHANGED <<disk, outgoing, ghosts>>
        PROVE  Safe'
    BY <2>3
    DEF Safe, Stage, Recording, Sessions, Protection, TunnelAnswered, NeverStranded
  <2>4. CASE proc.phase = "services"
    BY <1>6, <1>n, <2>1, <2>3, <2>4 DEF StartupFails, FailedStart, Alike
  <2>5. CASE proc.phase # "services"
    BY <1>6, <2>1, <2>2, <2>5 DEF StartupFails, FailedStart
  <2> HIDE DEF Processes, TypeOK, Alike, Kept
  <2> QED
    BY <2>4, <2>5
<1>7. CASE FinishAccountRestart
  <2>1. ASSUME proc.phase = "confirm", session # NoAccount, proc' = Fresh,
               UNCHANGED <<disk, outgoing, ghosts>>
        PROVE  Safe'
    BY <2>1
    DEF Safe, Stage, Recording, Sessions, Protection, TunnelAnswered, NeverStranded
  <2>2. ASSUME proc.phase = "confirm", session = NoAccount, record' = NoRecord,
               proc' = [proc EXCEPT !.phase = "settings", !.starting = FALSE,
                          !.restartRequired = FALSE, !.loggedIn = FALSE], resigned' = FALSE,
               UNCHANGED <<session, stored, tunnel, outgoing, wanted>>
        PROVE  Safe'
    BY <2>2
    DEF Safe, Stage, Recording, Sessions, Protection, TunnelAnswered, NeverStranded
  <2>3. ASSUME proc.phase = "confirm", session = NoAccount, record' = NoRecord,
               proc' = [proc EXCEPT !.phase = "failed", !.starting = FALSE],
               UNCHANGED <<session, stored, tunnel, outgoing, wanted>>
        PROVE  Safe'
    BY <2>3
    DEF Safe, Stage, Recording, Sessions, Protection, TunnelAnswered, NeverStranded
  <2>4. ASSUME proc.phase = "confirm", record' = record, record # NoRecord, proc' = Fresh,
               resigned' = (resigned /\ record' # NoRecord),
               UNCHANGED <<session, stored, tunnel, outgoing, wanted>>
        PROVE  Safe'
    BY <2>4
    DEF Safe, Stage, Recording, Sessions, Protection, TunnelAnswered, NeverStranded
  <2> HIDE DEF Processes, TypeOK, Alike, Kept
  <2> QED
    BY <1>7, <2>1, <2>2, <2>3, <2>4 DEF FinishAccountRestart, FailedStart
<1>8. CASE ReadSettings
  <2>1. ASSUME proc.phase = "settings", proc' = Ready([proc EXCEPT !.killSwitch = stored]),
               UNCHANGED <<disk, outgoing, ghosts>>
        PROVE  Safe'
    BY <2>1
    DEF Safe, Stage, Recording, Sessions, Protection, TunnelAnswered, NeverStranded
  <2>2. ASSUME proc.phase = "settings",
               proc' = Ready([proc EXCEPT !.killSwitch = 0, !.authState = "settings_unavailable"]),
               UNCHANGED <<disk, outgoing, ghosts>>
        PROVE  Safe'
    BY <2>2
    DEF Safe, Stage, Recording, Sessions, Protection, TunnelAnswered, NeverStranded
  <2> HIDE DEF Processes, TypeOK, Alike, Kept
  <2> QED
    BY <1>8, <2>1, <2>2 DEF ReadSettings
<1>9. CASE StartServices
  BY <1>9
  DEF Safe, Stage, Recording, Sessions, Protection, TunnelAnswered, NeverStranded, StartServices
<1>10. ASSUME NEW a \in Accounts, SignIn(a) PROVE Safe'
  BY <1>10
  DEF Safe, Stage, Recording, Sessions, Protection, TunnelAnswered, NeverStranded, SignIn,
     CredentialsAdmitted
<1>11. CASE SignInSettings
  <2>1. ASSUME proc.phase = "signIn",
               proc' = Ready([proc EXCEPT !.killSwitch = 2, !.authState = "signed_out"]),
               wanted' = stored, UNCHANGED <<disk, outgoing, resigned>>
        PROVE  Safe'
    BY <2>1
    DEF Safe, Stage, Recording, Sessions, Protection, TunnelAnswered, NeverStranded
  <2>2. ASSUME proc.phase = "signIn",
               proc' = [proc EXCEPT !.killSwitch = stored, !.authState = "signing_in",
                          !.fallback = "signed_out", !.phase = "authenticate"], wanted' = stored,
               UNCHANGED <<disk, outgoing, resigned>>
        PROVE  Safe'
    BY <2>2
    DEF Safe, Stage, Recording, Sessions, Protection, TunnelAnswered, NeverStranded
  <2>3. ASSUME proc.phase = "signIn", proc' = Ready(proc), UNCHANGED <<disk, outgoing, ghosts>>
        PROVE  Safe'
    BY <2>3
    DEF Safe, Stage, Recording, Sessions, Protection, TunnelAnswered, NeverStranded
  <2> HIDE DEF Processes, TypeOK, Alike, Kept
  <2> QED
    BY <1>11, <2>1, <2>2, <2>3 DEF SignInSettings
<1>12. CASE SubmitTwoFactor
  BY <1>12
  DEF Safe, Stage, Recording, Sessions, Protection, TunnelAnswered, NeverStranded, SubmitTwoFactor
<1>13. CASE CoreAuthenticates
  BY <1>13
  DEF Safe, Stage, Recording, Sessions, Protection, TunnelAnswered, NeverStranded, CoreAuthenticates
<1>14. CASE CoreRefuses
  BY <1>14
  DEF Safe, Stage, Recording, Sessions, Protection, TunnelAnswered, NeverStranded, CoreRefuses
<1>15. CASE AsksTwoFactor
  BY <1>15
  DEF Safe, Stage, Recording, Sessions, Protection, TunnelAnswered, NeverStranded, AsksTwoFactor
<1>16. CASE AuthenticationFails
  BY <1>16
  DEF Safe, Stage, Recording, Sessions, Protection, TunnelAnswered, NeverStranded,
     AuthenticationFails
<1>17. CASE Reconcile
  <2>1. ASSUME proc.phase = "reconcile", session = NoAccount,
               proc' = Ready(SignedOut(proc, proc.fallback)), UNCHANGED <<disk, outgoing, ghosts>>
        PROVE  Safe'
    BY <2>1
    DEF Safe, Stage, Recording, Sessions, Protection, TunnelAnswered, NeverStranded
  <2>2. ASSUME proc.phase = "reconcile", session # NoAccount,
               proc' = Ready([Enabled([proc EXCEPT !.loggedIn = TRUE, !.account = session]) EXCEPT
                  !.authState = "signed_in"]),
               UNCHANGED <<disk, outgoing, ghosts>>
        PROVE  Safe'
    BY <2>2
    DEF Safe, Stage, Recording, Sessions, Protection, TunnelAnswered, NeverStranded
  <2>3. ASSUME proc.phase = "reconcile", session # NoAccount, NEW kept \in Processes,
               kept = [proc EXCEPT !.loggedIn = TRUE, !.account = session], NEW p \in Processes,
               Alike(kept, p), p.servicesStarted, p.refreshing \in {kept.refreshing, session},
               proc' = Ready([p EXCEPT !.authState = "signed_in_degraded"]),
               UNCHANGED <<disk, outgoing, ghosts>>
        PROVE  Safe'
    BY <2>3
    DEF Safe, Stage, Recording, Sessions, Protection, TunnelAnswered, NeverStranded
  <2>4. ASSUME proc.phase = "reconcile", proc' = Ready(SignedOut(proc, "authentication_unknown")),
               UNCHANGED <<disk, outgoing, ghosts>>
        PROVE  Safe'
    BY <2>4
    DEF Safe, Stage, Recording, Sessions, Protection, TunnelAnswered, NeverStranded
  <2>5. PICK kept \in Processes : kept = [proc EXCEPT !.loggedIn = TRUE, !.account = session]
    BY <1>p DEF TypeOK
  <2>6. \A p \in NotEnabled(kept) :
            /\ p \in Processes /\ Alike(kept, p)
            /\ p.servicesStarted /\ p.refreshing \in {kept.refreshing, session}
    <3>1. kept.account = session
      BY <2>5
    <3> HIDE DEF Processes, Alike
    <3> QED
      BY <2>5, <3>1, NotEnabledFacts
  <2> HIDE DEF Processes, TypeOK, Alike, Kept
  <2> QED
    BY <1>17, <2>1, <2>2, <2>3, <2>4, <2>5, <2>6 DEF Reconcile
<1>18. CASE CompleteLogin
  BY <1>18
  DEF Safe, Stage, Recording, Sessions, Protection, TunnelAnswered, NeverStranded, CompleteLogin
<1>19. CASE CompleteLoginFails
  <2>1. ASSUME proc.phase = "complete", NEW p \in Processes, Alike(proc, p), p.servicesStarted,
               p.refreshing \in {proc.refreshing, proc.account}, record' = Stored(FALSE),
               proc' = [p EXCEPT !.restartRequired = TRUE, !.phase = "undo"],
               UNCHANGED <<session, stored, tunnel, outgoing, ghosts>>
        PROVE  Safe'
    BY <2>1
    DEF Safe, Stage, Recording, Sessions, Protection, TunnelAnswered, NeverStranded
  <2>2. ASSUME proc.phase = "complete", NEW p \in Processes, Alike(proc, p), p.servicesStarted,
               p.refreshing \in {proc.refreshing, proc.account},
               record' \in {record, Stored(FALSE)}, proc' = Ready(p),
               UNCHANGED <<session, stored, tunnel, outgoing, ghosts>>
        PROVE  Safe'
    BY <2>2
    DEF Safe, Stage, Recording, Sessions, Protection, TunnelAnswered, NeverStranded
  <2> HIDE DEF Processes, TypeOK, Alike, Kept
  <2> QED
    BY <1>19, <1>n, <2>1, <2>2 DEF CompleteLoginFails, MayStore
<1>20. CASE UndoTunnel
  BY <1>20
  DEF Safe, Stage, Recording, Sessions, Protection, TunnelAnswered, NeverStranded, UndoTunnel,
     MayStore
<1>21. CASE UndoLogout
  BY <1>21
  DEF Safe, Stage, Recording, Sessions, Protection, TunnelAnswered, NeverStranded, UndoLogout
<1>22. CASE UndoQuery
  <2>1. ASSUME proc.phase = "undoQuery", session = NoAccount, NEW p \in Processes, Alike(proc, p),
               p.servicesStarted = proc.servicesStarted, p.refreshing = proc.refreshing,
               proc' = Ready(SignedOut(p, "signed_out")), UNCHANGED <<disk, outgoing, ghosts>>
        PROVE  Safe'
    BY <2>1
    DEF Safe, Stage, Recording, Sessions, Protection, TunnelAnswered, NeverStranded
  <2>2. ASSUME proc.phase = "undoQuery", session # NoAccount,
               proc' = Ready([proc EXCEPT !.loggedIn = TRUE, !.authState = "signed_in_degraded"]),
               UNCHANGED <<disk, outgoing, ghosts>>
        PROVE  Safe'
    BY <2>2
    DEF Safe, Stage, Recording, Sessions, Protection, TunnelAnswered, NeverStranded
  <2>3. ASSUME proc.phase = "undoQuery", NEW p \in Processes, Alike(proc, p),
               p.servicesStarted = proc.servicesStarted, p.refreshing = proc.refreshing,
               proc' = Ready(SignedOut(p, "authentication_unknown")),
               UNCHANGED <<disk, outgoing, ghosts>>
        PROVE  Safe'
    BY <2>3
    DEF Safe, Stage, Recording, Sessions, Protection, TunnelAnswered, NeverStranded
  <2> HIDE DEF Processes, TypeOK, Alike, Kept
  <2> QED
    BY <1>22, <1>q, <2>1, <2>2, <2>3 DEF UndoQuery
<1>23. ASSUME proc.phase = "ready", Asked, BeginLogout PROVE Safe'
  <2>1. ASSUME proc.phase = "ready", Asked, resigned' = (resigned \/ session = NoAccount),
               record' = Stored(FALSE),
               proc' = [[proc EXCEPT !.restartRequired = TRUE] EXCEPT !.phase = "load"],
               UNCHANGED <<session, stored, tunnel, outgoing, wanted>>
        PROVE  Safe'
    <3>1. Stage'
      BY <2>1 DEF Safe, Stage, Recording
    <3>2. Recording'
      BY <2>1 DEF Safe, Stage, Recording
    <3>3. Sessions'
      BY <2>1 DEF Safe, Stage, Recording, Sessions, TunnelAnswered
    <3>4. Protection'
      BY <2>1 DEF Safe, Stage, Recording, Protection
    <3>5. TunnelAnswered'
      BY <2>1 DEF Safe, Stage, Recording, Sessions, TunnelAnswered
    <3>6. NeverStranded'
      BY <2>1 DEF Safe, Stage, Recording, Sessions, NeverStranded
    <3> QED
      BY <3>1, <3>2, <3>3, <3>4, <3>5, <3>6 DEF Safe
  <2>2. ASSUME proc.phase = "ready", Asked, resigned' = (resigned \/ session = NoAccount),
               record' \in {record, Stored(FALSE)}, proc' = [proc EXCEPT !.restartRequired = TRUE],
               UNCHANGED <<session, stored, tunnel, outgoing, wanted>>
        PROVE  Safe'
    BY <2>2
    DEF Safe, Stage, Recording, Sessions, Protection, TunnelAnswered, NeverStranded
  <2> HIDE DEF Processes, TypeOK, Alike, Kept
  <2> QED
    BY <1>23, <2>1, <2>2 DEF BeginLogout, MayStore
<1>24. CASE CancelLogout
  <2>1. ASSUME proc.phase = "cancel", session' = NoAccount,
               proc' = Ready(SignedOut(proc, "signed_out")),
               UNCHANGED <<record, stored, tunnel, outgoing, ghosts>>
        PROVE  Safe'
    BY <2>1
    DEF Safe, Stage, Recording, Sessions, Protection, TunnelAnswered, NeverStranded
  <2>2. ASSUME proc.phase = "cancel", session' \in {session, NoAccount},
               proc' = [proc EXCEPT !.phase = "reconcile"],
               UNCHANGED <<record, stored, tunnel, outgoing, ghosts>>
        PROVE  Safe'
    BY <2>2
    DEF Safe, Stage, Recording, Sessions, Protection, TunnelAnswered, NeverStranded
  <2> HIDE DEF Processes, TypeOK, Alike, Kept
  <2> QED
    BY <1>24, <2>1, <2>2 DEF CancelLogout
<1>25. CASE BarrierSettings
  <2>1. ASSUME proc.phase = "load",
               proc' = [proc EXCEPT !.previous = stored, !.written = FALSE, !.phase = "retire"],
               UNCHANGED <<disk, outgoing, ghosts>>
        PROVE  Safe'
    BY <2>1
    DEF Safe, Stage, Recording, Sessions, Protection, TunnelAnswered, NeverStranded
  <2>2. ASSUME proc.phase = "load", proc.starting, proc' = Fresh,
               UNCHANGED <<disk, outgoing, ghosts>>
        PROVE  Safe'
    BY <2>2
    DEF Safe, Stage, Recording, Sessions, Protection, TunnelAnswered, NeverStranded
  <2>3. ASSUME proc.phase = "load", ~proc.starting, proc' = Ready(proc),
               UNCHANGED <<disk, outgoing, ghosts>>
        PROVE  Safe'
    BY <2>3
    DEF Safe, Stage, Recording, Sessions, Protection, TunnelAnswered, NeverStranded
  <2>4. ASSUME proc.phase = "load", ~proc.starting, NEW p \in Processes, Alike(proc, p),
               p.servicesStarted = proc.servicesStarted, p.refreshing = proc.refreshing,
               proc' = Ready(SignedOut(p, "expired")), UNCHANGED <<disk, outgoing, ghosts>>
        PROVE  Safe'
    BY <2>4
    DEF Safe, Stage, Recording, Sessions, Protection, TunnelAnswered, NeverStranded
  <2>5. \A p \in {proc} \cup {SignedOut(q, "expired") : q \in Quiesced(proc)} :
            BarrierFailed(p) = IF proc.starting THEN Fresh ELSE Ready(p)
    <3>1. \A q \in Quiesced(proc) : SignedOut(q, "expired").starting = proc.starting
      BY <1>q DEF SignedOut, Alike
    <3> HIDE DEF SignedOut, Ready, Processes, Alike, Fresh
    <3> QED
      BY <1>b, <1>25, <3>1 DEF BarrierSettings, BarrierPhases
  <2> HIDE DEF Processes, TypeOK, Alike, Kept, SignedOut, Ready, Fresh
  <2> QED
    BY <1>25, <1>q, <2>1, <2>2, <2>3, <2>4, <2>5 DEF BarrierSettings
<1>26. CASE RetireServices
  <2>1. ASSUME proc.phase = "retire",
               proc' = [proc EXCEPT !.services = "disabled", !.phase = "teardown"],
               UNCHANGED <<disk, outgoing, ghosts>>
        PROVE  Safe'
    BY <2>1
    DEF Safe, Stage, Recording, Sessions, Protection, TunnelAnswered, NeverStranded
  <2>2. ASSUME proc.phase = "retire", NEW p \in Processes, Alike(proc, p),
               p.servicesStarted = proc.servicesStarted, p.refreshing = proc.refreshing,
               proc' = [p EXCEPT !.phase = "repair"], UNCHANGED <<disk, outgoing, ghosts>>
        PROVE  Safe'
    BY <2>2
    DEF Safe, Stage, Recording, Sessions, Protection, TunnelAnswered, NeverStranded
  <2> HIDE DEF Processes, TypeOK, Alike, Kept
  <2> QED
    BY <1>26, <1>q, <2>1, <2>2 DEF RetireServices
<1>27. CASE Teardown
  <2>1. ASSUME proc.phase = "teardown", tunnel' = NoAccount, record' = Stored(TRUE),
               proc.previous = 0, proc' = [proc EXCEPT !.killSwitch = 0, !.phase = "logout"],
               UNCHANGED <<session, stored, outgoing, ghosts>>
        PROVE  Safe'
    BY <2>1
    DEF Safe, Stage, Recording, Sessions, Protection, TunnelAnswered, NeverStranded
  <2>2. ASSUME proc.phase = "teardown", tunnel' = NoAccount, record' = Stored(TRUE),
               proc' = [proc EXCEPT !.phase = "zero"],
               UNCHANGED <<session, stored, outgoing, ghosts>>
        PROVE  Safe'
    BY <2>2
    DEF Safe, Stage, Recording, Sessions, Protection, TunnelAnswered, NeverStranded
  <2>3. ASSUME proc.phase = "teardown", tunnel' \in {tunnel, NoAccount}, record' = record,
               proc' = [proc EXCEPT !.phase = "repair"],
               UNCHANGED <<session, stored, outgoing, ghosts>>
        PROVE  Safe'
    BY <2>3
    DEF Safe, Stage, Recording, Sessions, Protection, TunnelAnswered, NeverStranded
  <2>4. ASSUME proc.phase = "teardown", tunnel' = NoAccount, record' = Stored(TRUE),
               proc' = [proc EXCEPT !.phase = "repair"],
               UNCHANGED <<session, stored, outgoing, ghosts>>
        PROVE  Safe'
    BY <2>4
    DEF Safe, Stage, Recording, Sessions, Protection, TunnelAnswered, NeverStranded
  <2> HIDE DEF Processes, TypeOK, Alike, Kept
  <2> QED
    BY <1>27, <2>1, <2>2, <2>3, <2>4 DEF Teardown, MayStore
<1>28. CASE LowerKillSwitch
  <2>1. ASSUME proc.phase = "zero", stored' = 0,
               proc' = [proc EXCEPT !.written = TRUE, !.killSwitch = 0, !.phase = "logout"],
               UNCHANGED <<session, record, tunnel, outgoing, ghosts>>
        PROVE  Safe'
    BY <2>1
    DEF Safe, Stage, Recording, Sessions, Protection, TunnelAnswered, NeverStranded
  <2>2. ASSUME proc.phase = "zero", stored' \in {stored, 0},
               proc' = [proc EXCEPT !.written = TRUE, !.phase = "repair"],
               UNCHANGED <<session, record, tunnel, outgoing, ghosts>>
        PROVE  Safe'
    BY <2>2
    DEF Safe, Stage, Recording, Sessions, Protection, TunnelAnswered, NeverStranded
  <2> HIDE DEF Processes, TypeOK, Alike, Kept
  <2> QED
    BY <1>28, <2>1, <2>2 DEF LowerKillSwitch
<1>29. CASE ZeroInterrupted
  BY <1>29
  DEF Safe, Stage, Recording, Sessions, Protection, TunnelAnswered, NeverStranded, ZeroInterrupted
<1>30. CASE LateWriteEnds
  <2>1. ASSUME proc.phase = "late", stored' \in {stored, 0},
               proc' = [proc EXCEPT !.phase = "repair"],
               UNCHANGED <<session, record, tunnel, outgoing, ghosts>>
        PROVE  Safe'
    BY <2>1
    DEF Safe, Stage, Recording, Sessions, Protection, TunnelAnswered, NeverStranded
  <2>2. ASSUME proc.phase = "late", proc.starting, stored' \in {stored, 0}, proc' = Fresh,
               UNCHANGED <<session, record, tunnel, outgoing, ghosts>>
        PROVE  Safe'
    BY <2>2
    DEF Safe, Stage, Recording, Sessions, Protection, TunnelAnswered, NeverStranded
  <2>3. ASSUME proc.phase = "late", ~proc.starting, stored' \in {stored, 0}, NEW p \in Processes,
               Kept(proc, p), ~p.loggedIn, p.authState = "protection_unknown", proc' = Ready(p),
               UNCHANGED <<session, record, tunnel, outgoing, ghosts>>
        PROVE  Safe'
    BY <2>3
    DEF Safe, Stage, Recording, Sessions, Protection, TunnelAnswered, NeverStranded
  <2>4. \A p : Kept(proc, p) => BarrierFailed(p) = IF proc.starting THEN Fresh ELSE Ready(p)
    BY <1>b, <1>30 DEF LateWriteEnds, Kept
  <2> HIDE DEF Processes, TypeOK, Kept, Ready, Fresh
  <2> QED
    BY <1>30, <1>u, <2>1, <2>2, <2>3, <2>4 DEF LateWriteEnds
<1>31. CASE CoreLogout
  <2>1. ASSUME proc.phase = "logout", proc.starting, session' = NoAccount,
               proc' = [SignedOut(proc, "signed_out") EXCEPT !.phase = "confirm"],
               wanted' = stored, UNCHANGED <<record, stored, tunnel, outgoing, resigned>>
        PROVE  Safe'
    BY <2>1
    DEF Safe, Stage, Recording, Sessions, Protection, TunnelAnswered, NeverStranded
  <2>2. ASSUME proc.phase = "logout", ~proc.starting, session' = NoAccount,
               proc' = Ready(SignedOut(proc, "signed_out")), wanted' = stored,
               UNCHANGED <<record, stored, tunnel, outgoing, resigned>>
        PROVE  Safe'
    BY <2>2
    DEF Safe, Stage, Recording, Sessions, Protection, TunnelAnswered, NeverStranded
  <2>3. ASSUME proc.phase = "logout", session' \in {session, NoAccount},
               proc' = [proc EXCEPT !.phase = "repair"],
               UNCHANGED <<record, stored, tunnel, outgoing, ghosts>>
        PROVE  Safe'
    BY <2>3
    DEF Safe, Stage, Recording, Sessions, Protection, TunnelAnswered, NeverStranded
  <2> HIDE DEF Processes, TypeOK, Alike, Kept
  <2> QED
    BY <1>31, <2>1, <2>2, <2>3 DEF CoreLogout
<1>32. CASE RepairLogout
  <2>1. ASSUME proc.phase = "repair", proc.starting, wanted' \in {stored, wanted}, proc' = Fresh,
               UNCHANGED <<disk, outgoing, resigned>>
        PROVE  Safe'
    BY <2>1
    DEF Safe, Stage, Recording, Sessions, Protection, TunnelAnswered, NeverStranded
  <2>2. ASSUME proc.phase = "repair", ~proc.starting, session = NoAccount, wanted' = stored,
               NEW p \in Processes, Alike(proc, p), p.servicesStarted = proc.servicesStarted,
               p.refreshing = proc.refreshing, proc' = Ready(SignedOut(p, "signed_out")),
               UNCHANGED <<disk, outgoing, resigned>>
        PROVE  Safe'
    BY <2>2
    DEF Safe, Stage, Recording, Sessions, Protection, TunnelAnswered, NeverStranded
  <2>3. ASSUME proc.phase = "repair", proc.written, NEW p \in Processes, Kept(proc, p),
               p.previous = proc.previous, p.written, p.loggedIn = proc.loggedIn,
               p.authState = proc.authState, p.known => session # NoAccount,
               proc' = [p EXCEPT !.phase = "restore"], UNCHANGED <<disk, outgoing, ghosts>>
        PROVE  Safe'
    BY <2>3
    DEF Safe, Stage, Recording, Sessions, Protection, TunnelAnswered, NeverStranded
  <2>4. ASSUME proc.phase = "repair", ~proc.written, ~proc.starting, NEW p \in Processes,
               Kept(proc, p), p.killSwitch = proc.previous, ~p.loggedIn,
               p.authState = "authentication_unknown", proc' = Ready(p),
               UNCHANGED <<disk, outgoing, ghosts>>
        PROVE  Safe'
    BY <2>4
    DEF Safe, Stage, Recording, Sessions, Protection, TunnelAnswered, NeverStranded
  <2>5. ASSUME proc.phase = "repair", ~proc.written, ~proc.starting, session # NoAccount,
               NEW p \in Processes, Kept(proc, p), p.killSwitch = proc.previous, p.loggedIn,
               p.authState = "account_restart_required", proc' = Ready(p),
               UNCHANGED <<disk, outgoing, ghosts>>
        PROVE  Safe'
    BY <2>5
    DEF Safe, Stage, Recording, Sessions, Protection, TunnelAnswered, NeverStranded
  <2>6. ASSUME session = NoAccount, wanted' = stored, UNCHANGED <<disk, outgoing, resigned>>,
               NEW p \in Quiesced(proc), proc' = BarrierFailed(SignedOut(p, "signed_out"))
        PROVE  Safe'
    <3>1. SignedOut(p, "signed_out").starting = proc.starting
      BY <1>q DEF SignedOut, Alike
    <3> HIDE DEF SignedOut, Ready, Processes, Alike, Fresh
    <3> QED
      BY <1>q, <1>b, <1>32, <2>1, <2>2, <2>6, <3>1 DEF RepairLogout, BarrierPhases
  <2>7. Fault => faults' # faults
    BY DEF TypeOK
  <2>8. ASSUME session # NoAccount \/ faults' # faults, UNCHANGED <<disk, outgoing, ghosts>>,
               NEW q \in Processes, q = [proc EXCEPT !.known = (faults' = faults)],
               \/ q.written /\ proc' = [q EXCEPT !.phase = "restore"]
               \/ ~q.written /\ \E p \in Settled(q) : proc' = BarrierFailed(p)
        PROVE  Safe'
    <3>1. /\ Kept(proc, q) /\ q.previous = proc.previous /\ q.written = proc.written
          /\ q.loggedIn = proc.loggedIn /\ q.authState = proc.authState
          /\ q.known <=> faults' = faults
      BY <2>8
    <3>2. CASE q.written
      BY <1>32, <2>3, <2>8, <3>1, <3>2 DEF RepairLogout
    <3>3. ASSUME ~q.written, NEW p \in Settled(q), proc' = BarrierFailed(p)
          PROVE  Safe'
      <4>1. /\ p \in Processes /\ Kept(q, p) /\ p.killSwitch = q.previous
            /\ \/ q.known /\ p.loggedIn /\ p.authState = "account_restart_required"
               \/ ~p.loggedIn /\ p.authState = "authentication_unknown"
        BY <2>8, <3>3, SettledFacts
      <4>2. Kept(proc, p)
        BY <3>1, <4>1
      <4>3. BarrierFailed(p) = IF proc.starting THEN Fresh ELSE Ready(p)
        BY <1>b, <1>32, <4>2 DEF RepairLogout
      <4> HIDE DEF Kept, Processes, Ready, Fresh, TypeOK
      <4> QED
        BY <1>32, <2>1, <2>4, <2>5, <2>8, <3>1, <3>3, <4>1, <4>2, <4>3 DEF RepairLogout
    <3> QED
      BY <2>8, <3>2, <3>3
  <2>9. [proc EXCEPT !.known = (faults' = faults)] \in Processes
    BY <1>p
  <2> HIDE DEF Processes, TypeOK, Kept, Ready, Fresh
  <2> QED
    BY <1>32, <2>6, <2>7, <2>8, <2>9 DEF RepairLogout
<1>33. CASE RestoreProtection
  <2>1. ASSUME proc.phase = "restore", proc.starting, stored' \in {stored, proc.previous},
               proc' = Fresh, UNCHANGED <<session, record, tunnel, outgoing, ghosts>>
        PROVE  Safe'
    BY <2>1
    DEF Safe, Stage, Recording, Sessions, Protection, TunnelAnswered, NeverStranded
  <2>2. ASSUME proc.phase = "restore", ~proc.starting, stored' = proc.previous,
               NEW p \in Processes, Kept(proc, p), p.killSwitch = proc.previous, ~p.loggedIn,
               p.authState = "authentication_unknown", proc' = Ready(p),
               UNCHANGED <<session, record, tunnel, outgoing, ghosts>>
        PROVE  Safe'
    BY <2>2
    DEF Safe, Stage, Recording, Sessions, Protection, TunnelAnswered, NeverStranded
  <2>3. ASSUME proc.phase = "restore", ~proc.starting, proc.known, stored' = proc.previous,
               NEW p \in Processes, Kept(proc, p), p.killSwitch = proc.previous, p.loggedIn,
               p.authState = "account_restart_required", proc' = Ready(p),
               UNCHANGED <<session, record, tunnel, outgoing, ghosts>>
        PROVE  Safe'
    BY <2>3
    DEF Safe, Stage, Recording, Sessions, Protection, TunnelAnswered, NeverStranded
  <2>4. ASSUME proc.phase = "restore", ~proc.starting, stored' \in {stored, proc.previous},
               NEW p \in Processes, Kept(proc, p), ~p.loggedIn, p.authState = "protection_unknown",
               proc' = Ready(p), UNCHANGED <<session, record, tunnel, outgoing, ghosts>>
        PROVE  Safe'
    BY <2>4
    DEF Safe, Stage, Recording, Sessions, Protection, TunnelAnswered, NeverStranded
  <2>5. ASSUME NEW p, p.starting = proc.starting, proc' = BarrierFailed(p)
        PROVE  proc' = IF proc.starting THEN Fresh ELSE Ready(p)
    BY <1>b, <1>33, <2>5 DEF RestoreProtection
  <2>6. \A p \in Settled(proc) :
            /\ p \in Processes /\ Kept(proc, p) /\ p.killSwitch = proc.previous
            /\ \/ proc.known /\ p.loggedIn /\ p.authState = "account_restart_required"
               \/ ~p.loggedIn /\ p.authState = "authentication_unknown"
    BY <1>p, SettledFacts
  <2>7. \A p : Kept(proc, p) => p.starting = proc.starting
    BY DEF Kept
  <2> HIDE DEF Kept, Processes, TypeOK, Ready, Fresh
  <2> QED
    BY <1>33, <1>u, <2>1, <2>2, <2>3, <2>4, <2>5, <2>6, <2>7 DEF RestoreProtection
<1>34. CASE Expire
  <2>1. ASSUME proc.phase = "ready", proc.loggedIn, ~proc.restartRequired, NEW p \in Processes,
               Alike(proc, p), p.servicesStarted = proc.servicesStarted,
               p.refreshing = proc.refreshing, proc' = SignedOut(p, "expired"),
               UNCHANGED <<disk, outgoing, ghosts>>
        PROVE  Safe'
    BY <2>1
    DEF Safe, Stage, Recording, Sessions, Protection, TunnelAnswered, NeverStranded
  <2> HIDE DEF Processes, TypeOK, Alike, Kept
  <2> QED
    BY <1>34, <1>q, <2>1 DEF Expire
<1>35. CASE DisableKillSwitch
  <2>1. ASSUME Admitted(proc), ~proc.loggedIn, stored' = 0, proc' = [proc EXCEPT !.killSwitch = 0],
               wanted' = stored', UNCHANGED <<session, record, tunnel, outgoing, resigned>>
        PROVE  Safe'
    BY <2>1
    DEF Safe, Stage, Recording, Sessions, Protection, TunnelAnswered, NeverStranded
  <2>2. ASSUME proc' = proc, Admitted(proc), ~proc.loggedIn, stored' \in {stored, 0},
               wanted' = stored', UNCHANGED <<session, record, tunnel, outgoing, resigned>>
        PROVE  Safe'
    BY <2>2
    DEF Safe, Stage, Recording, Sessions, Protection, TunnelAnswered, NeverStranded
  <2> HIDE DEF Processes, TypeOK, Alike, Kept
  <2> QED
    BY <1>35, <2>1, <2>2 DEF DisableKillSwitch
<1>36. ASSUME NEW k \in KillSwitches, SetKillSwitch(k) PROVE Safe'
  BY <1>36
  DEF Safe, Stage, Recording, Sessions, Protection, TunnelAnswered, NeverStranded, SetKillSwitch
<1>37. CASE Connect
  BY <1>37
  DEF Safe, Stage, Recording, Sessions, Protection, TunnelAnswered, NeverStranded, Connect
<1>38. CASE Disconnect
  BY <1>38
  DEF Safe, Stage, Recording, Sessions, Protection, TunnelAnswered, NeverStranded, Disconnect
<1>39. CASE CancelSignIn
  <2>1. ASSUME Admitted(proc), ~proc.servicesStarted, ~proc.restartRequired,
               proc' = [proc EXCEPT !.phase = "cancel", !.fallback = "signed_out"],
               UNCHANGED <<disk, outgoing, ghosts>>
        PROVE  Safe'
    BY <2>1
    DEF Safe, Stage, Recording, Sessions, Protection, TunnelAnswered, NeverStranded
  <2>2. ASSUME Admitted(proc), BeginLogout
        PROVE  Safe'
    BY <2>2, <1>23
    DEF Safe, Stage, Recording, Sessions, Protection, TunnelAnswered, NeverStranded
  <2> HIDE DEF Processes, TypeOK, Alike, Kept
  <2> QED
    BY <1>39, <2>1, <2>2 DEF CancelSignIn
<1>40. ASSUME NEW r \in Accounts, Refresh(r) PROVE Safe'
  BY <1>40
  DEF Safe, Stage, Recording, Sessions, Protection, TunnelAnswered, NeverStranded, Refresh
<1>41. CASE Leave
  <2>1. ASSUME proc.phase \in {"ready", "failed"}, outgoing = "dead", outgoing' = proc.refreshing,
               record.by = "serving", record' = [record EXCEPT !.by = "outgoing"], proc' = Fresh,
               UNCHANGED <<session, stored, tunnel, faults, ghosts>>
        PROVE  Safe'
    BY <2>1
    DEF Safe, Stage, Recording, Sessions, Protection, TunnelAnswered, NeverStranded
  <2>2. ASSUME proc.phase \in {"ready", "failed"}, outgoing = "dead", outgoing' = proc.refreshing,
               record.by # "serving", record' = record, proc' = Fresh,
               UNCHANGED <<session, stored, tunnel, faults, ghosts>>
        PROVE  Safe'
    BY <2>2
    DEF Safe, Stage, Recording, Sessions, Protection, TunnelAnswered, NeverStranded
  <2> HIDE DEF Processes, TypeOK, Alike, Kept
  <2> QED
    BY <1>41, <2>1, <2>2 DEF Leave
<1>42. CASE OutgoingEnds
  <2>1. ASSUME outgoing # "dead", outgoing' = "dead", record.by = "outgoing",
               record' = [record EXCEPT !.by = "gone"],
               UNCHANGED <<session, stored, tunnel, proc, faults, ghosts>>
        PROVE  Safe'
    BY <2>1
    DEF Safe, Stage, Recording, Sessions, Protection, TunnelAnswered, NeverStranded
  <2>2. ASSUME outgoing # "dead", outgoing' = "dead", record.by # "outgoing", record' = record,
               UNCHANGED <<session, stored, tunnel, proc, faults, ghosts>>
        PROVE  Safe'
    BY <2>2
    DEF Safe, Stage, Recording, Sessions, Protection, TunnelAnswered, NeverStranded
  <2> HIDE DEF Processes, TypeOK, Alike, Kept
  <2> QED
    BY <1>42, <2>1, <2>2 DEF OutgoingEnds, Died
<1>43. CASE Crash
  <2>1. ASSUME proc.phase # "off", outgoing = "dead", record.by = "serving",
               record' = [record EXCEPT !.by = "gone"], proc' = Fresh,
               UNCHANGED <<session, stored, tunnel, outgoing, ghosts>>
        PROVE  Safe'
    BY <2>1
    DEF Safe, Stage, Recording, Sessions, Protection, TunnelAnswered, NeverStranded
  <2>2. ASSUME proc.phase # "off", outgoing = "dead", record.by # "serving", record' = record,
               proc' = Fresh, UNCHANGED <<session, stored, tunnel, outgoing, ghosts>>
        PROVE  Safe'
    BY <2>2
    DEF Safe, Stage, Recording, Sessions, Protection, TunnelAnswered, NeverStranded
  <2> HIDE DEF Processes, TypeOK, Alike, Kept
  <2> QED
    BY <1>43, <2>1, <2>2 DEF Crash, Died
<1>44. CASE SignOut
  BY <1>44, <1>23 DEF SignOut
<1>45. CASE UNCHANGED vars
  BY <1>45 DEF Safe, Stage, Recording, Sessions, Protection, TunnelAnswered, NeverStranded, vars
<1> HIDE DEF Safe, TypeOK, disk, ghosts, Fault
<1> QED
  BY <1>1, <1>2, <1>3, <1>4, <1>5, <1>6, <1>7, <1>8, <1>9, <1>10, <1>11, <1>12, <1>13, <1>14,
     <1>15, <1>16, <1>17, <1>18, <1>19, <1>20, <1>21, <1>22, <1>24, <1>25, <1>26, <1>27, <1>28,
     <1>29, <1>30, <1>31, <1>32, <1>33, <1>34, <1>35, <1>36, <1>37, <1>38, <1>39, <1>40, <1>41,
     <1>42, <1>43, <1>44, <1>45
  DEF Next, Startup, SignInSteps, SignOutSteps, Requests

\* The invariant holds at first, is kept, and so always holds.
LEMMA IInvHolds == Spec => []IInv
<1>1. Init => IInv
  <2>1. Init => TypeOK
    <3>1. NoRecord \in Records
      BY DEF NoRecord, Records
    <3>2. Fresh \in Processes
      BY Constants DEF Fresh, Processes
    <3>3. Init => resigned \in BOOLEAN
      BY DEF Init
    <3>4. Init => faults \in 0..MaxFaults
      BY AccountAssumption DEF Init
    <3> QED
      BY <3>1, <3>2, <3>3, <3>4, Constants DEF Init, TypeOK
  <2>2. Init => Safe
    BY AccountAssumption
    DEF Init, Safe, Stage, Recording, Sessions, Protection, TunnelAnswered, NeverStranded,
        Fresh, NoRecord, Down, Undoing, SigningIn, TornDown, Lowering, AtWork, Leaving,
        BarrierPhases, Waits, Admitted, Writers, MaybeAccount
  <2> QED
    BY <2>1, <2>2 DEF IInv
<1>2. IInv /\ [Next]_vars => IInv'
  BY TypeStep, SafeStep DEF IInv
<1> QED
  BY <1>1, <1>2, PTL DEF Spec

-----------------------------------------------------------------------------

\* The state stays what the adapter, the journal and the keyring can hold.
THEOREM AccountTypes == Spec => []TypeOK
<1>1. IInv => TypeOK
  BY DEF IInv
<1> QED
  BY <1>1, IInvHolds, PTL

\* No refresher of one account can save its session over that of another one,
\* or while another one is being signed in; a tunnel that is up has the session
\* it can be restored with; and recovery is stranded only by a sign-out that
\* began without a session.
THEOREM AccountsHandedOver == Spec => []AccountHandoff
<1>1. IInv => NoForeignRefresh
  <2> SUFFICES ASSUME IInv, NEW r \in Writers
               PROVE  /\ session \in {NoAccount, r}
                      /\ proc.phase \in {"authenticate", "verify", "complete"} =>
                             proc.account = r
    BY DEF NoForeignRefresh, Writers
  <2>1. session \in {NoAccount, r}
    BY DEF IInv, Safe, Sessions
  <2>2. ASSUME proc.phase \in {"authenticate", "verify", "complete"}
        PROVE  proc.account = r
    <3>1. proc.phase \in SigningIn /\ proc.phase \in AtWork
      BY <2>2 DEF SigningIn, AtWork
    <3>2. r # outgoing
      BY <3>1 DEF IInv, Safe, Sessions, Writers
    <3> QED
      BY <3>1, <3>2, AccountAssumption DEF IInv, Safe, Stage, Writers, MaybeAccount
  <2> QED
    BY <2>1, <2>2
<1>2. IInv => AccountHandoff
  BY <1>1 DEF AccountHandoff, IInv, Safe
<1> QED
  BY <1>2, IInvHolds, PTL

\* A process that is idle and signed in has the kill switch the session began
\* with or the user chose, also after a sign-out that failed half-way; and what
\* it then publishes is what is stored.
THEOREM ProtectionIsKept == Spec => []ProtectionKept
<1>1. IInv => ProtectionKept
  <2> SUFFICES ASSUME IInv, proc.phase = "ready", proc.loggedIn
               PROVE  /\ stored = wanted
                      /\ proc.authState = "account_restart_required" =>
                             proc.killSwitch = stored
    BY DEF ProtectionKept
  <2>1. proc.phase \notin Down \cup Lowering \cup {"probe", "connector"} /\ ~proc.starting
    BY DEF IInv, Safe, Stage, Down, Lowering
  <2> QED
    BY <2>1 DEF IInv, Safe, Protection
<1> QED
  BY <1>1, IInvHolds, PTL

=============================================================================
