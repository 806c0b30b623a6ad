------------------------------ MODULE SettingsSave ------------------------------
(***************************************************************************)
(* The transactional save of VPN settings in ProtonCoreAdapter (adapters). *)
(*                                                                         *)
(* Core persists settings in a worker: a save that reports an error may    *)
(* have reached the disk, and one whose caller is gone may still reach it. *)
(* So a failed save is compensated by a second write of the old settings,  *)
(* never before the first has ended; where that cannot be confirmed, the   *)
(* session is closed with the settings declared unknown.                   *)
(*                                                                         *)
(* Simplifications:                                                        *)
(*  - the controller runs one settings operation at a time (_settings_lock)*)
(*    and account operations never beside a save; what runs beside it is   *)
(*    an expiry, found by a refresher or by a retry, which waits for the   *)
(*    authentication scope;                                                *)
(*  - a value that nothing depends on is not kept: the protocol, the paid  *)
(*    features, addresses and applications.  A change refused because of   *)
(*    them, of the plan or of the tunnel may be refused at any time;       *)
(*  - Core keeps its settings object or reads the disk again: a load       *)
(*    returns either.                                                      *)
(***************************************************************************)
CONSTANTS
    Patches,            \* the changes that are asked for: functions on some of Fields
    TelemetryEnabled    \* features.TELEMETRY_ENABLED

Fields == {"killSwitch", "splitTunneling", "netShield", "customDns", "telemetry", "crashReports"}
Settings == [Fields -> BOOLEAN]

ASSUME SettingsAssumption ==
    /\ TelemetryEnabled \in BOOLEAN
    /\ \A p \in Patches : DOMAIN p \subseteq Fields \ {"crashReports"}
                          /\ \A f \in DOMAIN p : p[f] \in BOOLEAN

VARIABLES
    disk,       \* Core's persisted settings
    explicit,   \* the persisted settings name a telemetry preference
    object,     \* Core's settings object
    writes,     \* Core's worker: for each kind of write, its progress and its value
    queue,      \* Core collects telemetry events
    sender,     \* Core's crash reports are sent
    session,    \* the process: "on", "expired", "unknown" or "ended"
    epoch,      \* _authentication_epoch has moved since the process began
    op,         \* the settings operation under way
    answer      \* ghost: the last answer, and what it says of the disk

coreVars == <<disk, explicit, object, writes, queue, sender>>
vars == <<coreVars, session, epoch, op, answer>>

Kinds == {"request", "rollback"}
Unwritten == [at |-> "none", value |-> [f \in Fields |-> FALSE]]
Quiet == \A k \in Kinds : writes[k].at = "none"
NoPatch == [f \in {} |-> FALSE]
Idle == [phase |-> "idle", patch |-> NoPatch, epoch |-> FALSE, late |-> FALSE,
         old |-> [f \in Fields |-> FALSE]]

Answer(said) == [said |-> said, disk |-> disk]

Init ==
    /\ disk \in {s \in Settings : ~(s["splitTunneling"] /\ s["killSwitch"])
                                  /\ ~(s["customDns"] /\ s["netShield"])}
    /\ explicit \in BOOLEAN /\ object = disk
    /\ writes = [k \in Kinds |-> Unwritten]
    /\ queue = FALSE /\ sender = FALSE
    /\ session = "on" /\ epoch = FALSE
    /\ op = Idle /\ answer = Answer("none")

-----------------------------------------------------------------------------
(* The policies on optional reporting. *)

\* _preflight_telemetry_policy: collection is stopped before Core can mirror
\* the settings, unless the persisted preference is explicitly on.
Preflight ==
    queue' = (queue /\ TelemetryEnabled /\ explicit /\ disk["telemetry"])

\* Mutant: the default of Core is taken for a preference.
EffectiveByDefault(settings, stated) == TelemetryEnabled /\ settings["telemetry"]

\* _apply_telemetry_policy: the preference in force, given what was loaded or is saved.
Effective(settings, stated) ==
    TelemetryEnabled /\ (stated \/ explicit) /\ settings["telemetry"]

\* The settings as a load leaves them to the adapter.
Governed(settings) == [settings EXCEPT !["telemetry"] = Effective(settings, FALSE)]

\* The settings as a save hands them to Core: crash reports are written off.
Submitted(settings, stated) ==
    [settings EXCEPT !["telemetry"] = Effective(settings, stated), !["crashReports"] = FALSE]

-----------------------------------------------------------------------------
(* A settings operation up to its write. *)

Begin(patch, next) ==
    /\ op.phase = "idle" /\ session = "on"
    /\ op' = [Idle EXCEPT !.phase = next, !.patch = patch, !.epoch = epoch]
    /\ answer' = Answer("none")
    /\ Preflight
    /\ UNCHANGED <<disk, explicit, object, writes, sender, session, epoch>>

Read == Begin(NoPatch, "load")
Update(patch) == Begin(patch, "load")

\* Two settings of one object that exclude each other.  Each family of changes
\* checks the conflicts it can cause, against the settings it has just loaded.
UpdateSettingsRefuses(changed) ==
    \/ changed["splitTunneling"] /\ changed["killSwitch"]
    \/ changed["customDns"] /\ changed["netShield"]
UpdateSplitTunnelingRefuses(changed) == changed["splitTunneling"] /\ changed["killSwitch"]
UpdateCustomDnsRefuses(changed) == changed["customDns"] /\ changed["netShield"]

Conflict(changed, keys) ==
    \/ keys = {"splitTunneling"} /\ UpdateSplitTunnelingRefuses(changed)
    \/ keys = {"customDns"} /\ UpdateCustomDnsRefuses(changed)
    \/ /\ keys \notin {{"splitTunneling"}, {"customDns"}}
       /\ UpdateSettingsRefuses(changed)

\* The settings with a change made to them.
Changed(patch, settings) ==
    [f \in Fields |-> IF f \in DOMAIN patch THEN patch[f] ELSE settings[f]]

\* Core answers a load: it mirrors what it loaded into its two reporters, and
\* the adapter corrects them, unless the session has changed meanwhile.  A
\* change that is not refused is made in place, and waits for the scope.
Loaded ==
    /\ op.phase = "load"
    /\ \E loaded \in {object, disk} :
           IF op.epoch # epoch
           THEN /\ object' = loaded
                /\ queue' = loaded["telemetry"] /\ sender' = loaded["crashReports"]
                /\ op' = Idle
           ELSE LET governed == Governed(loaded)
                    changed == Changed(op.patch, governed)
                IN /\ queue' = governed["telemetry"] /\ sender' = FALSE
                   /\ \/ object' = governed /\ op' = Idle
                      \/ /\ op.patch # NoPatch /\ ~Conflict(changed, DOMAIN op.patch)
                         /\ object' = changed
                         /\ op' = [op EXCEPT !.phase = "scope", !.old = governed]
    /\ answer' = Answer(IF op'.phase = "idle" THEN "refused" ELSE "none")
    /\ UNCHANGED <<disk, explicit, writes, session, epoch>>

LoadFails ==
    /\ op.phase = "load"
    /\ op' = Idle /\ answer' = Answer("refused")
    /\ UNCHANGED <<coreVars, session, epoch>>

\* _save_settings hands the object to Core.
Write(kind, settings) ==
    LET submitted == Submitted(settings, "telemetry" \in DOMAIN op.patch)
    IN /\ object' = submitted
       /\ queue' = submitted["telemetry"]
       /\ writes' = [writes EXCEPT ![kind] = [at |-> "pending", value |-> submitted]]
       /\ UNCHANGED <<disk, explicit, sender>>

\* The scope is held.  A save of an older session is given up, and undone in
\* the object only.
Admit ==
    /\ op.phase = "scope"
    /\ IF op.epoch # epoch
       THEN /\ object' = op.old /\ op' = Idle /\ answer' = Answer("refused")
            /\ UNCHANGED <<disk, explicit, writes, queue, sender>>
       ELSE /\ Write("request", object) /\ op' = [op EXCEPT !.phase = "write"]
            /\ answer' = answer
    /\ UNCHANGED <<session, epoch>>

-----------------------------------------------------------------------------
(* Core's worker and the outcome of a write. *)

Commit(k) ==
    /\ writes[k].at = "pending"
    /\ writes' = [writes EXCEPT ![k].at = "committed"]
    /\ disk' = writes[k].value /\ explicit' = TRUE
    /\ UNCHANGED <<object, queue, sender, session, epoch, op, answer>>

Ended(k) == writes' = [writes EXCEPT ![k] = Unwritten]

Saved ==
    /\ op.phase = "write" /\ writes["request"].at = "committed"
    /\ Ended("request")
    /\ op' = Idle /\ answer' = [said |-> "saved", disk |-> writes["request"].value]
    /\ UNCHANGED <<disk, explicit, object, queue, sender, session, epoch>>

\* The caller goes away; the write goes on, and recovery waits for it.
Interrupt ==
    /\ op.phase = "write"
    /\ op' = [op EXCEPT !.phase = "drain"]
    /\ UNCHANGED <<coreVars, session, epoch, answer>>

\* The stage timer of recovery fires before Core has answered.
StageExpires ==
    /\ op.phase \in {"drain", "restore"} /\ ~op.late
    /\ op' = [op EXCEPT !.late = TRUE]
    /\ UNCHANGED <<coreVars, session, epoch, answer>>

\* _publish_unknown_settings.
Unknown ==
    /\ session' = "unknown" /\ op' = Idle /\ answer' = Answer("unknown")

\* Mutant: recovery does not wait for the write it undoes.
WriteFailsOrGoesOn ==
    /\ op.phase \in {"write", "drain"}
    /\ writes["request"].at # "none"
    /\ LET submitted == Submitted(op.old, "telemetry" \in DOMAIN op.patch)
       IN /\ object' = submitted /\ queue' = submitted["telemetry"]
          /\ \E at \in {"none", writes["request"].at} :
                 writes' = [writes EXCEPT !["request"].at = at,
                                          !["rollback"] = [at |-> "pending", value |-> submitted]]
    /\ op' = [op EXCEPT !.phase = "restore"]
    /\ UNCHANGED <<disk, explicit, sender, session, epoch, answer>>

\* Core ends the first write, well or not, and in time.  Only then is the
\* object rolled back and written again.
WriteFails ==
    /\ \/ op.phase = "write"
       \/ op.phase = "drain" /\ ~op.late
    /\ writes["request"].at # "none"
    /\ LET submitted == Submitted(op.old, "telemetry" \in DOMAIN op.patch)
       IN /\ object' = submitted /\ queue' = submitted["telemetry"]
          /\ writes' = [writes EXCEPT !["request"] = Unwritten,
                                      !["rollback"] = [at |-> "pending", value |-> submitted]]
    /\ op' = [op EXCEPT !.phase = "restore"]
    /\ UNCHANGED <<disk, explicit, sender, session, epoch, answer>>

WriteEndsLate ==
    /\ op.phase = "drain" /\ op.late
    /\ Ended("request") /\ Unknown
    /\ UNCHANGED <<disk, explicit, object, queue, sender, epoch>>

Restored ==
    /\ op.phase = "restore" /\ ~op.late /\ writes["rollback"].at = "committed"
    /\ Ended("rollback")
    /\ op' = Idle /\ answer' = [said |-> "restored", disk |-> writes["rollback"].value]
    /\ UNCHANGED <<disk, explicit, object, queue, sender, session, epoch>>

\* An error of the second write, or an answer after its timer.
RestoreFails ==
    /\ op.phase = "restore" /\ writes["rollback"].at # "none"
    /\ Ended("rollback") /\ Unknown
    /\ UNCHANGED <<disk, explicit, object, queue, sender, epoch>>

\* Core answers a write with the end of the session: expiry owns the recovery.
WriteExpires ==
    /\ op.phase \in {"write", "drain", "restore"}
    /\ LET k == IF op.phase = "restore" THEN "rollback" ELSE "request"
       IN writes[k].at # "none" /\ Ended(k)
    /\ object' = op.old
    /\ session' = "expired" /\ epoch' = TRUE
    /\ op' = Idle /\ answer' = Answer("unknown")
    /\ UNCHANGED <<disk, explicit, queue, sender>>

\* A load that finds the session expired waits for the scope like any expiry.
Expire ==
    /\ op.phase \in {"idle", "load", "scope"} /\ session = "on"
    /\ session' = "expired" /\ epoch' = TRUE
    /\ UNCHANGED <<coreVars, op, answer>>

-----------------------------------------------------------------------------
(* The end of the process: a policy that cannot be enforced, a deadline, a crash. *)

\* What Core's worker still holds reaches the disk or not.
EndProcess ==
    /\ session # "ended"
    /\ session' = "ended" /\ op' = Idle
    /\ writes' = [k \in Kinds |-> Unwritten]
    /\ \/ UNCHANGED <<disk, explicit>>
       \/ \E k \in Kinds : writes[k].at = "pending" /\ disk' = writes[k].value /\ explicit' = TRUE
    /\ answer' = [said |-> "unknown", disk |-> disk]
    /\ UNCHANGED <<object, queue, sender, epoch>>

NewProcess ==
    /\ session = "ended"
    /\ session' = "on" /\ epoch' = FALSE /\ object' = disk
    /\ queue' = FALSE /\ sender' = FALSE
    /\ answer' = Answer("none")
    /\ UNCHANGED <<disk, explicit, writes, op>>

CoreSteps ==
    \/ \E k \in Kinds : Commit(k)
    \/ Loaded \/ Saved \/ WriteFails \/ WriteEndsLate \/ Restored \/ RestoreFails

Next ==
    \/ Read \/ \E p \in Patches : Update(p)
    \/ CoreSteps \/ Admit
    \/ LoadFails \/ Interrupt \/ StageExpires \/ WriteExpires \/ Expire
    \/ EndProcess \/ NewProcess

Spec == Init /\ [][Next]_vars

-----------------------------------------------------------------------------

Writes == [at : {"none", "pending", "committed"}, value : Settings]
Operations ==
    [phase : {"idle", "load", "scope", "write", "drain", "restore"},
     patch : Patches \cup {NoPatch}, epoch : BOOLEAN, late : BOOLEAN, old : Settings]
Answers == [said : {"none", "refused", "saved", "restored", "unknown"}, disk : Settings]

TypeOK ==
    /\ disk \in Settings /\ object \in Settings /\ explicit \in BOOLEAN
    /\ writes \in [Kinds -> Writes]
    /\ queue \in BOOLEAN /\ sender \in BOOLEAN /\ epoch \in BOOLEAN
    /\ session \in {"on", "expired", "unknown", "ended"}
    /\ op \in Operations /\ answer \in Answers

\* What a save was answered with is what is on disk, until the next save: no
\* write outlives its answer, a rollback never loses to the write it undoes,
\* and where that cannot be said the session is no longer on.
AnswerHolds ==
    op.phase = "idle" =>
        /\ Quiet
        /\ answer.said \in {"refused", "saved", "restored"} => disk = answer.disk
        /\ answer.said = "unknown" => session # "on"

\* The disk never holds two settings that exclude each other.
Compatible ==
    /\ ~(disk["splitTunneling"] /\ disk["killSwitch"])
    /\ ~(disk["customDns"] /\ disk["netShield"])

\* A save does what it answers, and never leaves the disk in conflict.
SaveSettled == AnswerHolds /\ Compatible

\* Between the operations of a session nothing is collected without a preference
\* on disk, and crash reports are not sent.
OptionalReportingOff ==
    (session = "on" /\ op.phase = "idle") =>
        /\ ~sender
        /\ queue => TelemetryEnabled /\ explicit /\ disk["telemetry"]

================================================================================
