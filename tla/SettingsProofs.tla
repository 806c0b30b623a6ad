----------------------------- MODULE SettingsProofs -----------------------------
(***************************************************************************)
(* The proofs about SettingsSave, for any changes that are asked for: that *)
(* a save does what it answers and never leaves the disk in conflict       *)
(* (SaveSettled), and that optional reporting stays off without a          *)
(* preference on disk (OptionalReportingOff).                              *)
(*                                                                         *)
(* Both speak of the moment an operation ends, so the invariant says for   *)
(* every phase which write Core's worker holds and with which value        *)
(* (OneWrite), which settings could still be saved (Consistent), whether   *)
(* the session an operation began in is still on (SessionKnown) and what   *)
(* the reporters were last told (Reporting).                               *)
(***************************************************************************)
EXTENDS SettingsSave, TLAPS

USE SettingsAssumption

\* Two settings that exclude each other are not both on.
Apart(settings) ==
    /\ ~(settings["splitTunneling"] /\ settings["killSwitch"])
    /\ ~(settings["customDns"] /\ settings["netShield"])

\* Wherever settings are kept, they can be saved.
Consistent ==
    /\ Apart(disk) /\ Apart(object) /\ Apart(op.old)
    /\ \A k \in Kinds : Apart(writes[k].value)

\* The phases with a write in Core, and which of the two it is.
Writing == {"write", "drain", "restore"}
Live == IF op.phase = "restore" THEN "rollback" ELSE "request"

\* Core's worker holds the write of the phase and no other, and the disk is
\* what the last write to end has left.
OneWrite ==
    /\ op.phase \notin Writing => Quiet
    /\ op.phase \in Writing =>
           /\ \A k \in Kinds : writes[k].at # "none" <=> k = Live
           /\ writes[Live].value = object
    /\ \A k \in Kinds : writes[k].at = "committed" => disk = writes[k].value /\ explicit

\* The epoch tells an operation that the session it began in is over.
SessionKnown ==
    /\ session = "on" => ~epoch
    /\ session = "expired" => epoch
    /\ op.phase # "idle" => ~op.epoch
    /\ op.phase \in {"load", "scope"} => session \in {"on", "expired"}
    /\ op.phase \in Writing => session = "on"

\* What the last answer says of the disk and of the session.
Said ==
    op.phase = "idle" =>
        /\ answer.said \in {"refused", "saved", "restored"} => disk = answer.disk
        /\ answer.said = "unknown" => session # "on"

\* What Core's reporters may do while the session is on.
Reporting ==
    session = "on" =>
        /\ ~sender
        /\ queue => TelemetryEnabled
        /\ op.phase \notin Writing /\ queue => explicit /\ disk["telemetry"]
        /\ op.phase \in {"idle", "load"} /\ object["telemetry"] => disk["telemetry"]
        /\ op.phase \in Writing => (queue <=> object["telemetry"])

Safe == Consistent /\ OneWrite /\ SessionKnown /\ Said /\ Reporting
IInv == TypeOK /\ Safe

-----------------------------------------------------------------------------
(* The settings that operations make of others. *)

\* The values operations and writes start from.
LEMMA ConstantTypes ==
    /\ NoPatch \in Patches \cup {NoPatch} /\ Idle.old \in Settings /\ Apart(Idle.old)
    /\ Unwritten.value \in Settings /\ Apart(Unwritten.value)
BY DEF Idle, Settings, Fields, Unwritten, Apart

\* The policies on reporting return settings and keep the exclusions.
LEMMA PolicyFacts ==
    ASSUME NEW s \in Settings, NEW stated \in BOOLEAN, explicit \in BOOLEAN
    PROVE  /\ Governed(s) \in Settings /\ Submitted(s, stated) \in Settings
           /\ Apart(s) => Apart(Governed(s)) /\ Apart(Submitted(s, stated))
           /\ Governed(s)["telemetry"] <=> TelemetryEnabled /\ explicit /\ s["telemetry"]
           /\ Submitted(s, stated)["telemetry"] => TelemetryEnabled
BY DEF Governed, Submitted, Effective, Settings, Fields, Apart

\* What the operation under way hands to Core for s.
Handed(s) == Submitted(s, "telemetry" \in DOMAIN op.patch)

\* It is settings, without an exclusion, and collects nothing where telemetry is disabled.
LEMMA HandedFacts ==
    ASSUME NEW s \in Settings, explicit \in BOOLEAN
    PROVE  /\ Handed(s) \in Settings
           /\ Apart(s) => Apart(Handed(s))
           /\ Handed(s)["telemetry"] => TelemetryEnabled
<1>1. ("telemetry" \in DOMAIN op.patch) \in BOOLEAN
  OBVIOUS
<1> QED
  BY <1>1, PolicyFacts DEF Handed

\* A change that is not refused keeps the exclusions, whatever else it changes.
LEMMA ChangeFacts ==
    ASSUME NEW patch \in Patches \cup {NoPatch}, NEW s \in Settings
    PROVE  /\ Changed(patch, s) \in Settings
           /\ Apart(s) /\ ~Conflict(Changed(patch, s), DOMAIN patch) => Apart(Changed(patch, s))
<1>1. DOMAIN patch \subseteq Fields /\ \A f \in DOMAIN patch : patch[f] \in BOOLEAN
  BY DEF NoPatch
<1>2. Changed(patch, s) \in Settings
  BY <1>1 DEF Changed, Settings
<1>3. ASSUME Apart(s), ~Conflict(Changed(patch, s), DOMAIN patch)
      PROVE  Apart(Changed(patch, s))
  <2>1. CASE DOMAIN patch = {"splitTunneling"}
    BY <1>3, <2>1 DEF Apart, Conflict, UpdateSplitTunnelingRefuses, Changed, Fields, Settings
  <2>2. CASE DOMAIN patch = {"customDns"}
    BY <1>3, <2>2 DEF Apart, Conflict, UpdateCustomDnsRefuses, Changed, Fields, Settings
  <2>3. CASE DOMAIN patch \notin {{"splitTunneling"}, {"customDns"}}
    BY <1>3, <2>3 DEF Apart, Conflict, UpdateSettingsRefuses
  <2> QED
    BY <2>1, <2>2, <2>3
<1> QED
  BY <1>2, <1>3

-----------------------------------------------------------------------------
(* Type correctness. *)

\* The helpers return what they are asked for.
LEMMA HelperTypes ==
    ASSUME TypeOK
    PROVE  /\ Idle \in Operations /\ Unwritten \in Writes
           /\ \A k \in Kinds : writes[k] \in Writes /\ writes[k].value \in Settings
           /\ op.patch \in Patches \cup {NoPatch} /\ op.old \in Settings
           /\ \A said \in {"none", "refused", "saved", "restored", "unknown"}, s \in Settings :
                  [said |-> said, disk |-> s] \in Answers
BY ConstantTypes DEF TypeOK, Idle, Operations, Unwritten, Writes, Answers, Settings

\* A step of an operation keeps its type.
LEMMA OperationTypes ==
    ASSUME NEW q \in Operations
    PROVE  /\ \A at \in {"idle", "load", "scope", "write", "drain", "restore"} :
                  [q EXCEPT !.phase = at] \in Operations
           /\ \A s \in Settings : [q EXCEPT !.phase = "scope", !.old = s] \in Operations
           /\ [q EXCEPT !.late = TRUE] \in Operations
           /\ \A p \in Patches \cup {NoPatch}, b \in BOOLEAN :
                  [q EXCEPT !.phase = "load", !.patch = p, !.epoch = b] \in Operations
BY DEF Operations

\* So does a step of Core's worker.
LEMMA WriteTypes ==
    ASSUME TypeOK
    PROVE  /\ \A k \in Kinds : [writes EXCEPT ![k].at = "committed"] \in [Kinds -> Writes]
           /\ \A k \in Kinds, w \in Writes : [writes EXCEPT ![k] = w] \in [Kinds -> Writes]
           /\ \A s \in Settings : [at |-> "pending", value |-> s] \in Writes
           /\ "request" \in Kinds /\ "rollback" \in Kinds
BY DEF TypeOK, Writes, Kinds

\* Every step keeps the types.
LEMMA TypeStep == TypeOK /\ [Next]_vars => TypeOK'
<1> SUFFICES ASSUME TypeOK, [Next]_vars PROVE TypeOK'
  OBVIOUS
<1> USE HelperTypes, OperationTypes DEF TypeOK, Answer, coreVars
<1>1. ASSUME NEW p \in Patches \cup {NoPatch}, Begin(p, "load") PROVE TypeOK'
  BY <1>1 DEF Begin, Preflight
<1>2. CASE Loaded
  <2>1. PICK loaded \in Settings :
            /\ loaded \in {object, disk}
            /\ IF op.epoch # epoch
               THEN object' = loaded /\ op' = Idle /\ queue' = loaded["telemetry"]
                    /\ sender' = loaded["crashReports"]
               ELSE /\ queue' = Governed(loaded)["telemetry"] /\ sender' = FALSE
                    /\ \/ object' = Governed(loaded) /\ op' = Idle
                       \/ /\ object' = Changed(op.patch, Governed(loaded))
                          /\ op' = [op EXCEPT !.phase = "scope", !.old = Governed(loaded)]
    BY <1>2 DEF Loaded
  <2>2. Governed(loaded) \in Settings
    BY PolicyFacts
  <2>3. Changed(op.patch, Governed(loaded)) \in Settings
    BY <2>2, ChangeFacts
  <2>4. object' \in Settings /\ op' \in Operations
    BY <2>1, <2>2, <2>3
  <2>5. queue' \in BOOLEAN /\ sender' \in BOOLEAN
    BY <2>1, <2>2 DEF Settings, Fields
  <2>6. answer' \in Answers
    BY <1>2 DEF Loaded
  <2> QED
    BY <1>2, <2>4, <2>5, <2>6 DEF Loaded
<1>3. CASE LoadFails
  BY <1>3 DEF LoadFails
<1>4. CASE Admit
  <2>1. CASE op.epoch # epoch
    BY <1>4, <2>1 DEF Admit
  <2>2. CASE op.epoch = epoch
    <3>1. PICK s \in Settings :
              /\ object' = s /\ queue' = s["telemetry"]
              /\ writes' = [writes EXCEPT !["request"] = [at |-> "pending", value |-> s]]
      BY <1>4, <2>2, HandedFacts DEF Admit, Write, Handed
    <3>2. queue' \in BOOLEAN
      BY <3>1 DEF Settings, Fields
    <3>3. op' = [op EXCEPT !.phase = "write"]
          /\ UNCHANGED <<disk, explicit, sender, session, epoch, answer>>
      BY <1>4, <2>2 DEF Admit, Write
    <3>4. writes' \in [Kinds -> Writes]
      BY <3>1, WriteTypes
    <3> QED
      BY <3>1, <3>2, <3>3, <3>4
  <2> QED
    BY <2>1, <2>2
<1>5. ASSUME NEW k \in Kinds, Commit(k) PROVE TypeOK'
  BY <1>5, WriteTypes DEF Commit
<1>6. CASE Saved
  BY <1>6, WriteTypes DEF Saved, Ended
<1>7. CASE Interrupt
  BY <1>7 DEF Interrupt
<1>8. CASE StageExpires
  BY <1>8 DEF StageExpires
<1>9. CASE WriteFails
  <2>1. PICK s \in Settings :
            /\ object' = s /\ queue' = s["telemetry"]
            /\ writes' = [[writes EXCEPT !["request"] = Unwritten]
                             EXCEPT !["rollback"] = [at |-> "pending", value |-> s]]
    BY <1>9, HandedFacts DEF WriteFails, Handed
  <2>2. queue' \in BOOLEAN
    BY <2>1 DEF Settings, Fields
  <2>3. writes' \in [Kinds -> Writes]
    BY <2>1, WriteTypes DEF Kinds
  <2> QED
    BY <1>9, <2>1, <2>2, <2>3 DEF WriteFails
<1>10. CASE WriteEndsLate
  BY <1>10 DEF WriteEndsLate, Ended, Unknown
<1>11. CASE Restored
  BY <1>11, WriteTypes DEF Restored, Ended
<1>12. CASE RestoreFails
  BY <1>12 DEF RestoreFails, Ended, Unknown
<1>13. CASE WriteExpires
  BY <1>13 DEF WriteExpires, Ended
<1>14. CASE Expire
  BY <1>14 DEF Expire
<1>15. CASE EndProcess
  BY <1>15 DEF EndProcess
<1>16. CASE NewProcess
  BY <1>16 DEF NewProcess
<1>17. CASE UNCHANGED vars
  BY <1>17 DEF vars
<1> QED
  BY <1>1, <1>2, <1>3, <1>4, <1>5, <1>6, <1>7, <1>8, <1>9, <1>10, <1>11, <1>12, <1>13, <1>14,
     <1>15, <1>16, <1>17 DEF Next, CoreSteps, Read, Update

-----------------------------------------------------------------------------
(* The invariant. *)

\* Every step keeps the invariant.
LEMMA SafeStep == IInv /\ [Next]_vars => Safe'
<1> SUFFICES ASSUME IInv, [Next]_vars PROVE Safe'
  OBVIOUS
<1>t. TypeOK /\ Safe /\ TypeOK'
  BY TypeStep DEF IInv
<1> USE <1>t, HelperTypes, ConstantTypes
    DEF TypeOK, Answer, coreVars, Writing, Live, Kinds, Quiet
<1>1. ASSUME NEW p \in Patches \cup {NoPatch}, Begin(p, "load") PROVE Safe'
  BY <1>1 DEF Begin, Preflight, Safe, Consistent, OneWrite, SessionKnown, Said, Reporting,
     Operations, Idle
<1>2. CASE Loaded
  <2>1. PICK loaded \in Settings :
            /\ loaded \in {object, disk}
            /\ IF op.epoch # epoch
               THEN object' = loaded /\ op' = Idle /\ queue' = loaded["telemetry"]
                    /\ sender' = loaded["crashReports"]
               ELSE /\ queue' = Governed(loaded)["telemetry"] /\ sender' = FALSE
                    /\ \/ object' = Governed(loaded) /\ op' = Idle
                       \/ /\ object' = Changed(op.patch, Governed(loaded))
                          /\ ~Conflict(Changed(op.patch, Governed(loaded)), DOMAIN op.patch)
                          /\ op' = [op EXCEPT !.phase = "scope", !.old = Governed(loaded)]
    BY <1>2 DEF Loaded
  <2>2. op.phase = "load" /\ answer' = Answer(IF op'.phase = "idle" THEN "refused" ELSE "none")
        /\ UNCHANGED <<disk, explicit, writes, session, epoch>>
    BY <1>2 DEF Loaded
  <2>3. Apart(loaded)
    BY <2>1 DEF Safe, Consistent
  <2>4. Governed(loaded) \in Settings /\ Apart(Governed(loaded))
        /\ (Governed(loaded)["telemetry"] <=> TelemetryEnabled /\ explicit /\ loaded["telemetry"])
    BY <2>3, PolicyFacts
  <2>5. CASE op.epoch # epoch
    BY <2>1, <2>2, <2>3, <2>5 DEF Safe, Consistent, OneWrite, SessionKnown, Said, Reporting,
       Idle, Operations
  <2>6. ASSUME op.epoch = epoch, object' = Governed(loaded), op' = Idle PROVE Safe'
    BY <2>1, <2>2, <2>4, <2>6 DEF Safe, Consistent, OneWrite, SessionKnown, Said, Reporting,
       Idle, Operations
  <2>7. ASSUME op.epoch = epoch, object' = Changed(op.patch, Governed(loaded)),
               ~Conflict(Changed(op.patch, Governed(loaded)), DOMAIN op.patch),
               op' = [op EXCEPT !.phase = "scope", !.old = Governed(loaded)]
        PROVE  Safe'
    <3>1. Apart(object')
      BY <2>4, <2>7, ChangeFacts
    <3> QED
      BY <2>1, <2>2, <2>4, <2>7, <3>1
      DEF Safe, Consistent, OneWrite, SessionKnown, Said, Reporting, Operations
  <2> QED
    BY <2>1, <2>5, <2>6, <2>7
<1>3. CASE LoadFails
  BY <1>3 DEF LoadFails, Safe, Consistent, OneWrite, SessionKnown, Said, Reporting, Operations,
     Idle
<1>4. CASE Admit
  <2>1. CASE op.epoch # epoch
    <3>1. Consistent'
      BY <1>4, <2>1 DEF Admit, Safe, Consistent, OneWrite, SessionKnown, Said, Reporting, Idle,
         Operations
    <3>2. OneWrite'
      BY <1>4, <2>1 DEF Admit, Safe, Consistent, OneWrite, SessionKnown, Said, Reporting, Idle,
         Operations
    <3>3. SessionKnown'
      BY <1>4, <2>1 DEF Admit, Safe, Consistent, OneWrite, SessionKnown, Said, Reporting, Idle,
         Operations
    <3>4. Said'
      BY <1>4, <2>1 DEF Admit, Safe, Consistent, OneWrite, SessionKnown, Said, Reporting, Idle,
         Operations
    <3>5. Reporting'
      BY <1>4, <2>1 DEF Admit, Safe, Consistent, OneWrite, SessionKnown, Said, Reporting, Idle,
         Operations
    <3> QED
      BY <3>1, <3>2, <3>3, <3>4, <3>5 DEF Safe
  <2>2. CASE op.epoch = epoch
    <3>1. PICK s \in Settings :
              /\ Apart(s) /\ (s["telemetry"] => TelemetryEnabled)
              /\ object' = s /\ queue' = s["telemetry"]
              /\ writes' = [writes EXCEPT !["request"] = [at |-> "pending", value |-> s]]
      BY <1>4, <2>2, HandedFacts DEF Admit, Write, Handed, Safe, Consistent
    <3>2. op.phase = "scope" /\ op' = [op EXCEPT !.phase = "write"]
          /\ UNCHANGED <<disk, explicit, sender, session, epoch, answer>>
      BY <1>4, <2>2 DEF Admit, Write
    <3> QED
      <4>0. \A k \in Kinds : writes'[k].value \in {s, writes[k].value}
        BY <3>1
      <4>1. Consistent'
        <5>1. Apart(disk') /\ Apart(object')
          BY <3>1, <3>2 DEF Safe, Consistent
        <5>2. Apart(op'.old)
          BY <3>2 DEF Safe, Consistent, Operations
        <5>3. \A k \in Kinds : Apart(writes'[k].value)
          BY <3>1, <4>0 DEF Safe, Consistent
        <5> QED
          BY <5>1, <5>2, <5>3 DEF Consistent
      <4>2. OneWrite'
        BY <2>2, <3>1, <3>2 DEF Safe, OneWrite, Writes, Operations
      <4>3. SessionKnown'
        BY <2>2, <3>1, <3>2 DEF Safe, SessionKnown, Operations
      <4>4. Said'
        BY <2>2, <3>1, <3>2 DEF Safe, Said, Operations
      <4>5. Reporting'
        BY <3>1, <3>2 DEF Safe, Reporting, Operations, Settings, Fields
      <4> QED
        BY <4>1, <4>2, <4>3, <4>4, <4>5 DEF Safe
  <2> QED
    BY <2>1, <2>2
<1>5. ASSUME NEW k \in Kinds, Commit(k) PROVE Safe'
  BY <1>5 DEF Commit, Safe, Consistent, OneWrite, SessionKnown, Said, Reporting, Operations,
     Idle, Writes
<1>6. CASE Saved
  BY <1>6 DEF Saved, Ended, Safe, Consistent, OneWrite, SessionKnown, Said, Reporting,
     Operations, Idle, Unwritten
<1>7. CASE Interrupt
  BY <1>7 DEF Interrupt, Safe, Consistent, OneWrite, SessionKnown, Said, Reporting, Operations
<1>8. CASE StageExpires
  BY <1>8 DEF StageExpires, Safe, Consistent, OneWrite, SessionKnown, Said, Reporting, Operations
<1>9. CASE WriteFails
  <2>1. PICK s \in Settings :
            /\ Apart(s) /\ (s["telemetry"] => TelemetryEnabled)
            /\ object' = s /\ queue' = s["telemetry"]
            /\ writes' = [[writes EXCEPT !["request"] = Unwritten]
                             EXCEPT !["rollback"] = [at |-> "pending", value |-> s]]
    BY <1>9, HandedFacts DEF WriteFails, Handed, Safe, Consistent
  <2>2. op.phase \in {"write", "drain"} /\ op' = [op EXCEPT !.phase = "restore"]
        /\ UNCHANGED <<disk, explicit, sender, session, epoch, answer>>
    BY <1>9 DEF WriteFails
  <2> QED
    <3>0. \A k \in Kinds : writes'[k].value \in {s, Unwritten.value}
      BY <2>1
    <3>1. Consistent'
      <4>1. Apart(disk') /\ Apart(object')
        BY <2>1, <2>2 DEF Safe, Consistent
      <4>2. Apart(op'.old)
        BY <2>2 DEF Safe, Consistent, Operations
      <4>3. \A k \in Kinds : Apart(writes'[k].value)
        BY <2>1, <3>0
      <4> QED
        BY <4>1, <4>2, <4>3 DEF Consistent
    <3>2. OneWrite'
      BY <2>1, <2>2 DEF Safe, OneWrite, Writes, Unwritten, Operations
    <3>3. SessionKnown'
      BY <2>1, <2>2 DEF Safe, SessionKnown, Operations
    <3>4. Said'
      BY <2>1, <2>2 DEF Safe, Said, Operations
    <3>5. Reporting'
      BY <2>1, <2>2 DEF Safe, Reporting, Operations, Settings, Fields
    <3> QED
      BY <3>1, <3>2, <3>3, <3>4, <3>5 DEF Safe
<1>10. CASE WriteEndsLate
  BY <1>10 DEF WriteEndsLate, Ended, Unknown, Safe, Consistent, OneWrite, SessionKnown, Said,
     Reporting, Operations, Idle, Unwritten
<1>11. CASE Restored
  BY <1>11 DEF Restored, Ended, Safe, Consistent, OneWrite, SessionKnown, Said, Reporting,
     Operations, Idle, Unwritten
<1>12. CASE RestoreFails
  BY <1>12 DEF RestoreFails, Ended, Unknown, Safe, Consistent, OneWrite, SessionKnown, Said,
     Reporting, Operations, Idle, Unwritten
<1>13. CASE WriteExpires
  BY <1>13 DEF WriteExpires, Ended, Safe, Consistent, OneWrite, SessionKnown, Said, Reporting,
     Operations, Idle, Unwritten
<1>14. CASE Expire
  BY <1>14 DEF Expire, Safe, Consistent, OneWrite, SessionKnown, Said, Reporting, Operations
<1>15. CASE EndProcess
  BY <1>15 DEF EndProcess, Safe, Consistent, OneWrite, SessionKnown, Said, Reporting,
     Operations, Idle, Unwritten
<1>16. CASE NewProcess
  BY <1>16 DEF NewProcess, Safe, Consistent, OneWrite, SessionKnown, Said, Reporting, Operations
<1>17. CASE UNCHANGED vars
  BY <1>17 DEF vars, Safe, Consistent, OneWrite, SessionKnown, Said, Reporting, Operations
<1> QED
  BY <1>1, <1>2, <1>3, <1>4, <1>5, <1>6, <1>7, <1>8, <1>9, <1>10, <1>11, <1>12, <1>13, <1>14,
     <1>15, <1>16, <1>17 DEF Next, CoreSteps, Read, Update

\* The invariant holds at first, is kept, and so always holds.
LEMMA IInvHolds == Spec => []IInv
<1>1. Init => IInv
  <2> SUFFICES ASSUME Init PROVE IInv
    OBVIOUS
  <2>1. disk \in Settings /\ Apart(disk)
    BY DEF Init, Apart, Settings
  <2>2. Idle \in Operations /\ Unwritten \in Writes
    BY ConstantTypes DEF Idle, Operations, Unwritten, Writes
  <2>3. TypeOK
    BY <2>1, <2>2 DEF Init, TypeOK, Answers, Answer
  <2>4. Safe
    BY <2>1, ConstantTypes
    DEF Init, Safe, Consistent, OneWrite, SessionKnown, Said, Reporting, Idle, Unwritten,
        Answer, Quiet, Writing, Live
  <2> QED
    BY <2>3, <2>4 DEF IInv
<1>2. IInv /\ [Next]_vars => IInv'
  BY TypeStep, SafeStep DEF IInv
<1> QED
  BY <1>1, <1>2, PTL DEF Spec

-----------------------------------------------------------------------------

\* The settings, the writes of Core's worker and the operation keep their types.
THEOREM SettingsTypes == Spec => []TypeOK
<1>1. IInv => TypeOK
  BY DEF IInv
<1> QED
  BY <1>1, IInvHolds, PTL

\* Whatever changes are asked for and however Core ends its writes, a save does
\* what it was answered with, and no two settings that exclude each other are saved.
THEOREM SavesSettle == Spec => []SaveSettled
<1>1. IInv => SaveSettled
  BY DEF IInv, Safe, SaveSettled, AnswerHolds, Compatible, Consistent, Apart, OneWrite, Said,
     Writing
<1> QED
  BY <1>1, IInvHolds, PTL

\* Between the operations of a session nothing is collected without a preference
\* on disk, and no crash reports are sent, whatever Core mirrors on a load.
THEOREM ReportingStaysOff == Spec => []OptionalReportingOff
<1>1. IInv => OptionalReportingOff
  BY DEF IInv, Safe, OptionalReportingOff, Reporting, Writing
<1> QED
  BY <1>1, IInvHolds, PTL

================================================================================
