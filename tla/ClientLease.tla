----------------------------- MODULE ClientLease -----------------------------
(***************************************************************************)
(* The frontends of the backend: ClientAuthorizer (client_authorization),  *)
(* BackendLifetime (lifetime), the handshake of VpnDbusService and the     *)
(* one-use keys of SecretPayloadReader.                                    *)
(*                                                                         *)
(* A frontend registers its unique bus name as a lease.  Its identity and  *)
(* ownership are probed over the bus while other calls, the loss of the    *)
(* name and the idle deadline go on; whatever happened meanwhile is looked *)
(* up again when the probe returns.                                        *)
(*                                                                         *)
(* Simplifications:                                                        *)
(*  - the counts of pending authorizations and registrations are the       *)
(*    coroutines between their increment and their finally;                *)
(*  - the probes succeed for a trusted frontend that owns its name at the  *)
(*    moment of the answer, and may fail or time out at any moment;        *)
(*  - the bus never reuses a unique name, and reports its loss after the   *)
(*    last message of its owner;                                           *)
(*  - time is one bit: whether the idle grace has run out;                 *)
(*  - SIGINT and SIGTERM, which set the same event, are left out;          *)
(*  - the demo mode, which trusts every name, is left out.                 *)
(***************************************************************************)
EXTENDS Naturals, FiniteSets

CONSTANTS
    Names,          \* unique bus names
    Trusted,        \* those of them that are installed frontends
    Calls,          \* asynchronous calls that may be in flight
    ClientOf,       \* the sender of each
    MethodOf,       \* and its method
    Operations,     \* SECRET_DESCRIPTOR_METHODS
    MaxKeys,        \* _maximum_pending_keys
    Snapshots,      \* what the controller may publish
    MaxGeneration   \* bound of the model: departures during one registration

Methods == {"authorize", "register", "secret"}
SnapshotRecords == [ready : BOOLEAN, state : {"starting", "error", "disconnected", "connected"},
                    busy : BOOLEAN, capture : BOOLEAN]

ASSUME LeaseAssumption ==
    /\ Trusted \subseteq Names
    /\ ClientOf \in [Calls -> Names]
    /\ MethodOf \in [Calls -> Methods]
    /\ MaxKeys \in Nat /\ MaxGeneration \in Nat
    /\ Snapshots \subseteq SnapshotRecords

VARIABLES
    alive,          \* names that have an owner on the bus
    heard,          \* names whose loss the backend has been told
    authorized,     \* ClientAuthorizer._authorized
    tombstones,     \* ClientAuthorizer._revoked_while_pending
    keys,           \* SecretPayloadReader._private_keys
    clients,        \* BackendLifetime._clients
    generations,    \* BackendLifetime._client_generations
    place,          \* where each call is
    generationOf,   \* the generation a registration captured
    snapshot,       \* the controller's snapshot
    recovery,       \* what earlier processes left to clean up: files, read at each look
    changed,        \* BackendLifetime._changed
    idle,           \* _idle_since: none, counting, or the grace has run out
    stopped,        \* the event that ends the service
    ingress,        \* whether new calls are adopted
    overtaken       \* history: registrations whose frontend left meanwhile

busVars == <<alive, heard>>
authVars == <<authorized, tombstones, keys>>
leaseVars == <<clients, generations>>
callVars == <<place, generationOf, overtaken>>
needVars == <<snapshot, recovery>>
loopVars == <<needVars, changed, idle, stopped, ingress>>
vars == <<busVars, authVars, leaseVars, callVars, loopVars>>

Init ==
    /\ alive = Names /\ heard = {}
    /\ authorized = {} /\ tombstones = {} /\ keys = {}
    /\ clients = {} /\ generations = [c \in Names |-> 0]
    /\ place = [k \in Calls |-> "idle"]
    /\ generationOf = [k \in Calls |-> 0]
    /\ overtaken = {}
    /\ snapshot \in {s \in Snapshots : ~s.ready /\ s.state = "starting"}
    /\ recovery \in {"none", "pending"}
    /\ changed = TRUE /\ idle = "none" /\ stopped = FALSE /\ ingress = "open"

-----------------------------------------------------------------------------
(* The handshake in flight. *)

Probing(k) == place[k] \in {"probing", "confirmed"}
Registering(k) == MethodOf[k] = "register" /\ Probing(k)

\* The authorizations of c that are pending, and its registrations.
Authorizations(c) == {k \in Calls : ClientOf[k] = c /\ Probing(k)}
Registrations(c) == {k \in Calls : ClientOf[k] = c /\ Registering(k)}

\* The service listens to c: its loss was not reported, ingress is open.
Hears(c) == c \notin heard /\ ingress = "open"

\* Mutants: the tombstone goes with the first probe that ends, or stays.
TombstonesAfterAny(k) == tombstones \ {ClientOf[k]}
TombstonesForever(k) == tombstones

\* authorize(), finally: the tombstone goes with the last pending probe.
TombstonesAfter(k) ==
    IF Authorizations(ClientOf[k]) = {k} THEN tombstones \ {ClientOf[k]} ELSE tombstones

\* _finish_registration: the last one forgets the generation.
GenerationsAfter(k) ==
    IF Registrations(ClientOf[k]) = {k} THEN [generations EXCEPT ![ClientOf[k]] = 0]
    ELSE generations

\* Mutants: the event is not set; the grace that runs goes on.
TouchIdleOnly == idle' = "none" /\ UNCHANGED changed
TouchEventOnly == changed' = TRUE /\ UNCHANGED idle

\* A change of the leases wakes the loop and starts a fresh grace.
TouchLeases == idle' = "none" /\ changed' = TRUE

-----------------------------------------------------------------------------
(* The bus. *)

Vanish(c) ==
    /\ c \in alive
    /\ alive' = alive \ {c}
    /\ UNCHANGED <<heard, authVars, leaseVars, callVars, loopVars>>

RevokedWhilePending(c) == Authorizations(c) # {}

\* Mutant: the departure of a frontend without a lease is ignored.
GenerationAfterLease(c) ==
    IF c \in clients /\ Registrations(c) # {} THEN generations[c] + 1 ELSE generations[c]

\* unregister_client: the lease ends, a registration in flight is outdated.
GenerationAfter(c) == IF Registrations(c) # {} THEN generations[c] + 1 ELSE 0

UnregisterClient(c) ==
    /\ generations' = [generations EXCEPT ![c] = GenerationAfter(c)]
    /\ clients' = clients \ {c}
    /\ IF Registrations(c) # {} \/ c \in clients
         THEN TouchLeases
         ELSE UNCHANGED <<idle, changed>>

\* NameOwnerChanged: revoke() and its two callbacks.
HearLoss(c) ==
    /\ c \notin alive /\ c \notin heard
    /\ heard' = heard \cup {c}
    /\ tombstones' = IF RevokedWhilePending(c) THEN tombstones \cup {c} ELSE tombstones
    /\ IF c \in authorized
         THEN /\ authorized' = authorized \ {c}
              /\ keys' = {key \in keys : key[1] # c}
              /\ UnregisterClient(c)
         ELSE UNCHANGED <<authorized, keys, leaseVars, idle, changed>>
    /\ overtaken' = overtaken \cup Registrations(c)
    /\ UNCHANGED <<alive, place, generationOf, needVars, stopped, ingress>>

-----------------------------------------------------------------------------
(* Calls.  A coroutine starts in a later turn of the loop than its message. *)

Receive(k) ==
    /\ place[k] = "idle" /\ Hears(ClientOf[k])
    /\ MethodOf[k] = "secret" => ClientOf[k] \in authorized
    /\ place' = [place EXCEPT ![k] = "queued"]
    /\ UNCHANGED <<busVars, authVars, leaseVars, generationOf, overtaken, loopVars>>

\* authorize_client, register_client up to the probe.
Begin(k) ==
    /\ place[k] = "queued" /\ MethodOf[k] # "secret"
    /\ place' = [place EXCEPT ![k] = "probing"]
    /\ IF MethodOf[k] = "register"
         THEN /\ generationOf' = [generationOf EXCEPT ![k] = generations[ClientOf[k]]]
              /\ TouchLeases
         ELSE UNCHANGED <<generationOf, idle, changed>>
    /\ UNCHANGED <<busVars, authVars, leaseVars, overtaken, needVars, stopped, ingress>>

\* Both probes answered yes; the coroutine has not been resumed.
Confirm(k) ==
    /\ place[k] = "probing"
    /\ ClientOf[k] \in Trusted \cap alive
    /\ place' = [place EXCEPT ![k] = "confirmed"]
    /\ UNCHANGED <<busVars, authVars, leaseVars, generationOf, overtaken, loopVars>>

\* The end of the coroutine: both finally blocks.
EndHandshake(k) ==
    /\ place' = [place EXCEPT ![k] = "idle"]
    /\ generationOf' = [generationOf EXCEPT ![k] = 0]
    /\ overtaken' = overtaken \ {k}
    /\ tombstones' = TombstonesAfter(k)
    /\ IF MethodOf[k] = "register"
         THEN generations' = GenerationsAfter(k) /\ TouchLeases
         ELSE UNCHANGED <<generations, idle, changed>>
    /\ UNCHANGED <<busVars, keys, needVars, stopped, ingress>>

\* A probe says no, fails or times out, or the name was lost meanwhile.
Refuse(k) ==
    /\ Probing(k)
    /\ EndHandshake(k)
    /\ UNCHANGED <<authorized, clients>>

Current(k) == generationOf[k] = generations[ClientOf[k]]

Admit(k) ==
    /\ place[k] = "confirmed" /\ ClientOf[k] \notin tombstones
    /\ EndHandshake(k)
    /\ authorized' = authorized \cup {ClientOf[k]}
    /\ clients' = IF MethodOf[k] = "register" /\ Current(k)
                    THEN clients \cup {ClientOf[k]} ELSE clients

\* UnregisterClient runs in the turn of its message.
Unregister(c) ==
    /\ Hears(c)
    /\ generations[c] < MaxGeneration
    /\ UnregisterClient(c)
    /\ overtaken' = overtaken \cup Registrations(c)
    /\ UNCHANGED <<busVars, authVars, place, generationOf, needVars, stopped, ingress>>

\* Mutant: one key too many.
HasRoomAtLimit(key) == key \in keys \/ Cardinality(keys) <= MaxKeys

HasRoom(key) == key \in keys \/ Cardinality(keys) < MaxKeys

\* GetAuthPublicKey: a second key for the same operation replaces the first.
IssueKey(c, op) ==
    /\ Hears(c) /\ c \in authorized
    /\ HasRoom(<<c, op>>)
    /\ keys' = keys \cup {<<c, op>>}
    /\ UNCHANGED <<busVars, authorized, tombstones, leaseVars, callVars, loopVars>>

\* A protected payload: authority is checked again, its key is used up.
ReadSecret(k, op) ==
    /\ place[k] = "queued" /\ MethodOf[k] = "secret"
    /\ place' = [place EXCEPT ![k] = "idle"]
    /\ keys' = IF ClientOf[k] \in authorized THEN keys \ {<<ClientOf[k], op>>} ELSE keys
    /\ UNCHANGED <<busVars, authorized, tombstones, leaseVars, generationOf, overtaken, loopVars>>

-----------------------------------------------------------------------------
(* BackendLifetime.run. *)

\* start() ends once: the backend is ready from then on, or has failed.
Follows(s) ==
    CASE snapshot.ready -> s.ready /\ s.state # "starting"
      [] ~snapshot.ready /\ snapshot.state = "error" -> ~s.ready /\ s.state = "error"
      [] OTHER -> TRUE

\* Once the backend is ready nobody asks about the records again.
Publish(s) ==
    /\ s # snapshot /\ Follows(s)
    /\ snapshot' = s /\ changed' = TRUE
    /\ recovery' = IF s.ready THEN "none" ELSE recovery
    /\ UNCHANGED <<busVars, authVars, leaseVars, callVars, idle, stopped, ingress>>

\* initialize() clears the record of a capture or of an account transition; its
\* publications are held back until it returns, so nothing wakes the loop.
ClearRecovery ==
    /\ snapshot.state = "starting" /\ recovery = "pending"
    /\ recovery' = "cleared"
    /\ UNCHANGED <<busVars, authVars, leaseVars, callVars, snapshot, changed, idle, stopped, ingress>>

MayExit ==
    /\ clients = {} /\ \A c \in Names : Registrations(c) = {}
    /\ IF snapshot.ready
         THEN snapshot.state = "disconnected" /\ ~snapshot.busy /\ ~snapshot.capture
         ELSE snapshot.state \in {"starting", "error"} /\ recovery # "pending"

GraceElapses ==
    /\ idle = "counting"
    /\ idle' = "elapsed"
    /\ UNCHANGED <<busVars, authVars, leaseVars, callVars, needVars, changed, stopped, ingress>>

\* One turn: clear the event, look, then wait for it or for the deadline.
LoopTurn ==
    /\ ~stopped /\ (changed \/ idle = "elapsed")
    /\ changed' = FALSE
    /\ idle' = IF ~MayExit THEN "none" ELSE IF idle = "none" THEN "counting" ELSE idle
    /\ stopped' = (MayExit /\ idle = "elapsed")
    /\ UNCHANGED <<busVars, authVars, leaseVars, callVars, needVars, ingress>>

CloseIngress ==
    /\ stopped /\ ingress = "open"
    /\ ingress' = "closed"
    /\ UNCHANGED <<busVars, authVars, leaseVars, callVars, needVars, changed, idle, stopped>>
-----------------------------------------------------------------------------
Next ==
    \/ \E c \in Names : Vanish(c) \/ HearLoss(c) \/ Unregister(c)
    \/ \E c \in Names, op \in Operations : IssueKey(c, op)
    \/ \E k \in Calls : Receive(k) \/ Begin(k) \/ Confirm(k) \/ Refuse(k) \/ Admit(k)
    \/ \E k \in Calls, op \in Operations : ReadSecret(k, op)
    \/ \E s \in Snapshots : Publish(s)
    \/ ClearRecovery \/ GraceElapses \/ LoopTurn \/ CloseIngress

Spec == Init /\ [][Next]_vars

\* The loop task runs when its event is set or its timer is due, and it is due
\* at some time unless it is reset.
FairSpec == Spec /\ WF_vars(LoopTurn) /\ WF_vars(GraceElapses)

-----------------------------------------------------------------------------
(* Properties. *)

TypeOK ==
    /\ alive \subseteq Names /\ heard \subseteq Names \ alive
    /\ authorized \subseteq Trusted /\ tombstones \subseteq Names
    /\ keys \subseteq Names \X Operations /\ Cardinality(keys) <= MaxKeys
    /\ clients \subseteq Names
    /\ generations \in [Names -> 0..MaxGeneration + 1]
    /\ place \in [Calls -> {"idle", "queued", "probing", "confirmed"}]
    /\ generationOf \in [Calls -> 0..MaxGeneration + 1]
    /\ overtaken \subseteq Calls
    /\ snapshot \in Snapshots /\ recovery \in {"none", "pending", "cleared"}
    /\ changed \in BOOLEAN
    /\ idle \in {"none", "counting", "elapsed"}
    /\ stopped \in BOOLEAN /\ ingress \in {"open", "closed"}

\* A frontend whose loss was reported keeps no authority, no lease and no key,
\* even where the report came between its probe and the end of the handshake.
LostHoldNothing ==
    \A c \in heard :
        /\ c \notin authorized /\ c \notin clients
        /\ \A key \in keys : key[1] # c

\* What is remembered about a frontend that left goes with its last handshake,
\* or a name that never comes back would be remembered for ever.
NoResidue ==
    \A c \in Names :
        /\ Authorizations(c) = {} => c \notin tombstones
        /\ Registrations(c) = {} => generations[c] = 0

\* The grace starts afresh with every change of the leases: the deadline of an
\* earlier idle time never ends a service that was needed since.
FreshGrace ==
    [][(clients' # clients \/ \E c \in Names : Registrations(c)' # Registrations(c))
         => idle' = "none"]_vars

\* An initialization that has cleared what it had to recover goes on to its end.
RecoveredStartEnds ==
    recovery = "cleared" /\ snapshot.state = "starting" ~> snapshot.state # "starting"

\* A service nobody needs any more ends, be it starting, ready or failed: no
\* change of the leases or of the snapshot is lost between a look at them and the
\* wait for the next.  A cleared recovery wakes nobody; the end of the
\* initialization that cleared it does.
IdleServiceStops == RecoveredStartEnds /\ <>[]MayExit => <>stopped

\* The registrations that may still be granted.
Asks == {k \in Calls : Registering(k) /\ k \notin overtaken /\ ClientOf[k] \notin heard}

Promise == INSTANCE LeasePromise WITH leases <- clients, asks <- Asks, lost <- heard

\* Leases are granted, taken back and outlived as promised.
ImplementsLeases == Promise!Spec
=============================================================================
