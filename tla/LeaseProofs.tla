----------------------------- MODULE LeaseProofs -----------------------------
(***************************************************************************)
(* The proofs about ClientLease, for all names, calls, snapshots and       *)
(* bounds: a frontend that was lost holds nothing, nothing is remembered   *)
(* of one that left, every change of the leases restarts the grace, and    *)
(* the leases are those that LeasePromise promises.                        *)
(*                                                                         *)
(* LostHoldNothing is not inductive: what a handshake may still grant is   *)
(* decided by the tombstone of its frontend (Held), and whether it grants  *)
(* a lease by the generation it captured (Dated).                          *)
(*                                                                         *)
(* And about AgentClient, the other side of a lease, for all bounds: the   *)
(* resident agent counts on none that its service does not hold.           *)
(***************************************************************************)
EXTENDS ClientLease, AgentLease, Sequences, Integers, FiniteSetTheorems, TLAPS

Places == {"idle", "queued", "probing", "confirmed"}

\* TypeOK without its Boolean variables and the table of keys.
Typed ==
    /\ alive \subseteq Names /\ heard \subseteq Names \ alive
    /\ authorized \subseteq Trusted /\ tombstones \subseteq Names
    /\ clients \subseteq Names
    /\ generations \in [Names -> Nat]
    /\ place \in [Calls -> Places]
    /\ generationOf \in [Calls -> Nat]
    /\ overtaken \subseteq Calls
    /\ \A k \in Calls : place[k] = "confirmed" => ClientOf[k] \in Trusted

\* Leases and keys come with authority, and a confirmed handshake of a
\* frontend whose loss was reported meets a tombstone.
Held ==
    /\ clients \subseteq authorized
    /\ \A key \in keys : key[1] \in authorized
    /\ \A c \in heard : c \notin authorized
    /\ \A k \in Calls : place[k] = "confirmed" /\ ClientOf[k] \in heard => ClientOf[k] \in tombstones

\* A registration that was overtaken has captured an earlier generation.
Dated ==
    \A k \in Calls :
        /\ k \in overtaken => Registering(k)
        /\ Registering(k) => generationOf[k] <= generations[ClientOf[k]]
        /\ k \in overtaken /\ ClientOf[k] \notin heard => generationOf[k] < generations[ClientOf[k]]

LeaseInv == Typed /\ Held /\ NoResidue /\ Dated

-----------------------------------------------------------------------------
(* The handshakes before and after a call moves. *)

\* Call k moves from p to q: nobody else's handshake changes.
LEMMA Moves ==
    ASSUME Typed, NEW k \in Calls, NEW q \in Places, place' = [place EXCEPT ![k] = q]
    PROVE /\ \A j \in Calls : j # k => (Probing(j)' <=> Probing(j)) /\ (Registering(j)' <=> Registering(j))
          /\ Probing(k)' <=> q \in {"probing", "confirmed"}
          /\ Registering(k)' <=> MethodOf[k] = "register" /\ q \in {"probing", "confirmed"}
BY DEF Typed, Probing, Registering

\* A move that neither begins nor ends a handshake changes no set of them.
LEMMA StillProbing ==
    ASSUME \A j \in Calls : Probing(j)' <=> Probing(j)
    PROVE \A c \in Names : Authorizations(c)' = Authorizations(c) /\ Registrations(c)' = Registrations(c)
BY DEF Authorizations, Registrations, Registering

LEMMA SamePlaces ==
    ASSUME place' = place
    PROVE \A c \in Names : Authorizations(c)' = Authorizations(c) /\ Registrations(c)' = Registrations(c)
BY DEF Authorizations, Registrations, Registering, Probing

-----------------------------------------------------------------------------
(* The invariant. *)

LEMMA InitLease == Init => LeaseInv
<1> SUFFICES ASSUME Init PROVE LeaseInv
  OBVIOUS
<1>1. Typed
  BY DEF Init, Typed, Places
<1>2. Held
  BY DEF Init, Held
<1>3. NoResidue
  BY DEF Init, NoResidue
<1>4. Dated
  BY DEF Init, Dated, Registering, Probing
<1> QED BY <1>1, <1>2, <1>3, <1>4 DEF LeaseInv

LEMMA HearLossKeeps ==
    ASSUME LeaseInv, NEW c \in Names, HearLoss(c)
    PROVE LeaseInv'
<1> USE LeaseAssumption DEF LeaseInv
<1>1. \A d \in Names : Authorizations(d)' = Authorizations(d) /\ Registrations(d)' = Registrations(d)
  BY SamePlaces DEF HearLoss
<1>2. Typed'
  <2>1. /\ alive' \subseteq Names /\ heard' \subseteq Names \ alive'
        /\ authorized' \subseteq Trusted /\ tombstones' \subseteq Names
        /\ UNCHANGED <<place, generationOf>> /\ overtaken' \subseteq Calls
    BY DEF HearLoss, Typed, Registrations
  <2>2. clients' \subseteq Names /\ generations' \in [Names -> Nat]
    BY DEF HearLoss, UnregisterClient, GenerationAfter, leaseVars, Typed
  <2> QED BY <2>1, <2>2 DEF Typed
<1>3. Held'
  <2>1. \A k \in Calls : place[k] = "confirmed" => k \in Authorizations(ClientOf[k])
    BY DEF Authorizations, Probing
  <2> QED BY <2>1 DEF HearLoss, UnregisterClient, RevokedWhilePending, leaseVars, Held, Typed
<1>4. NoResidue'
  BY <1>1 DEF HearLoss, UnregisterClient, GenerationAfter, RevokedWhilePending, leaseVars, NoResidue, Typed
<1>5. Dated'
  <2>1. \A k \in Calls : Registering(k)' <=> Registering(k)
    BY DEF HearLoss, Registering, Probing
  <2>2. \A k \in Calls : k \in Registrations(c) <=> ClientOf[k] = c /\ Registering(k)
    BY DEF Registrations
  <2>3. \A k \in Calls : Registering(k) =>
            generations'[ClientOf[k]] \in Nat /\ generations[ClientOf[k]] \in Nat
            /\ generations[ClientOf[k]] <= generations'[ClientOf[k]]
    BY <2>2 DEF HearLoss, UnregisterClient, GenerationAfter, leaseVars, Typed
  <2> QED BY <2>1, <2>2, <2>3 DEF HearLoss, Dated, Typed, Registrations
<1> QED BY <1>2, <1>3, <1>4, <1>5

LEMMA UnregisterKeeps ==
    ASSUME LeaseInv, NEW c \in Names, Unregister(c)
    PROVE LeaseInv'
<1> USE LeaseAssumption DEF LeaseInv
<1>1. \A d \in Names : Authorizations(d)' = Authorizations(d) /\ Registrations(d)' = Registrations(d)
  BY SamePlaces DEF Unregister
<1>2. Typed'
  BY DEF Unregister, UnregisterClient, GenerationAfter, Typed, busVars, authVars, Registrations
<1>3. Held'
  BY DEF Unregister, UnregisterClient, Held, busVars, authVars
<1>4. NoResidue'
  BY <1>1 DEF Unregister, UnregisterClient, GenerationAfter, NoResidue, Typed, authVars
<1>5. Dated'
  <2>1. \A k \in Calls : Registering(k)' <=> Registering(k)
    BY DEF Unregister, Registering, Probing
  <2>2. \A k \in Calls : k \in Registrations(c) <=> ClientOf[k] = c /\ Registering(k)
    BY DEF Registrations
  <2>3. \A k \in Calls : Registering(k) =>
            /\ generations'[ClientOf[k]] \in Nat /\ generations[ClientOf[k]] \in Nat
            /\ generations'[ClientOf[k]] =
                   IF ClientOf[k] = c THEN generations[ClientOf[k]] + 1 ELSE generations[ClientOf[k]]
    BY <2>2 DEF Unregister, UnregisterClient, GenerationAfter, Typed
  <2> QED BY <2>1, <2>2, <2>3 DEF Unregister, Dated, Typed, busVars
<1> QED BY <1>2, <1>3, <1>4, <1>5

LEMMA BeginKeeps ==
    ASSUME LeaseInv, NEW k \in Calls, Begin(k)
    PROVE LeaseInv'
<1> USE LeaseAssumption DEF LeaseInv
<1>1. place' = [place EXCEPT ![k] = "probing"] /\ ~Probing(k)
  BY DEF Begin, Probing
<1>2. /\ \A j \in Calls : j # k => (Probing(j)' <=> Probing(j)) /\ (Registering(j)' <=> Registering(j))
      /\ Probing(k)' /\ (Registering(k)' <=> MethodOf[k] = "register")
  BY <1>1, Moves DEF Places
<1>3. Typed'
  BY <1>1 DEF Begin, Typed, Places, busVars, authVars, leaseVars
<1>4. Held'
  BY <1>1 DEF Begin, Held, Typed, busVars, authVars, leaseVars
<1>5. NoResidue'
  <2>1. \A c \in Names : Authorizations(c) \subseteq Authorizations(c)' /\ Registrations(c) \subseteq Registrations(c)'
    BY <1>1, <1>2 DEF Authorizations, Registrations, Registering
  <2> QED BY <2>1 DEF Begin, NoResidue, authVars, leaseVars
<1>6. Dated'
  <2>1. \A j \in Calls : j # k => generationOf'[j] = generationOf[j]
    BY DEF Begin, Typed
  <2>2. MethodOf[k] = "register" => generationOf'[k] = generations[ClientOf[k]]
    BY DEF Begin, Typed
  <2>3. k \notin overtaken
    BY <1>1 DEF Dated, Registering
  <2>4. generations[ClientOf[k]] \in Nat
    BY DEF Typed
  <2> QED BY <1>2, <2>1, <2>2, <2>3, <2>4 DEF Begin, Dated, busVars, leaseVars
<1> QED BY <1>3, <1>4, <1>5, <1>6

\* Neither the arrival of a call nor an answer nor a payload ends a handshake.
LEMMA MoveKeeps ==
    ASSUME LeaseInv, NEW k \in Calls, NEW q \in Places,
           place' = [place EXCEPT ![k] = q], Probing(k)' <=> Probing(k),
           q = "confirmed" => ClientOf[k] \in Trusted \cap alive,
           keys' \subseteq keys, UNCHANGED <<busVars, authorized, tombstones, leaseVars, generationOf, overtaken>>
    PROVE LeaseInv'
<1> USE LeaseAssumption DEF LeaseInv
<1>1. \A j \in Calls : (Probing(j)' <=> Probing(j)) /\ (Registering(j)' <=> Registering(j))
  BY Moves DEF Registering
<1>2. \A c \in Names : Authorizations(c)' = Authorizations(c) /\ Registrations(c)' = Registrations(c)
  BY <1>1, StillProbing
<1>3. Typed'
  BY DEF Typed, busVars, leaseVars, Places
<1>4. Held'
  BY DEF Typed, Held, busVars, leaseVars
<1>5. NoResidue'
  BY <1>2 DEF NoResidue, leaseVars
<1>6. Dated'
  BY <1>1 DEF Dated, busVars, leaseVars
<1> QED BY <1>3, <1>4, <1>5, <1>6

\* A handshake ends, with authority and a lease for its frontend or without.
LEMMA EndKeeps ==
    ASSUME LeaseInv, NEW k \in Calls, EndHandshake(k), Probing(k),
           authorized' = authorized \/ (authorized' = authorized \cup {ClientOf[k]}
               /\ place[k] = "confirmed" /\ ClientOf[k] \notin tombstones),
           clients' = clients \/ (clients' = clients \cup {ClientOf[k]} /\ ClientOf[k] \in authorized')
    PROVE LeaseInv'
<1> USE LeaseAssumption DEF LeaseInv
<1>1. place' = [place EXCEPT ![k] = "idle"]
  BY DEF EndHandshake
<1>2. /\ \A j \in Calls : j # k => (Probing(j)' <=> Probing(j)) /\ (Registering(j)' <=> Registering(j))
      /\ ~Probing(k)' /\ ~Registering(k)'
  BY <1>1, Moves DEF Places
<1>3. /\ \A j \in Calls : j \in Authorizations(ClientOf[k]) <=> ClientOf[j] = ClientOf[k] /\ Probing(j)
      /\ \A j \in Calls : j \in Registrations(ClientOf[k]) <=> ClientOf[j] = ClientOf[k] /\ Registering(j)
  BY DEF Authorizations, Registrations
<1>4. Typed'
  BY <1>1 DEF EndHandshake, TombstonesAfter, GenerationsAfter, Typed, Places, busVars
<1>5. Held'
  BY <1>1, <1>3 DEF EndHandshake, TombstonesAfter, Held, Typed, Probing, busVars
<1>6. NoResidue'
  <2>1. \A c \in Names : c # ClientOf[k] =>
            Authorizations(c)' = Authorizations(c) /\ Registrations(c)' = Registrations(c)
    BY <1>2 DEF Authorizations, Registrations
  <2>2. Authorizations(ClientOf[k])' = {} => Authorizations(ClientOf[k]) = {k}
    BY <1>2 DEF Authorizations
  <2>3. Registrations(ClientOf[k])' = {} /\ Registering(k) => Registrations(ClientOf[k]) = {k}
    BY <1>2 DEF Registrations
  <2>4. ~Registering(k) => Registrations(ClientOf[k])' = Registrations(ClientOf[k])
    BY <1>2 DEF Registrations
  <2>5. MethodOf[k] = "register" <=> Registering(k)
    BY DEF Registering
  <2> QED BY <2>1, <2>2, <2>3, <2>4, <2>5 DEF EndHandshake, TombstonesAfter, GenerationsAfter, NoResidue, Typed
<1>7. Dated'
  <2>1. \A j \in Calls : j # k /\ Registering(j) => generations'[ClientOf[j]] = generations[ClientOf[j]]
    BY <1>3 DEF EndHandshake, GenerationsAfter, Typed
  <2>2. \A j \in Calls : j # k => generationOf'[j] = generationOf[j]
    BY DEF EndHandshake, Typed
  <2> QED BY <1>2, <2>1, <2>2 DEF EndHandshake, Dated, busVars
<1> QED BY <1>4, <1>5, <1>6, <1>7

LEMMA StepLease == LeaseInv /\ [Next]_vars => LeaseInv'
<1> SUFFICES ASSUME LeaseInv, [Next]_vars PROVE LeaseInv'
  OBVIOUS
<1>1. ASSUME NEW c \in Names, Vanish(c) PROVE LeaseInv'
  <2>1. \A d \in Names : Authorizations(d)' = Authorizations(d) /\ Registrations(d)' = Registrations(d)
    BY <1>1, SamePlaces DEF Vanish, callVars
  <2> QED BY <1>1, <2>1 DEF LeaseInv, Vanish, Typed, Held, NoResidue, Dated, Registering, Probing,
             authVars, leaseVars, callVars
<1>2. ASSUME NEW c \in Names, NEW op \in Operations, IssueKey(c, op) PROVE LeaseInv'
  <2>1. \A d \in Names : Authorizations(d)' = Authorizations(d) /\ Registrations(d)' = Registrations(d)
    BY <1>2, SamePlaces DEF IssueKey, callVars
  <2> QED BY <1>2, <2>1 DEF LeaseInv, IssueKey, Typed, Held, NoResidue, Dated, Registering, Probing,
             busVars, leaseVars, callVars
<1>3. ASSUME NEW k \in Calls, Receive(k) PROVE LeaseInv'
  BY <1>3, MoveKeeps, Moves DEF LeaseInv, Receive, Probing, Places, authVars
<1>4. ASSUME NEW k \in Calls, Confirm(k) PROVE LeaseInv'
  BY <1>4, MoveKeeps, Moves DEF LeaseInv, Confirm, Probing, Places, authVars
<1>5. ASSUME NEW k \in Calls, NEW op \in Operations, ReadSecret(k, op) PROVE LeaseInv'
  BY <1>5, MoveKeeps, Moves DEF LeaseInv, ReadSecret, Probing, Places
<1>6. ASSUME NEW k \in Calls, Refuse(k) PROVE LeaseInv'
  BY <1>6, EndKeeps DEF Refuse
<1>7. ASSUME NEW k \in Calls, Admit(k) PROVE LeaseInv'
  BY <1>7, EndKeeps DEF Admit, Probing
<1>8. ASSUME UNCHANGED <<busVars, authVars, leaseVars, callVars>> PROVE LeaseInv'
  <2>1. \A d \in Names : Authorizations(d)' = Authorizations(d) /\ Registrations(d)' = Registrations(d)
    BY <1>8, SamePlaces DEF callVars
  <2> QED BY <1>8, <2>1 DEF LeaseInv, Typed, Held, NoResidue, Dated, Registering, Probing,
             busVars, authVars, leaseVars, callVars
<1>9. CASE \/ \E s \in Snapshots : Publish(s)
           \/ ClearRecovery \/ GraceElapses \/ LoopTurn \/ CloseIngress \/ UNCHANGED vars
  BY <1>8, <1>9 DEF Publish, ClearRecovery, GraceElapses, LoopTurn, CloseIngress, vars
<1> QED
  BY <1>1, <1>2, <1>3, <1>4, <1>5, <1>6, <1>7, <1>9, HearLossKeeps, UnregisterKeeps, BeginKeeps
     DEF Next

\* The Boolean variables and the phases of the lifetime loop.
Flags ==
    /\ changed \in BOOLEAN /\ stopped \in BOOLEAN
    /\ idle \in {"none", "counting", "elapsed"} /\ ingress \in {"open", "closed"}
    /\ snapshot \in Snapshots /\ recovery \in {"none", "pending", "cleared"}

LEMMA FlagsKept == Flags /\ [Next]_vars => Flags'
<1> SUFFICES ASSUME Flags, [Next]_vars PROVE Flags'
  OBVIOUS
<1> USE DEF Flags, needVars
<1>1. ASSUME NEW c \in Names, HearLoss(c) \/ Unregister(c) PROVE Flags'
  BY <1>1 DEF HearLoss, Unregister, UnregisterClient, TouchLeases, leaseVars
<1>2. ASSUME NEW k \in Calls, Begin(k) \/ Refuse(k) \/ Admit(k) PROVE Flags'
  BY <1>2 DEF Begin, Refuse, Admit, EndHandshake, TouchLeases
<1>3. ASSUME UNCHANGED loopVars PROVE Flags'
  BY <1>3 DEF loopVars
<1>4. ASSUME NEW c \in Names, Vanish(c) \/ \E op \in Operations : IssueKey(c, op) PROVE Flags'
  BY <1>3, <1>4 DEF Vanish, IssueKey
<1>5. ASSUME NEW k \in Calls, Receive(k) \/ Confirm(k) \/ \E op \in Operations : ReadSecret(k, op)
      PROVE Flags'
  BY <1>3, <1>5 DEF Receive, Confirm, ReadSecret
<1>6. ASSUME NEW s \in Snapshots, Publish(s) PROVE Flags'
  BY <1>6 DEF Publish
<1>7. CASE ClearRecovery \/ GraceElapses \/ CloseIngress
  BY <1>7 DEF ClearRecovery, GraceElapses, CloseIngress
<1>8. CASE LoopTurn
  <2>1. changed' \in BOOLEAN /\ stopped' \in BOOLEAN
    BY <1>8 DEF LoopTurn
  <2>2. idle' \in {"none", "counting", "elapsed"} /\ UNCHANGED <<ingress, needVars>>
    BY <1>8 DEF LoopTurn
  <2> QED BY <2>1, <2>2
<1> QED
  BY <1>1, <1>2, <1>3, <1>4, <1>5, <1>6, <1>7, <1>8 DEF Next, vars

THEOREM FlagsInvariant == Spec => []Flags
<1>1. Init => Flags
  BY DEF Init, Flags
<1> QED BY <1>1, FlagsKept, PTL DEF Spec

THEOREM LeaseInvariant == Spec => []LeaseInv
BY InitLease, StepLease, PTL DEF Spec

\* A frontend whose loss was reported holds no authority, lease or key, however
\* its handshakes and the report interleave (ClientAuthorizer.revoke, authorize).
THEOREM LostFrontendsHoldNothing == Spec => []LostHoldNothing
<1>1. LeaseInv => LostHoldNothing
  BY DEF LeaseInv, Held, LostHoldNothing
<1> QED BY <1>1, LeaseInvariant, PTL

\* Tombstones and generations go with the last handshake of their frontend
\* (ClientAuthorizer.authorize, BackendLifetime._finish_registration).
THEOREM NothingIsRemembered == Spec => []NoResidue
<1>1. LeaseInv => NoResidue
  BY DEF LeaseInv
<1> QED BY <1>1, LeaseInvariant, PTL

-----------------------------------------------------------------------------
(* The grace and the promise. *)

\* A step that changes neither the leases nor a handshake.
LEMMA QuietStep ==
    ASSUME UNCHANGED <<clients, place, overtaken, heard>>
    PROVE UNCHANGED <<clients, Asks, heard>> /\ \A c \in Names : Registrations(c)' = Registrations(c)
BY SamePlaces DEF Asks, Registering, Probing

\* A call moves without beginning or ending a handshake.
LEMMA QuietMove ==
    ASSUME Typed, NEW k \in Calls, NEW q \in Places,
           place' = [place EXCEPT ![k] = q], Probing(k)' <=> Probing(k),
           UNCHANGED <<clients, overtaken, heard>>
    PROVE UNCHANGED <<clients, Asks, heard>> /\ \A c \in Names : Registrations(c)' = Registrations(c)
<1>1. \A j \in Calls : (Probing(j)' <=> Probing(j)) /\ (Registering(j)' <=> Registering(j))
  BY Moves DEF Registering
<1> QED BY <1>1, StillProbing DEF Asks

\* Only these steps begin, end or overtake a registration.
LEMMA QuietOrNot ==
    ASSUME LeaseInv, [Next]_vars
    PROVE \/ UNCHANGED <<clients, Asks, heard>> /\ (\A c \in Names : Registrations(c)' = Registrations(c))
          \/ \E c \in Names : HearLoss(c) \/ Unregister(c)
          \/ \E k \in Calls : Begin(k) \/ Refuse(k) \/ Admit(k)
<1>1. ASSUME NEW k \in Calls, Receive(k)
      PROVE UNCHANGED <<clients, Asks, heard>> /\ \A c \in Names : Registrations(c)' = Registrations(c)
  BY <1>1, QuietMove, Moves DEF LeaseInv, Receive, Probing, Places, busVars, leaseVars
<1>2. ASSUME NEW k \in Calls, Confirm(k)
      PROVE UNCHANGED <<clients, Asks, heard>> /\ \A c \in Names : Registrations(c)' = Registrations(c)
  BY <1>2, QuietMove, Moves DEF LeaseInv, Confirm, Probing, Places, busVars, leaseVars
<1>3. ASSUME NEW k \in Calls, NEW op \in Operations, ReadSecret(k, op)
      PROVE UNCHANGED <<clients, Asks, heard>> /\ \A c \in Names : Registrations(c)' = Registrations(c)
  BY <1>3, QuietMove, Moves DEF LeaseInv, ReadSecret, Probing, Places, busVars, leaseVars
<1>4. ASSUME \/ \E c \in Names : Vanish(c) \/ \E op \in Operations : IssueKey(c, op)
             \/ \E s \in Snapshots : Publish(s)
             \/ ClearRecovery \/ GraceElapses \/ LoopTurn \/ CloseIngress \/ UNCHANGED vars
      PROVE UNCHANGED <<clients, Asks, heard>> /\ \A c \in Names : Registrations(c)' = Registrations(c)
  BY <1>4, QuietStep DEF Vanish, IssueKey, Publish, ClearRecovery, GraceElapses, LoopTurn, CloseIngress,
     vars, busVars, leaseVars, callVars
<1> QED
  BY <1>1, <1>2, <1>3, <1>4 DEF Next

\* A handshake that is not a registration shows nothing of its end.
LEMMA EndOfAnother ==
    ASSUME LeaseInv, NEW k \in Calls, EndHandshake(k), ~Registering(k)
    PROVE UNCHANGED <<Asks, heard>> /\ \A c \in Names : Registrations(c)' = Registrations(c)
<1>1. \A j \in Calls : Registering(j)' <=> Registering(j)
  BY Moves DEF LeaseInv, EndHandshake, Places
<1>2. overtaken' = overtaken
  BY DEF LeaseInv, Dated, EndHandshake
<1> QED BY <1>1, <1>2 DEF Asks, Registrations, EndHandshake, busVars

LEMMA GraceRestarts ==
    ASSUME LeaseInv, [Next]_vars,
           clients' # clients \/ \E c \in Names : Registrations(c)' # Registrations(c)
    PROVE idle' = "none"
<1>1. ASSUME NEW c \in Names, HearLoss(c) \/ Unregister(c) PROVE idle' = "none"
  <2>1. \A d \in Names : Registrations(d)' = Registrations(d)
    BY <1>1, SamePlaces DEF HearLoss, Unregister
  <2>2. c \notin clients => clients \ {c} = clients
    OBVIOUS
  <2> QED BY <1>1, <2>1, <2>2 DEF HearLoss, Unregister, UnregisterClient, TouchLeases, leaseVars
<1>2. ASSUME NEW k \in Calls, Begin(k) PROVE idle' = "none"
  <2>1. MethodOf[k] # "register" => \A d \in Names : Registrations(d)' = Registrations(d)
    BY <1>2, Moves DEF LeaseInv, Begin, Places, Registrations, Registering
  <2> QED BY <1>2, <2>1 DEF Begin, TouchLeases, leaseVars
<1>3. ASSUME NEW k \in Calls, Refuse(k) \/ Admit(k) PROVE idle' = "none"
  <2>1. EndHandshake(k) /\ (MethodOf[k] # "register" => clients' = clients)
    BY <1>3 DEF Refuse, Admit
  <2>2. MethodOf[k] # "register" => \A d \in Names : Registrations(d)' = Registrations(d)
    BY <2>1, EndOfAnother DEF Registering
  <2> QED BY <2>1, <2>2 DEF EndHandshake, TouchLeases
<1> QED BY <1>1, <1>2, <1>3, QuietOrNot

\* Every change of the leases or of the registrations in flight starts the grace
\* afresh (BackendLifetime: _idle_since), so no earlier deadline ends a service
\* that was needed since.
THEOREM GraceIsFresh == Spec => FreshGrace
<1>1. LeaseInv /\ [Next]_vars =>
        [(clients' # clients \/ \E c \in Names : Registrations(c)' # Registrations(c))
           => idle' = "none"]_vars
  BY GraceRestarts
<1> QED BY <1>1, LeaseInvariant, PTL DEF Spec, FreshGrace

LEMMA StepPromised ==
    ASSUME LeaseInv, Flags, [Next]_vars
    PROVE [Promise!Next]_(Promise!vars)
<1> SUFFICES Promise!Next \/ UNCHANGED Promise!vars
  OBVIOUS
<1> USE LeaseAssumption
<1>1. ASSUME UNCHANGED <<clients, Asks, heard>>, [Next]_vars
      PROVE  Promise!Next \/ UNCHANGED Promise!vars
  <2>1. CASE stopped' = stopped
    BY <1>1, <2>1 DEF Promise!vars
  <2>2. CASE stopped' # stopped
    <3>1. LoopTurn
      BY <1>1, <2>2 DEF Next, Vanish, HearLoss, Unregister, IssueKey, Receive, Begin, Confirm,
         Refuse, Admit, EndHandshake, ReadSecret, Publish, ClearRecovery, GraceElapses, CloseIngress,
         vars, loopVars
    <3>2. ~stopped /\ MayExit /\ stopped' = TRUE
      BY <2>2, <3>1, Zenon DEF LoopTurn, Flags
    <3>3. clients = {} /\ Asks = {}
      BY <3>2 DEF MayExit, Asks, Registrations
    <3> QED BY <1>1, <3>2, <3>3 DEF Promise!Next, Promise!Stop
  <2> QED BY <2>1, <2>2
<1>2. ASSUME NEW c \in Names, HearLoss(c) PROVE Promise!Lose(c)
  <2>1. clients' = clients \ {c}
    BY <1>2 DEF HearLoss, UnregisterClient, leaseVars, LeaseInv, Held
  <2>2. Asks' = Asks \ {k \in Asks : ClientOf[k] = c}
    BY <1>2 DEF HearLoss, Asks, Registrations, Registering, Probing
  <2> QED BY <1>2, <2>1, <2>2 DEF HearLoss, Promise!Lose, Promise!AsksOf
<1>3. ASSUME NEW c \in Names, Unregister(c) PROVE Promise!Leave(c)
  <2>1. Asks' = Asks \ {k \in Asks : ClientOf[k] = c}
    BY <1>3 DEF Unregister, Asks, Registrations, Registering, Probing, busVars
  <2> QED BY <1>3, <2>1 DEF Unregister, UnregisterClient, busVars, Promise!Leave, Promise!AsksOf
<1>4. ASSUME NEW k \in Calls, Begin(k) PROVE Promise!Ask(k) \/ UNCHANGED Promise!vars
  <2>1. /\ \A j \in Calls : j # k => (Registering(j)' <=> Registering(j))
        /\ Registering(k)' <=> MethodOf[k] = "register"
        /\ ~Registering(k) /\ k \notin overtaken
    BY <1>4, Moves DEF LeaseInv, Dated, Begin, Places, Registering, Probing
  <2>2. UNCHANGED <<clients, heard, stopped, overtaken>>
    BY <1>4 DEF Begin, busVars, leaseVars
  <2>3. CASE MethodOf[k] = "register" /\ ClientOf[k] \notin heard
    <3>1. k \notin Asks /\ Asks' = Asks \cup {k}
      BY <2>1, <2>2, <2>3 DEF Asks
    <3> QED BY <2>2, <2>3, <3>1 DEF Promise!Ask
  <2>4. CASE MethodOf[k] # "register" \/ ClientOf[k] \in heard
    <3>1. Asks' = Asks
      BY <2>1, <2>2, <2>4 DEF Asks
    <3> QED BY <2>2, <3>1 DEF Promise!vars
  <2> QED BY <2>3, <2>4
<1>5. ASSUME NEW k \in Calls, Refuse(k) \/ Admit(k)
      PROVE Promise!Refuse(k) \/ Promise!Grant(k) \/ UNCHANGED Promise!vars
  <2>1. EndHandshake(k) /\ heard' = heard /\ stopped' = stopped /\ overtaken' = overtaken \ {k}
    BY <1>5 DEF Refuse, Admit, EndHandshake, busVars
  <2>2. /\ \A j \in Calls : j # k => (Registering(j)' <=> Registering(j))
        /\ ~Registering(k)'
    BY <2>1, Moves DEF LeaseInv, EndHandshake, Places
  <2>3. Asks' = Asks \ {k}
    BY <2>1, <2>2 DEF Asks
  <2>4. clients' = clients \/ (clients' = clients \cup {ClientOf[k]} /\ k \in Asks)
    <3>1. CASE clients' # clients
      <4>1. Admit(k) /\ MethodOf[k] = "register" /\ Current(k)
            /\ place[k] = "confirmed" /\ ClientOf[k] \notin tombstones
        BY <1>5, <3>1 DEF Refuse, Admit
      <4>2. ClientOf[k] \notin heard /\ Registering(k)
        BY <4>1 DEF LeaseInv, Held, Registering, Probing
      <4>3. k \notin overtaken
        BY <4>1, <4>2 DEF LeaseInv, Dated, Current, Typed
      <4> QED BY <4>1, <4>2, <4>3 DEF Admit, Asks
    <3> QED BY <3>1
  <2>5. CASE k \in Asks
    BY <2>1, <2>3, <2>4, <2>5 DEF Promise!Refuse, Promise!Grant
  <2>6. CASE k \notin Asks
    BY <2>1, <2>3, <2>4, <2>6 DEF Promise!vars
  <2> QED BY <2>5, <2>6
<1> QED
  BY <1>1, <1>2, <1>3, <1>4, <1>5, QuietOrNot DEF Promise!Next

\* Probes, tombstones, generations and the idle deadline keep the promise: a
\* lease is granted only to a request that nobody has taken back, it ends with
\* its frontend, and the service does not stop under a lease or a request.
THEOREM LeasesAsPromised == Spec => ImplementsLeases
<1>1. Init => Promise!Init
  BY DEF Init, Promise!Init, Asks, Registering, Probing
<1> QED BY <1>1, StepPromised, LeaseInvariant, FlagsInvariant, PTL DEF Spec, ImplementsLeases, Promise!Spec

-----------------------------------------------------------------------------
(* Type correctness: the table of keys and the generations stay in bounds. *)

\* A frontend departs at most once more after its last withdrawal.
Bounded ==
    /\ keys \subseteq Names \X Operations /\ IsFiniteSet(keys) /\ Cardinality(keys) <= MaxKeys
    /\ \A c \in Names : /\ generations[c] <= MaxGeneration + 1
                        /\ c \notin heard => generations[c] <= MaxGeneration
    /\ \A k \in Calls : generationOf[k] <= MaxGeneration + 1

LEMMA KeysBounded ==
    ASSUME LeaseInv, Bounded, [Next]_vars
    PROVE keys' \subseteq Names \X Operations /\ IsFiniteSet(keys') /\ Cardinality(keys') <= MaxKeys
<1> USE LeaseAssumption DEF Bounded
<1>1. ASSUME keys' \subseteq keys
      PROVE keys' \subseteq Names \X Operations /\ IsFiniteSet(keys') /\ Cardinality(keys') <= MaxKeys
  <2>1. IsFiniteSet(keys') /\ Cardinality(keys') <= Cardinality(keys)
    BY <1>1, FS_Subset
  <2>2. Cardinality(keys') \in Nat /\ Cardinality(keys) \in Nat
    BY <2>1, FS_CardinalityType
  <2> QED BY <1>1, <2>1, <2>2
<1>2. ASSUME NEW c \in Names, NEW op \in Operations, IssueKey(c, op)
      PROVE keys' \subseteq Names \X Operations /\ IsFiniteSet(keys') /\ Cardinality(keys') <= MaxKeys
  <2>1. keys' = keys \cup {<<c, op>>} /\ HasRoom(<<c, op>>)
    BY <1>2 DEF IssueKey
  <2>2. /\ IsFiniteSet(keys')
        /\ Cardinality(keys') = IF <<c, op>> \in keys THEN Cardinality(keys) ELSE Cardinality(keys) + 1
    BY <2>1, FS_AddElement
  <2>3. Cardinality(keys) \in Nat
    BY FS_CardinalityType
  <2> QED BY <2>1, <2>2, <2>3 DEF HasRoom
<1>3. (\A c \in Names, op \in Operations : ~IssueKey(c, op)) => keys' \subseteq keys
  BY DEF Next, Vanish, HearLoss, Unregister, Receive, Begin, Confirm, Refuse, Admit, EndHandshake,
     ReadSecret, Publish, ClearRecovery, GraceElapses, LoopTurn, CloseIngress, vars, authVars
<1> QED BY <1>1, <1>2, <1>3

LEMMA GenerationsBounded ==
    ASSUME LeaseInv, Bounded, [Next]_vars
    PROVE /\ \A c \in Names : /\ generations'[c] <= MaxGeneration + 1
                              /\ c \notin heard' => generations'[c] <= MaxGeneration
          /\ \A k \in Calls : generationOf'[k] <= MaxGeneration + 1
<1> USE LeaseAssumption DEF Bounded
<1> DEFINE Goal == /\ \A c \in Names : /\ generations'[c] <= MaxGeneration + 1
                                       /\ c \notin heard' => generations'[c] <= MaxGeneration
                   /\ \A k \in Calls : generationOf'[k] <= MaxGeneration + 1
<1>1. ASSUME NEW c \in Names, HearLoss(c) PROVE Goal
  BY <1>1 DEF HearLoss, UnregisterClient, GenerationAfter, leaseVars, LeaseInv, Typed
<1>2. ASSUME NEW c \in Names, Unregister(c) PROVE Goal
  BY <1>2 DEF Unregister, UnregisterClient, GenerationAfter, Hears, busVars, LeaseInv, Typed
<1>3. ASSUME NEW k \in Calls, Begin(k) PROVE Goal
  BY <1>3 DEF Begin, busVars, leaseVars, LeaseInv, Typed
<1>4. ASSUME NEW k \in Calls, EndHandshake(k) PROVE Goal
  BY <1>4 DEF EndHandshake, GenerationsAfter, busVars, LeaseInv, Typed
<1>5. ASSUME UNCHANGED <<generations, heard, generationOf>> PROVE Goal
  BY <1>5
<1> HIDE DEF Goal
<1>6. Goal
  BY <1>1, <1>2, <1>3, <1>4, <1>5 DEF Next, Vanish, IssueKey, Receive, Confirm, Refuse, Admit,
     ReadSecret, Publish, ClearRecovery, GraceElapses, LoopTurn, CloseIngress, vars, busVars, leaseVars, callVars
<1> QED BY <1>6 DEF Goal

\* Every state of the authorizer, the leases and the key table is well typed, and
\* the table never holds more keys than its limit (SecretPayloadReader).
THEOREM LeaseTypes == Spec => []TypeOK
<1>1. Init => Bounded
  BY FS_EmptySet, LeaseAssumption DEF Init, Bounded
<1>2. LeaseInv /\ Bounded /\ [Next]_vars => Bounded'
  BY KeysBounded, GenerationsBounded DEF Bounded
<1>3. LeaseInv /\ Bounded /\ Flags => TypeOK
  BY LeaseAssumption DEF LeaseInv, Typed, Bounded, Flags, TypeOK, Places
<1> QED
  BY <1>1, <1>2, <1>3, LeaseInvariant, FlagsInvariant, PTL DEF Spec

-----------------------------------------------------------------------------
(* The other side of a lease: the resident agent, which counts on one.     *)
(*                                                                         *)
(* LeaseIsHeld is not inductive: a reply makes the agent count on a lease, *)
(* and by then the service must hold it.  So the invariant follows every   *)
(* registration the agent waits for, from its call by way of the job of    *)
(* the service to the reply (Honest), and has no withdrawal come after it. *)

CONSTANTS MaxRequests, MaxTimeouts, MaxProcesses, MaxInbox

VARIABLES toAgent, requests, timeouts

Agent == INSTANCE AgentClient

\* The agent is bound to the process that runs.
Bound(a) == backend.alive /\ a.process = backend.process

\* A withdrawal is on its way to the service.
Withdraws(a) == \E i \in DOMAIN a.out : a.out[i].kind = "unregister"

\* The registration c, wherever it is, is not withdrawn: as a call nothing sent
\* after it withdraws it, as a probing job it has the present generation, and as
\* a reply that grants it, the service holds the lease.
Honest(a, c) ==
    /\ \A i \in DOMAIN a.out : a.out[i].id = c.id =>
           /\ a.out[i].kind = "register"
           /\ \A j \in DOMAIN a.out : j >= i => a.out[j].kind # "unregister"
    /\ \A job \in backend.jobs : job.id = c.id =>
           /\ job.kind = "register" /\ job.at \in {"queued", "probing"} /\ ~Withdraws(a)
           /\ job.at = "probing" => job.seen = backend.generation
    /\ \A i \in DOMAIN toAgent : toAgent[i].kind = "reply" /\ toAgent[i].id = c.id =>
           ~Withdraws(a) /\ (toAgent[i].outcome = "ok" => backend.held)

\* What the agent counts on is held, and what it waits for is not withdrawn.
Kept(a) ==
    Bound(a) =>
        /\ a.lease.active => backend.held /\ ~Withdraws(a)
        /\ \A c \in a.waiting : c.kind = "register" => Honest(a, c)

\* What every handler of the agent preserves.
Good(a) == a \in Agent!Agents /\ IsFiniteSet(a.waiting) /\ a.process <= backend.process /\ Kept(a)

\* What surrounds the agent: the service, and the bus, which has brought no
\* process that was never started.
World ==
    /\ backend \in Agent!Backends /\ toAgent \in Seq(Agent!Messages) /\ IsFiniteSet(backend.jobs)
    /\ \A i \in DOMAIN toAgent : toAgent[i].kind = "found" => toAgent[i].id <= backend.process

AgentInv == World /\ Good(agent)

-----------------------------------------------------------------------------

(* A serial for a call: there is always one that nothing under way has.    *)

LEMMA SerialsFinite ==
    ASSUME NEW S, IsFiniteSet(S)
    PROVE  IsFiniteSet({c.id : c \in S})
<1> DEFINE f == [c \in S |-> c.id]
           T == {c.id : c \in S}
<1>1. f \in Surjection(S, T)
  BY DEF Surjection
<1> QED
  BY <1>1, FS_Surjection

LEMMA SeqSerialsFinite ==
    ASSUME NEW S, NEW s \in Seq(S)
    PROVE  IsFiniteSet({s[i].id : i \in DOMAIN s})
<1> DEFINE f == [i \in DOMAIN s |-> s[i].id]
           T == {s[i].id : i \in DOMAIN s}
<1>1. f \in Surjection(DOMAIN s, T)
  BY DEF Surjection
<1>2. IsFiniteSet(DOMAIN s)
  BY FS_Interval
<1> QED
  BY <1>1, <1>2, FS_Surjection

\* The instance has a Cardinality of its own.
LEMMA SameCardinality ==
    ASSUME NEW S
    PROVE  Agent!Cardinality(S) = Cardinality(S)
BY DEF Agent!Cardinality, Cardinality

LEMMA NewIdFacts ==
    ASSUME World, NEW a \in Agent!Agents, IsFiniteSet(a.waiting)
    PROVE  Agent!NewId(a) \in Nat /\ Agent!NewId(a) \notin Agent!UsedIds(a)
<1>1. IsFiniteSet(Agent!UsedIds(a))
  <2>1. IsFiniteSet(a.waiting \cup backend.jobs)
    BY FS_Union DEF World
  <2>2. IsFiniteSet({c.id : c \in a.waiting \cup backend.jobs})
    BY <2>1, SerialsFinite
  <2>3. IsFiniteSet({a.out[i].id : i \in DOMAIN a.out})
    BY SeqSerialsFinite DEF Agent!Agents
  <2>4. IsFiniteSet({toAgent[i].id : i \in DOMAIN toAgent})
    BY SeqSerialsFinite DEF World
  <2> QED
    BY <2>2, <2>3, <2>4, FS_Union DEF Agent!UsedIds
<1> DEFINE n == Cardinality(Agent!UsedIds(a))
<1>2. n \in Nat
  BY <1>1, FS_CardinalityType
<1>3. \E i \in 1 .. n + 1 : i \notin Agent!UsedIds(a)
  <2> SUFFICES ASSUME (1 .. n + 1) \subseteq Agent!UsedIds(a) PROVE FALSE
    OBVIOUS
  <2>1. Cardinality(1 .. n + 1) = n + 1
    BY <1>2, FS_Interval
  <2>2. Cardinality(1 .. n + 1) <= n
    BY <1>1, FS_Subset
  <2> QED
    BY <1>2, <2>1, <2>2
<1>4. Agent!NewId(a) \in 1 .. n + 1 /\ Agent!NewId(a) \notin Agent!UsedIds(a)
  BY <1>3, SameCardinality DEF Agent!NewId
<1> QED
  BY <1>2, <1>4

-----------------------------------------------------------------------------

(* The handlers of the agent: each returns a good agent for a good one.    *)

\* An agent that has sent nothing more, waits for nothing more, and counts on no other lease.
LEMMA LessIsGood ==
    ASSUME NEW a, NEW b, Good(a), b \in Agent!Agents, b.out = a.out, b.waiting \subseteq a.waiting,
           b.process = a.process, b.lease.active => a.lease.active
    PROVE  Good(b)
<1>1. IsFiniteSet(b.waiting)
  BY FS_Subset DEF Good
<1>2. Kept(b)
  BY DEF Good, Kept, Bound, Withdraws, Honest
<1> QED
  BY <1>1, <1>2 DEF Good

LEMMA SendGood ==
    ASSUME World, NEW a, Good(a), NEW kind \in Agent!CallKinds
    PROVE  Good(Agent!Send(a, kind))
<1> DEFINE call == [kind |-> kind, id |-> Agent!NewId(a)]
           b == Agent!Send(a, kind)
<1>1. call \in Agent!Calls /\ call.kind = kind /\ call.id \notin Agent!UsedIds(a)
  BY NewIdFacts DEF Agent!Calls, Good
<1>2. a \in Agent!Agents /\ a.out \in Seq([kind : Agent!CallKinds \cup {"unregister"}, id : Nat])
  BY DEF Good, Agent!Agents
<1>3. b.out = Append(a.out, call) /\ b.waiting = a.waiting \cup {call}
      /\ b.process = a.process /\ b.lease = a.lease
  BY <1>2 DEF Agent!Send, Agent!Agents
<1>4. b \in Agent!Agents
  <2>1. Append(a.out, call) \in Seq([kind : Agent!CallKinds \cup {"unregister"}, id : Nat])
    BY <1>1, <1>2 DEF Agent!Calls
  <2>2. a.waiting \cup {call} \in SUBSET Agent!Calls
    BY <1>1, <1>2 DEF Agent!Agents
  <2> QED
    BY <1>2, <2>1, <2>2 DEF Agent!Send, Agent!Agents
<1>5. IsFiniteSet(b.waiting)
  BY <1>3, FS_AddElement DEF Good
<1>6. Kept(b)
  <2> SUFFICES ASSUME Bound(b) PROVE /\ b.lease.active => backend.held /\ ~Withdraws(b)
                                     /\ \A c \in b.waiting : c.kind = "register" => Honest(b, c)
    BY DEF Kept
  <2>1. Bound(a) /\ Kept(a)
    BY <1>3 DEF Bound, Good
  <2>2. Withdraws(b) => Withdraws(a)
    BY <1>1, <1>2, <1>3 DEF Withdraws, Agent!CallKinds, Agent!OperationKinds
  <2>3. ASSUME NEW c \in a.waiting, c.kind = "register" PROVE Honest(b, c)
    <3>1. Honest(a, c) /\ c.id # call.id
      BY <1>1, <2>1, <2>3 DEF Kept, Agent!UsedIds
    <3> QED
      BY <1>1, <1>2, <1>3, <2>2, <3>1 DEF Honest, Agent!CallKinds, Agent!OperationKinds
  <2>4. kind = "register" => Honest(b, call)
    BY <1>1, <1>2, <1>3 DEF Honest, Agent!UsedIds
  <2> QED
    BY <1>1, <1>3, <2>1, <2>2, <2>3, <2>4 DEF Kept
<1> QED
  BY <1>3, <1>4, <1>5, <1>6 DEF Good

LEMMA ForgetGood ==
    ASSUME NEW a, Good(a), NEW kinds
    PROVE  Good(Agent!Forget(a, kinds)) /\ Agent!Forget(a, kinds).out = a.out
           /\ Agent!Forget(a, kinds).at = a.at /\ Agent!Forget(a, kinds).process = a.process
<1>1. a \in Agent!Agents
  BY DEF Good
<1>2. Agent!Forget(a, kinds) \in Agent!Agents
  BY <1>1 DEF Agent!Forget, Agent!Agents
<1> QED
  BY <1>1, <1>2, LessIsGood DEF Agent!Forget, Agent!Agents

LEMMA ClearGood ==
    ASSUME NEW a, Good(a)
    PROVE  Good(Agent!Clear(a))
<1>1. a \in Agent!Agents /\ a.lease \in Agent!Leases
  BY DEF Good, Agent!Agents
<1>2. [a.lease EXCEPT !.same = FALSE] \in Agent!Leases
      /\ [a.lease EXCEPT !.same = FALSE].active = a.lease.active
  BY <1>1 DEF Agent!Leases
<1>3. Agent!Clear(a) = [a EXCEPT !.intent = "none", !.lease = [a.lease EXCEPT !.same = FALSE]]
  BY <1>1 DEF Agent!Clear, Agent!Agents
<1>4. Agent!Clear(a) \in Agent!Agents
  BY <1>1, <1>2, <1>3 DEF Agent!Agents
<1>5. Agent!Clear(a).out = a.out /\ Agent!Clear(a).waiting = a.waiting /\ Agent!Clear(a).process = a.process
      /\ Agent!Clear(a).lease = [a.lease EXCEPT !.same = FALSE]
  BY <1>1, <1>3 DEF Agent!Agents
<1> QED
  BY <1>2, <1>4, <1>5, LessIsGood

LEMMA ReleaseGood ==
    ASSUME NEW a, Good(a)
    PROVE  Good(Agent!Release(a))
<1> DEFINE unregister == [kind |-> "unregister", id |-> 0]
           f == Agent!Forget(a, {"register"})
           b == Agent!Release(a)
<1>1. CASE ~a.lease.mayExist
  BY <1>1 DEF Agent!Release
<1>2. CASE a.lease.mayExist
  <2>1. a \in Agent!Agents /\ f \in Agent!Agents /\ f.out = a.out /\ f.at = a.at /\ f.process = a.process
        /\ IsFiniteSet(f.waiting)
    BY ForgetGood DEF Good
  <2>2. b = [f EXCEPT !.lease = Agent!NoLease,
                      !.out = IF a.at = "available" THEN Append(a.out, unregister) ELSE a.out]
    BY <1>2, <2>1 DEF Agent!Release
  <2>3. Agent!NoLease \in Agent!Leases /\ ~Agent!NoLease.active
    BY DEF Agent!NoLease, Agent!Leases
  <2>4. \A c \in f.waiting : c.kind # "register"
    BY <2>1 DEF Agent!Forget, Agent!Agents
  <2>5. Append(a.out, unregister) \in Seq([kind : Agent!CallKinds \cup {"unregister"}, id : Nat])
    BY <2>1 DEF Agent!Agents
  <2>6. b \in Agent!Agents /\ b.waiting = f.waiting /\ b.process = a.process /\ b.lease = Agent!NoLease
    BY <2>1, <2>2, <2>3, <2>5 DEF Agent!Agents
  <2> QED
    BY <2>1, <2>3, <2>4, <2>6 DEF Good, Kept
<1> QED
  BY <1>1, <1>2

\* What a handler is told of its call: a reply says one of the first two.
Outcomes == {"ok", "refused", "unknown"}

\* Fields that neither a lease nor a registration depends on.
LEMMA TweaksGood ==
    ASSUME NEW a, Good(a)
    PROVE  /\ \A v \in {"idle", "authorizing", "rejected", "available"} : Good([a EXCEPT !.at = v])
           /\ \A v \in {"no", "pending", "yes"} : Good([a EXCEPT !.applied = v])
           /\ \A v \in {"idle", "reconciling"} : Good([a EXCEPT !.phase = v])
           /\ Good([a EXCEPT !.healthy = FALSE])
           /\ Good([a EXCEPT !.tries = 0])
           /\ Good([a EXCEPT !.timer = FALSE])
<1>1. a \in Agent!Agents
  BY DEF Good
<1>2. ASSUME NEW v \in {"idle", "authorizing", "rejected", "available"}
      PROVE  Good([a EXCEPT !.at = v])
  <2>1. [a EXCEPT !.at = v] \in Agent!Agents
    BY <1>1 DEF Agent!Agents
  <2> QED
    BY <1>1, <2>1, LessIsGood DEF Agent!Agents
<1>3. ASSUME NEW v \in {"no", "pending", "yes"}
      PROVE  Good([a EXCEPT !.applied = v])
  <2>1. [a EXCEPT !.applied = v] \in Agent!Agents
    BY <1>1 DEF Agent!Agents
  <2> QED
    BY <1>1, <2>1, LessIsGood DEF Agent!Agents
<1>4. ASSUME NEW v \in {"idle", "reconciling"}
      PROVE  Good([a EXCEPT !.phase = v])
  <2>1. [a EXCEPT !.phase = v] \in Agent!Agents
    BY <1>1 DEF Agent!Agents
  <2> QED
    BY <1>1, <2>1, LessIsGood DEF Agent!Agents
<1>5. ASSUME NEW v \in BOOLEAN
      PROVE  Good([a EXCEPT !.healthy = v]) /\ Good([a EXCEPT !.timer = v])
  <2>1. [a EXCEPT !.healthy = v] \in Agent!Agents /\ [a EXCEPT !.timer = v] \in Agent!Agents
    BY <1>1 DEF Agent!Agents
  <2> QED
    BY <1>1, <2>1, LessIsGood DEF Agent!Agents
<1>6. Good([a EXCEPT !.tries = 0])
  <2>1. 0 \in 0 .. 3
    OBVIOUS
  <2>2. [a EXCEPT !.tries = 0] \in Agent!Agents
    BY <1>1, <2>1 DEF Agent!Agents
  <2> QED
    BY <1>1, <2>2, LessIsGood DEF Agent!Agents
<1> QED
  BY <1>2, <1>3, <1>4, <1>5, <1>6

LEMMA LeaseGood ==
    ASSUME NEW a, Good(a), NEW l \in Agent!Leases, l.active => a.lease.active
    PROVE  Good([a EXCEPT !.lease = l])
<1>1. a \in Agent!Agents
  BY DEF Good
<1>2. [a EXCEPT !.lease = l] \in Agent!Agents
  BY <1>1 DEF Agent!Agents
<1> QED
  BY <1>1, <1>2, LessIsGood DEF Agent!Agents

LEMMA ViewGood ==
    ASSUME NEW a, Good(a), NEW v \in Agent!Views
    PROVE  Good([a EXCEPT !.view = v])
<1>1. a \in Agent!Agents
  BY DEF Good
<1>2. [a EXCEPT !.view = v] \in Agent!Agents
  BY <1>1 DEF Agent!Agents
<1> QED
  BY <1>1, <1>2, LessIsGood DEF Agent!Agents

LEMMA BusyGood ==
    ASSUME NEW a, Good(a)
    PROVE  Good([a EXCEPT !.view.busy = TRUE]) /\ Good([a EXCEPT !.view.busy = FALSE])
<1>1. a \in Agent!Agents /\ a.view \in Agent!Views
  BY DEF Good, Agent!Agents
<1>2. [a.view EXCEPT !.busy = TRUE] \in Agent!Views /\ [a.view EXCEPT !.busy = FALSE] \in Agent!Views
  BY <1>1 DEF Agent!Views
<1>3. Good([a EXCEPT !.view = [a.view EXCEPT !.busy = TRUE]])
      /\ Good([a EXCEPT !.view = [a.view EXCEPT !.busy = FALSE]])
  BY <1>2, ViewGood
<1> QED
  BY <1>1, <1>3 DEF Agent!Agents

LEMMA AcquireGood ==
    ASSUME World, NEW a, Good(a)
    PROVE  Good(Agent!Acquire(a))
<1> DEFINE l == [pending |-> TRUE, active |-> FALSE, mayExist |-> TRUE, same |-> TRUE]
<1>1. Good(Agent!Send(a, "register"))
  BY SendGood DEF Agent!CallKinds
<1>2. l \in Agent!Leases /\ ~l.active
  BY DEF Agent!Leases
<1>3. Good([Agent!Send(a, "register") EXCEPT !.lease = l])
  BY <1>1, <1>2, LeaseGood
<1> QED
  BY <1>3 DEF Agent!Acquire

LEMMA AcquireForIntentGood ==
    ASSUME World, NEW a, Good(a)
    PROVE  Good(Agent!AcquireForIntent(a))
BY AcquireGood DEF Agent!AcquireForIntent

LEMMA ApplyPreferenceGood ==
    ASSUME World, NEW a, Good(a)
    PROVE  Good(Agent!ApplyPreference(a))
<1>1. Good(Agent!Send(a, "prefer"))
  BY SendGood DEF Agent!CallKinds
<1> QED
  BY <1>1, TweaksGood DEF Agent!ApplyPreference

LEMMA AuthorizeGood ==
    ASSUME World, NEW a, Good(a)
    PROVE  Good(Agent!Authorize(a))
<1>1. Good(Agent!Send(a, "authorize"))
  BY SendGood DEF Agent!CallKinds
<1> QED
  BY <1>1, TweaksGood DEF Agent!Authorize

LEMMA RequestSnapshotGood ==
    ASSUME World, NEW a, Good(a)
    PROVE  Good(Agent!RequestSnapshot(a))
<1>1. Good(Agent!Send(a, "snapshot"))
  BY SendGood DEF Agent!CallKinds
<1> QED
  BY <1>1, AuthorizeGood DEF Agent!RequestSnapshot

LEMMA CallOperationGood ==
    ASSUME World, NEW a, Good(a), NEW kind \in Agent!OperationKinds
    PROVE  Good(Agent!CallOperation(a, kind))
<1> DEFINE f == Agent!Forget(a, Agent!OperationKinds \cup {"snapshot"})
           s == Agent!Send(f, kind)
           b == [s EXCEPT !.phase = "awaiting"]
<1>1. Good(s)
  BY ForgetGood, SendGood DEF Agent!CallKinds
<1>2. s \in Agent!Agents
  BY <1>1 DEF Good
<1>3. b \in Agent!Agents /\ b.out = s.out /\ b.waiting = s.waiting /\ b.process = s.process
      /\ b.lease = s.lease
  BY <1>2 DEF Agent!Agents
<1>4. Good(b)
  BY <1>1, <1>3, LessIsGood
<1>5. Good([b EXCEPT !.view.busy = TRUE])
  BY <1>4, BusyGood
<1>6. Agent!CallOperation(a, kind) = [b EXCEPT !.view.busy = TRUE]
  BY <1>2 DEF Agent!CallOperation, Agent!Agents
<1> QED
  BY <1>5, <1>6

LEMMA DispatchPendingGood ==
    ASSUME World, NEW a, Good(a)
    PROVE  Good(Agent!DispatchPending(a))
<1>1. Good(Agent!Clear(a))
  BY ClearGood
<1>2. Good(Agent!Release(Agent!Clear(a)))
  BY <1>1, ReleaseGood
<1>3. Good(Agent!CallOperation(Agent!Clear(a), "connect"))
  BY <1>1, CallOperationGood DEF Agent!OperationKinds
<1> QED
  BY <1>2, <1>3 DEF Agent!DispatchPending

LEMMA ScheduleReadGood ==
    ASSUME NEW a, Good(a)
    PROVE  Good(Agent!ScheduleRead(a))
<1> DEFINE b == [a EXCEPT !.timer = TRUE, !.tries = @ + 1]
<1>1. a \in Agent!Agents /\ a.tries \in 0 .. 3
  BY DEF Good, Agent!Agents
<1>2. CASE a.tries = 3
  BY <1>2 DEF Agent!ScheduleRead
<1>3. CASE a.tries # 3
  <2>1. a.tries + 1 \in 0 .. 3
    BY <1>1, <1>3
  <2>2. b \in Agent!Agents
    BY <1>1, <2>1 DEF Agent!Agents
  <2>3. Good(b)
    BY <1>1, <2>2, LessIsGood DEF Agent!Agents
  <2> QED
    BY <2>3 DEF Agent!ScheduleRead
<1> QED
  BY <1>2, <1>3

LEMMA ApplySnapshotGood ==
    ASSUME World, NEW a, Good(a), NEW v \in Agent!Views
    PROVE  Good(Agent!ApplySnapshot(a, v))
<1> DEFINE read == [a EXCEPT !.healthy = TRUE, !.view = v,
                       !.timer = @ /\ a.at # "available",
                       !.tries = IF a.at = "available" THEN 0 ELSE @]
           next == Agent!DispatchPending(read)
<1>1. Good(Agent!Release(Agent!Clear([a EXCEPT !.healthy = FALSE])))
  BY TweaksGood, ClearGood, ReleaseGood
<1>2. a \in Agent!Agents
  BY DEF Good
<1>3. (a.timer /\ a.at # "available") \in BOOLEAN
  OBVIOUS
<1>4. (IF a.at = "available" THEN 0 ELSE a.tries) \in 0 .. 3
  BY <1>2 DEF Agent!Agents
<1>5. \A x \in BOOLEAN, n \in 0 .. 3 :
          [a EXCEPT !.healthy = TRUE, !.view = v, !.timer = x, !.tries = n] \in Agent!Agents
  BY <1>2 DEF Agent!Agents
<1>6. read \in Agent!Agents
  BY <1>3, <1>4, <1>5
<1>7. Good(read)
  BY <1>2, <1>6, LessIsGood DEF Agent!Agents
<1>8. Good(next)
  BY <1>7, DispatchPendingGood
<1>9. Good(Agent!Release([next EXCEPT !.phase = "idle"]))
  BY <1>8, TweaksGood, ReleaseGood
<1> QED
  BY <1>1, <1>8, <1>9 DEF Agent!ApplySnapshot

LEMMA OnAuthorizeGood ==
    ASSUME World, NEW a, Good(a), NEW outcome \in Outcomes
    PROVE  Good(Agent!OnAuthorize(a, outcome))
<1>1. Good(Agent!AcquireForIntent(
             Agent!RequestSnapshot(Agent!ApplyPreference([a EXCEPT !.at = "available"]))))
  BY TweaksGood, ApplyPreferenceGood, RequestSnapshotGood, AcquireForIntentGood
<1>2. Good([a EXCEPT !.at = "rejected"])
  BY TweaksGood
<1>3. Good(Agent!ScheduleRead([a EXCEPT !.at = "idle"]))
  BY TweaksGood, ScheduleReadGood
<1> QED
  BY <1>1, <1>2, <1>3 DEF Agent!OnAuthorize

LEMMA OnPreferenceGood ==
    ASSUME World, NEW a, Good(a), NEW outcome \in Outcomes
    PROVE  Good(Agent!OnPreference(a, outcome))
<1>1. Good(Agent!DispatchPending([a EXCEPT !.applied = "yes"]))
  BY TweaksGood, DispatchPendingGood
<1>2. Good(Agent!Release(Agent!Clear([a EXCEPT !.applied = "no"])))
  BY TweaksGood, ClearGood, ReleaseGood
<1> QED
  BY <1>1, <1>2 DEF Agent!OnPreference

\* The one handler that makes the agent count on a lease: it must be held.
LEMMA OnRegisterGood ==
    ASSUME World, NEW a, Good(a), NEW outcome \in Outcomes,
           outcome = "ok" /\ Bound(a) => backend.held /\ ~Withdraws(a)
    PROVE  Good(Agent!OnRegister(a, outcome))
<1> DEFINE done == [a EXCEPT !.lease.pending = FALSE, !.lease.active = (outcome = "ok")]
<1>1. a \in Agent!Agents /\ a.lease \in Agent!Leases
  BY DEF Good, Agent!Agents
<1>2. Good(done)
  <2>1. (outcome = "ok") \in BOOLEAN
    OBVIOUS
  <2>2. PICK x \in BOOLEAN : x <=> outcome = "ok"
    BY <2>1
  <2>3. done = [a EXCEPT !.lease = [a.lease EXCEPT !.pending = FALSE, !.active = (outcome = "ok")]]
    BY <1>1 DEF Agent!Agents
  <2>4. [a.lease EXCEPT !.pending = FALSE, !.active = (outcome = "ok")] \in Agent!Leases
    BY <1>1, <2>1 DEF Agent!Leases
  <2>5. [a.lease EXCEPT !.pending = FALSE, !.active = (outcome = "ok")].active <=> outcome = "ok"
    BY <1>1 DEF Agent!Leases
  <2>6. done \in Agent!Agents /\ done.out = a.out /\ done.waiting = a.waiting
        /\ done.process = a.process /\ (done.lease.active <=> outcome = "ok")
    BY <1>1, <2>3, <2>4, <2>5 DEF Agent!Agents
  <2>7. CASE outcome # "ok"
    BY <2>6, <2>7, LessIsGood
  <2>8. CASE outcome = "ok"
    <3>1. Kept(done)
      BY <2>6, <2>8 DEF Kept, Bound, Withdraws, Honest, Good
    <3> QED
      BY <2>6, <3>1 DEF Good
  <2> QED
    BY <2>7, <2>8
<1> HIDE DEF done
<1>3. /\ Good(Agent!Release(done)) /\ Good(Agent!DispatchPending(done))
      /\ Good(Agent!Release(Agent!Clear(done)))
      /\ Good(Agent!AcquireForIntent(Agent!Release(done)))
  BY <1>2, ClearGood, ReleaseGood, DispatchPendingGood, AcquireForIntentGood
<1>4. Agent!OnRegister(a, outcome) \in {
          Agent!Release(done), Agent!DispatchPending(done), Agent!Release(Agent!Clear(done)),
                                  Agent!AcquireForIntent(Agent!Release(done))}
  BY DEF Agent!OnRegister, done
<1> QED
  BY <1>3, <1>4

LEMMA OnSnapshotGood ==
    ASSUME World, NEW a, Good(a), NEW outcome \in Outcomes, NEW v \in Agent!Views
    PROVE  Good(Agent!OnSnapshot(a, outcome, v))
<1> DEFINE failed == [a EXCEPT !.healthy = FALSE, !.view.busy = FALSE, !.phase = "idle"]
<1>1. Good(Agent!ApplySnapshot(Agent!AcquireForIntent(a), v))
  BY AcquireForIntentGood, ApplySnapshotGood
<1>2. Good(failed)
  <2>1. a \in Agent!Agents
    BY DEF Good
  <2>2. failed = [[[a EXCEPT !.healthy = FALSE] EXCEPT !.view.busy = FALSE] EXCEPT !.phase = "idle"]
    BY <2>1 DEF Agent!Agents
  <2>3. Good([[[a EXCEPT !.healthy = FALSE] EXCEPT !.view.busy = FALSE] EXCEPT !.phase = "idle"])
    BY TweaksGood, BusyGood
  <2> QED
    BY <2>2, <2>3
<1> HIDE DEF failed
<1>3. /\ Good(Agent!Release(Agent!Clear(Agent!ScheduleRead(failed))))
      /\ Good(Agent!Release(Agent!Clear(failed)))
  BY <1>2, ScheduleReadGood, ClearGood, ReleaseGood
<1>4. Agent!OnSnapshot(a, outcome, v) \in {Agent!ApplySnapshot(Agent!AcquireForIntent(a), v),
          Agent!Release(Agent!Clear(Agent!ScheduleRead(failed))), Agent!Release(Agent!Clear(failed))}
  BY DEF Agent!OnSnapshot, failed
<1> QED
  BY <1>1, <1>3, <1>4

LEMMA OnOperationGood ==
    ASSUME World, NEW a, Good(a), NEW outcome \in Outcomes
    PROVE  Good(Agent!OnOperation(a, outcome))
<1> DEFINE ended == [a EXCEPT !.phase = "idle", !.view.busy = FALSE]
           r == Agent!Reconcile(a)
<1>1. a \in Agent!Agents
  BY DEF Good
<1>2. Good(r)
  <2>1. CASE a.phase = "idle"
    BY <1>1, <2>1, TweaksGood DEF Agent!Reconcile
  <2>2. CASE a.phase # "idle"
    BY <1>1, <2>2, TweaksGood DEF Agent!Reconcile
  <2> QED
    BY <2>1, <2>2
<1>3. Good(ended)
  <2>1. ended = [[a EXCEPT !.phase = "idle"] EXCEPT !.view.busy = FALSE]
    BY <1>1 DEF Agent!Agents
  <2>2. Good([[a EXCEPT !.phase = "idle"] EXCEPT !.view.busy = FALSE])
    BY TweaksGood, BusyGood
  <2> QED
    BY <2>1, <2>2
<1> HIDE DEF ended, r
<1>4. Good(Agent!RequestSnapshot(r)) /\ Good(Agent!RequestSnapshot([r EXCEPT !.view.busy = TRUE]))
      /\ Good(Agent!RequestSnapshot(ended)) /\ Good(Agent!Release(ended))
  BY <1>2, <1>3, BusyGood, RequestSnapshotGood, ReleaseGood
<1>5. Agent!OnOperation(a, outcome) \in {
          Agent!RequestSnapshot(r), Agent!RequestSnapshot([r EXCEPT !.view.busy = TRUE]),
                                   Agent!RequestSnapshot(ended), Agent!Release(ended)}
  BY DEF Agent!OnOperation, ended, r, Outcomes
<1> QED
  BY <1>4, <1>5

LEMMA FinishedGood ==
    ASSUME World, NEW a, Good(a), NEW call \in a.waiting, NEW outcome \in Outcomes, NEW v \in Agent!Views,
           call.kind = "register" /\ outcome = "ok" /\ Bound(a) => backend.held /\ ~Withdraws(a)
    PROVE  Good(Agent!Finished(a, call, outcome, v))
<1> DEFINE rest == [a EXCEPT !.waiting = @ \ {call}]
<1>1. a \in Agent!Agents
  BY DEF Good
<1>2. rest \in Agent!Agents /\ rest.out = a.out /\ rest.waiting \subseteq a.waiting
      /\ rest.process = a.process /\ rest.lease = a.lease
  BY <1>1 DEF Agent!Agents
<1>3. Good(rest)
  BY <1>2, LessIsGood
<1>4. Bound(rest) = Bound(a) /\ Withdraws(rest) = Withdraws(a)
  BY <1>2 DEF Bound, Withdraws
<1> HIDE DEF rest
<1>5. Good(Agent!OnAuthorize(rest, outcome)) /\ Good(Agent!OnPreference(rest, outcome))
      /\ Good(Agent!OnSnapshot(rest, outcome, v)) /\ Good(Agent!OnOperation(rest, outcome))
  BY <1>3, OnAuthorizeGood, OnPreferenceGood, OnSnapshotGood, OnOperationGood
<1>6. call.kind = "register" => Good(Agent!OnRegister(rest, outcome))
  BY <1>3, <1>4, OnRegisterGood
<1> QED
  BY <1>5, <1>6 DEF Agent!Finished, rest

-----------------------------------------------------------------------------
(* The steps of the agent. *)

\* A handler that leaves the agent good keeps the invariant, whether it took a
\* message or not.
LEMMA HandlerStep ==
    ASSUME World, Good(agent'), backend' = backend,
           toAgent' = toAgent \/ (toAgent # <<>> /\ toAgent' = Tail(toAgent))
    PROVE  AgentInv'
<1>1. toAgent' \in Seq(Agent!Messages)
      /\ \A i \in DOMAIN toAgent' : \E j \in DOMAIN toAgent : toAgent'[i] = toAgent[j]
  <2>1. CASE toAgent' = toAgent
    BY <2>1 DEF World
  <2>2. CASE toAgent # <<>> /\ toAgent' = Tail(toAgent)
    <3>1. toAgent \in Seq(Agent!Messages)
      BY DEF World
    <3>2. toAgent' \in Seq(Agent!Messages)
      BY <2>2, <3>1
    <3>3. \A i \in DOMAIN toAgent' : i + 1 \in DOMAIN toAgent /\ toAgent'[i] = toAgent[i + 1]
      BY <2>2, <3>1
    <3> QED
      BY <3>2, <3>3
  <2> QED
    BY <2>1, <2>2
<1>2. World'
  BY <1>1 DEF World
<1>3. Kept(agent)'
  <2> SUFFICES ASSUME Bound(agent)'
               PROVE  /\ (agent.lease.active => backend.held /\ ~Withdraws(agent))'
                      /\ \A c \in agent'.waiting : c.kind = "register" => Honest(agent, c)'
    BY DEF Kept
  <2>1. Bound(agent')
    BY DEF Bound
  <2>2. agent'.lease.active => backend.held /\ ~Withdraws(agent')
    BY <2>1 DEF Good, Kept
  <2>3. Withdraws(agent)' <=> Withdraws(agent')
    BY DEF Withdraws
  <2>4. ASSUME NEW c \in agent'.waiting, c.kind = "register"
        PROVE  Honest(agent, c)'
    <3>1. Honest(agent', c)
      BY <2>1, <2>4 DEF Good, Kept
    <3>2. \A i \in DOMAIN toAgent' : toAgent'[i].kind = "reply" /\ toAgent'[i].id = c.id =>
              ~Withdraws(agent') /\ (toAgent'[i].outcome = "ok" => backend.held)
      BY <1>1, <3>1 DEF Honest
    <3> QED
      BY <2>3, <3>1, <3>2 DEF Honest
  <2> QED
    BY <2>2, <2>3, <2>4
<1> QED
  BY <1>2, <1>3 DEF AgentInv, Good

LEMMA MessageFacts ==
    ASSUME World, toAgent # <<>>
    PROVE  /\ Agent!Message \in Agent!Messages /\ 1 \in DOMAIN toAgent /\ Agent!Message = toAgent[1]
           /\ Agent!Message.kind \in {"reply", "signal"} => Agent!Message.view \in Agent!Views
           /\ Agent!Message.kind = "reply" => Agent!Message.outcome \in Outcomes
           /\ Agent!Message.kind \in {"found", "lost"} => Agent!Message.id \in Nat
<1>1. Agent!Message \in Agent!Messages /\ 1 \in DOMAIN toAgent /\ Agent!Message = toAgent[1]
  BY DEF World, Agent!Message
<1> QED
  BY <1>1 DEF Agent!Messages, Outcomes

LEMMA TakeReplyStep == AgentInv /\ Agent!TakeReply => AgentInv'
<1> SUFFICES ASSUME AgentInv, Agent!TakeReply PROVE AgentInv'
  OBVIOUS
<1>1. World /\ Good(agent) /\ toAgent # <<>> /\ Agent!Message.kind = "reply"
  BY DEF AgentInv, Agent!TakeReply
<1>2. backend' = backend /\ toAgent' = Tail(toAgent)
  BY DEF Agent!TakeReply
<1>3. CASE ~\E call \in agent.waiting : call.id = Agent!Message.id
  <2>1. Good(agent')
    BY <1>1, <1>3 DEF Agent!TakeReply
  <2> QED
    BY <1>1, <1>2, <2>1, HandlerStep
<1>4. CASE \E call \in agent.waiting : call.id = Agent!Message.id
  <2>1. PICK call \in agent.waiting :
            /\ call.id = Agent!Message.id
            /\ agent' = Agent!Finished(agent, call, Agent!Message.outcome, Agent!Message.view)
    BY <1>4 DEF Agent!TakeReply
  <2>2. Agent!Message.view \in Agent!Views /\ Agent!Message.outcome \in Outcomes
        /\ 1 \in DOMAIN toAgent /\ Agent!Message = toAgent[1]
    BY <1>1, MessageFacts
  <2>3. ASSUME call.kind = "register", Agent!Message.outcome = "ok", Bound(agent)
        PROVE  backend.held /\ ~Withdraws(agent)
    BY <1>1, <2>1, <2>2, <2>3 DEF Good, Kept, Honest
  <2>4. Good(agent')
    BY <1>1, <2>1, <2>2, <2>3, FinishedGood
  <2> QED
    BY <1>1, <1>2, <2>4, HandlerStep
<1> QED
  BY <1>3, <1>4

LEMMA TimeOutStep == \A call \in agent.waiting : AgentInv /\ Agent!TimeOut(call) => AgentInv'
<1> SUFFICES ASSUME NEW call \in agent.waiting, AgentInv, Agent!TimeOut(call) PROVE AgentInv'
  OBVIOUS
<1>1. World /\ Good(agent) /\ "unknown" \in Outcomes /\ Agent!NoView \in Agent!Views
  BY DEF AgentInv, Outcomes, Agent!NoView, Agent!Views
<1>2. Good(agent')
  BY <1>1, FinishedGood DEF Agent!TimeOut
<1> QED
  BY <1>1, <1>2, HandlerStep DEF Agent!TimeOut

LEMMA TakeSignalStep == AgentInv /\ Agent!TakeSignal => AgentInv'
<1> SUFFICES ASSUME AgentInv, Agent!TakeSignal PROVE AgentInv'
  OBVIOUS
<1>1. World /\ Good(agent) /\ toAgent # <<>> /\ Agent!Message.kind = "signal"
  BY DEF AgentInv, Agent!TakeSignal
<1>2. Agent!Message.view \in Agent!Views
  BY <1>1, MessageFacts
<1>3. Good(Agent!ApplySnapshot(agent, Agent!Message.view))
  BY <1>1, <1>2, ApplySnapshotGood
<1>4. Good(agent')
  BY <1>1, <1>3 DEF Agent!TakeSignal
<1> QED
  BY <1>1, <1>4, HandlerStep DEF Agent!TakeSignal

LEMMA TakeOwnerStep == AgentInv /\ Agent!TakeOwner => AgentInv'
<1> SUFFICES ASSUME AgentInv, Agent!TakeOwner PROVE AgentInv'
  OBVIOUS
<1> DEFINE fresh == [Agent!NewAgent EXCEPT !.intent = agent.intent]
           found == [fresh EXCEPT !.at = "identity", !.process = Agent!Message.id, !.view = agent.view]
<1>1. /\ World /\ Good(agent) /\ agent \in Agent!Agents
      /\ toAgent # <<>> /\ Agent!Message.kind \in {"found", "lost"}
  BY DEF AgentInv, Agent!TakeOwner, Good
<1>2. Agent!NewAgent \in Agent!Agents /\ Agent!NewAgent.process = 0 /\ Agent!NewAgent.waiting = {}
      /\ ~Agent!NewAgent.lease.active
  <2>1. Agent!NoLease \in Agent!Leases /\ Agent!NoView \in Agent!Views
    BY DEF Agent!NoLease, Agent!NoView, Agent!Leases, Agent!Views
  <2>2. ~Agent!NoLease.active
    BY DEF Agent!NoLease
  <2> QED
    BY <2>1, <2>2 DEF Agent!NewAgent, Agent!Agents
<1>3. fresh \in Agent!Agents /\ fresh.process = 0 /\ fresh.waiting = {} /\ ~fresh.lease.active
  BY <1>1, <1>2 DEF Agent!Agents
<1>4. Agent!Message.id \in Nat /\ (Agent!Message.kind = "found" => Agent!Message.id <= backend.process)
  BY <1>1, MessageFacts DEF World
<1>5. Agent!Message.kind = "found" => found \in Agent!Agents /\ found.process <= backend.process
                                /\ found.waiting = {} /\ ~found.lease.active
  BY <1>1, <1>3, <1>4 DEF Agent!Agents
<1>6. backend.process \in Nat
  BY <1>1 DEF World, Agent!Backends
<1>7. agent' \in Agent!Agents /\ agent'.process <= backend.process /\ agent'.waiting = {}
      /\ ~agent'.lease.active
  BY <1>1, <1>3, <1>5, <1>6 DEF Agent!TakeOwner
<1>8. Good(agent')
  BY <1>7, FS_EmptySet DEF Good, Kept
<1> QED
  BY <1>1, <1>8, HandlerStep DEF Agent!TakeOwner

LEMMA VerifyIdentityStep == AgentInv /\ Agent!VerifyIdentity => AgentInv'
<1> SUFFICES ASSUME AgentInv, Agent!VerifyIdentity PROVE AgentInv'
  OBVIOUS
<1>1. World /\ Good(agent)
  BY DEF AgentInv
<1>2. Good(agent')
  BY <1>1, TweaksGood, AuthorizeGood DEF Agent!VerifyIdentity
<1> QED
  BY <1>1, <1>2, HandlerStep DEF Agent!VerifyIdentity

LEMMA RecoveryReadStep == AgentInv /\ Agent!RecoveryRead => AgentInv'
<1> SUFFICES ASSUME AgentInv, Agent!RecoveryRead PROVE AgentInv'
  OBVIOUS
<1>1. World /\ Good(agent)
  BY DEF AgentInv
<1>2. Good(agent')
  BY <1>1, TweaksGood, RequestSnapshotGood DEF Agent!RecoveryRead
<1> QED
  BY <1>1, <1>2, HandlerStep DEF Agent!RecoveryRead

LEMMA QueueConnectionStep ==
    \A intent \in {"user", "auto"} : AgentInv /\ Agent!QueueConnection(intent) => AgentInv'
<1> SUFFICES ASSUME NEW intent \in {"user", "auto"}, AgentInv, Agent!QueueConnection(intent)
             PROVE  AgentInv'
  OBVIOUS
<1> DEFINE asked == [agent EXCEPT !.intent = intent, !.lease.same = FALSE]
           sure == Agent!Acquire(asked)
<1>1. World /\ Good(agent) /\ agent \in Agent!Agents /\ agent.lease \in Agent!Leases
  BY DEF AgentInv, Good, Agent!Agents
<1>2. Good(asked)
  <2>1. Good(Agent!Clear(agent)) /\ Agent!Clear(agent) \in Agent!Agents
    BY <1>1, ClearGood DEF Good
  <2>2. asked = [Agent!Clear(agent) EXCEPT !.intent = intent]
    BY <1>1 DEF Agent!Clear, Agent!Agents
  <2>3. asked \in Agent!Agents
    BY <2>1, <2>2 DEF Agent!Agents
  <2> QED
    BY <2>1, <2>2, <2>3, LessIsGood DEF Agent!Agents
<1> HIDE DEF asked
<1>3. Good(Agent!RequestSnapshot([asked EXCEPT !.tries = 0]))
  BY <1>1, <1>2, TweaksGood, RequestSnapshotGood
<1>4. Good(sure)
  BY <1>1, <1>2, AcquireGood
<1> HIDE DEF sure
<1>5. Good(Agent!DispatchPending(sure)) /\ Good(Agent!DispatchPending(Agent!ApplyPreference(sure)))
  BY <1>1, <1>4, ApplyPreferenceGood, DispatchPendingGood
<1>6. Good(agent')
  BY <1>3, <1>5 DEF Agent!QueueConnection, asked, sure
<1> QED
  BY <1>1, <1>6, HandlerStep DEF Agent!QueueConnection

LEMMA DisconnectStep == AgentInv /\ Agent!Disconnect => AgentInv'
<1> SUFFICES ASSUME AgentInv, Agent!Disconnect PROVE AgentInv'
  OBVIOUS
<1>1. World /\ Good(agent)
  BY DEF AgentInv
<1>2. Good(Agent!Clear(agent)) /\ Good(Agent!CallOperation(Agent!Clear(agent), "disconnect"))
      /\ Good(Agent!Release(Agent!Clear(agent)))
  BY <1>1, ClearGood, CallOperationGood, ReleaseGood DEF Agent!OperationKinds
<1>3. Good(agent')
  BY <1>2 DEF Agent!Disconnect
<1> QED
  BY <1>1, <1>3, HandlerStep DEF Agent!Disconnect

-----------------------------------------------------------------------------
(* The steps of the service. *)

LEMMA ViewType == ASSUME NEW b \in Agent!Backends PROVE Agent!View(b) \in Agent!Views
<1>1. (\E job \in b.jobs : job.at = "running") \in BOOLEAN
  OBVIOUS
<1> QED
  BY <1>1 DEF Agent!View, Agent!Views, Agent!Backends

LEMMA ReplyFacts ==
    ASSUME World, NEW call, call.id \in Nat, NEW outcome \in {"ok", "refused"}
    PROVE  /\ <<Agent!Reply(call, outcome)>> \in Seq(Agent!Messages)
           /\ Agent!Reply(call, outcome).kind = "reply" /\ Agent!Reply(call, outcome).id = call.id
           /\ Agent!Reply(call, outcome).outcome = outcome
<1>1. Agent!View(backend) \in Agent!Views
  BY ViewType DEF World
<1>2. Agent!Reply(call, outcome) \in Agent!Messages
  BY <1>1 DEF Agent!Reply, Agent!Messages
<1> QED
  BY <1>2 DEF Agent!Reply

\* What the bus brings to the agent after a step of the service.
LEMMA PublishFacts ==
    ASSUME World, NEW b \in Agent!Backends, NEW replies \in Seq(Agent!Messages), Agent!Publish(b, replies)
    PROVE  /\ backend' = b /\ toAgent' \in Seq(Agent!Messages)
           /\ \A i \in DOMAIN toAgent' :
                  \/ \E j \in DOMAIN toAgent : toAgent'[i] = toAgent[j]
                  \/ toAgent'[i].kind = "signal"
                  \/ \E j \in DOMAIN replies : toAgent'[i] = replies[j]
<1> DEFINE signal == [kind |-> "signal", id |-> -b.process, view |-> Agent!View(b)]
           signals == IF Agent!View(b) = Agent!View(backend) THEN <<>> ELSE <<signal>>
<1>1. signal \in Agent!Messages
  BY ViewType DEF Agent!Messages, Agent!Backends
<1>2. signals \in Seq(Agent!Messages) /\ \A i \in DOMAIN signals : signals[i].kind = "signal"
  BY <1>1
<1>3. toAgent \in Seq(Agent!Messages)
  BY DEF World
<1>4. backend' = b /\ toAgent' = (toAgent \o signals) \o replies
  BY DEF Agent!Publish
<1> HIDE DEF signals
<1>5. (toAgent \o signals) \in Seq(Agent!Messages)
      /\ \A i \in DOMAIN (toAgent \o signals) :
             \/ \E j \in DOMAIN toAgent : (toAgent \o signals)[i] = toAgent[j]
             \/ \E j \in DOMAIN signals : (toAgent \o signals)[i] = signals[j]
  BY <1>2, <1>3
<1> DEFINE s == toAgent \o signals
<1> HIDE DEF s
<1>6. s \in Seq(Agent!Messages)
      /\ \A i \in DOMAIN s : (\E j \in DOMAIN toAgent : s[i] = toAgent[j]) \/ s[i].kind = "signal"
  BY <1>2, <1>5 DEF s
<1>7. s \o replies \in Seq(Agent!Messages)
      /\ \A i \in DOMAIN (s \o replies) :
             \/ \E j \in DOMAIN s : (s \o replies)[i] = s[j]
             \/ \E j \in DOMAIN replies : (s \o replies)[i] = replies[j]
  BY <1>6
<1> QED
  BY <1>4, <1>6, <1>7 DEF s

\* The agent sees nothing of a step but messages; a registration it waits for may
\* begin with the generation of now, or be answered.
LEMMA ServiceStep ==
    ASSUME AgentInv, NEW b \in Agent!Backends, NEW replies \in Seq(Agent!Messages), Agent!Publish(b, replies),
           agent' = agent, b.process = backend.process, b.alive = backend.alive,
           IsFiniteSet(b.jobs), backend.held => b.held,
           \A job \in b.jobs :
               \/ job \in backend.jobs /\ (job.at = "probing" => b.generation = backend.generation)
               \/ \E old \in backend.jobs :
                      /\ job.id = old.id /\ job.kind = old.kind
                      /\ old.kind = "register" => job.at = "probing" /\ job.seen = b.generation,
           \A j \in DOMAIN replies :
               /\ replies[j].kind = "reply"
               /\ \E old \in backend.jobs :
                      /\ replies[j].id = old.id
                      /\ old.kind = "register" =>
                             /\ old.at # "queued"
                             /\ replies[j].outcome = "ok" /\ old.seen = backend.generation => b.held
    PROVE  AgentInv'
<1>1. World /\ Good(agent)
  BY DEF AgentInv
<1>2. /\ backend' = b /\ toAgent' \in Seq(Agent!Messages)
      /\ \A i \in DOMAIN toAgent' :
             \/ \E j \in DOMAIN toAgent : toAgent'[i] = toAgent[j]
             \/ toAgent'[i].kind = "signal"
             \/ \E j \in DOMAIN replies : toAgent'[i] = replies[j]
  BY <1>1, PublishFacts
<1>3. World'
  BY <1>1, <1>2 DEF World
<1>4. Kept(agent)'
  <2> SUFFICES ASSUME Bound(agent)'
               PROVE  /\ (agent.lease.active => backend.held /\ ~Withdraws(agent))'
                      /\ \A c \in agent.waiting : c.kind = "register" => Honest(agent, c)'
    BY DEF Kept
  <2>1. Bound(agent)
    BY <1>2 DEF Bound
  <2>2. Withdraws(agent)' <=> Withdraws(agent)
    BY DEF Withdraws
  <2>3. agent.lease.active => backend.held /\ ~Withdraws(agent)
    BY <1>1, <2>1 DEF Good, Kept
  <2>4. ASSUME NEW c \in agent.waiting, c.kind = "register"
        PROVE  Honest(agent, c)'
    <3>1. Honest(agent, c)
      BY <1>1, <2>1, <2>4 DEF Good, Kept
    <3>2. ASSUME NEW job \in b.jobs, job.id = c.id
          PROVE  /\ job.kind = "register" /\ job.at \in {"queued", "probing"} /\ ~Withdraws(agent)
                 /\ job.at = "probing" => job.seen = b.generation
      <4>1. CASE job \in backend.jobs /\ (job.at = "probing" => b.generation = backend.generation)
        BY <3>1, <3>2, <4>1 DEF Honest
      <4>2. CASE \E old \in backend.jobs :
                     /\ job.id = old.id /\ job.kind = old.kind
                     /\ old.kind = "register" => job.at = "probing" /\ job.seen = b.generation
        BY <3>1, <3>2, <4>2 DEF Honest
      <4> QED
        BY <4>1, <4>2
    <3>3. ASSUME NEW j \in DOMAIN replies, replies[j].id = c.id
          PROVE  ~Withdraws(agent) /\ (replies[j].outcome = "ok" => b.held)
      <4>1. PICK old \in backend.jobs :
                /\ replies[j].id = old.id
                /\ old.kind = "register" =>
                       /\ old.at # "queued"
                       /\ replies[j].outcome = "ok" /\ old.seen = backend.generation => b.held
        OBVIOUS
      <4>2. /\ old.kind = "register" /\ old.at \in {"queued", "probing"} /\ ~Withdraws(agent)
            /\ old.at = "probing" => old.seen = backend.generation
        BY <3>1, <3>3, <4>1 DEF Honest
      <4> QED
        BY <4>1, <4>2
    <3>4. ASSUME NEW i \in DOMAIN toAgent', toAgent'[i].kind = "reply", toAgent'[i].id = c.id
          PROVE  ~Withdraws(agent) /\ (toAgent'[i].outcome = "ok" => b.held)
      BY <1>2, <3>1, <3>3, <3>4 DEF Honest
    <3> QED
      BY <1>2, <2>2, <3>1, <3>2, <3>4 DEF Honest
  <2> QED
    BY <1>2, <2>2, <2>3, <2>4
<1> QED
  BY <1>1, <1>2, <1>3, <1>4 DEF AgentInv, Good

LEMMA JobBeginsStep == \A job \in backend.jobs : AgentInv /\ Agent!JobBegins(job) => AgentInv'
<1> SUFFICES ASSUME NEW job \in backend.jobs, AgentInv, Agent!JobBegins(job) PROVE AgentInv'
  OBVIOUS
<1> DEFINE others == backend.jobs \ {job}
           begun(at) == [backend EXCEPT !.jobs = others \cup
                            {[job EXCEPT !.at = at, !.seen = backend.generation]}]
           refused == [backend EXCEPT !.jobs = others]
<1>1. /\ World /\ backend \in Agent!Backends /\ job \in Agent!Jobs /\ backend.jobs \subseteq Agent!Jobs
      /\ IsFiniteSet(others) /\ agent' = agent
  BY FS_RemoveElement DEF AgentInv, World, Agent!Backends, Agent!JobBegins
<1>2. ASSUME NEW at \in {"probing", "running"}, Agent!Publish(begun(at), <<>>),
             job.kind = "register" => at = "probing"
      PROVE  AgentInv'
  <2> DEFINE later == [job EXCEPT !.at = at, !.seen = backend.generation]
  <2>1. later \in Agent!Jobs /\ later.at = at /\ later.seen = backend.generation
        /\ later.id = job.id /\ later.kind = job.kind
    BY <1>1 DEF Agent!Jobs, Agent!Backends
  <2>2. begun(at) \in Agent!Backends /\ begun(at).jobs = others \cup {later}
        /\ begun(at).process = backend.process /\ begun(at).alive = backend.alive
        /\ begun(at).held = backend.held /\ begun(at).generation = backend.generation
    BY <1>1, <2>1 DEF Agent!Backends
  <2>3. IsFiniteSet(begun(at).jobs)
    BY <1>1, <2>2, FS_AddElement
  <2> HIDE DEF begun, later
  <2>4. <<>> \in Seq(Agent!Messages) /\ DOMAIN <<>> = {}
    OBVIOUS
  <2> QED
    BY <1>1, <1>2, <2>1, <2>2, <2>3, <2>4, ServiceStep
<1>3. ASSUME Agent!Publish(refused, <<Agent!Reply(job, "refused")>>), job.kind # "register"
      PROVE  AgentInv'
  <2>1. refused \in Agent!Backends /\ refused.jobs = others
        /\ refused.process = backend.process /\ refused.alive = backend.alive
        /\ refused.held = backend.held /\ refused.generation = backend.generation
    BY <1>1 DEF Agent!Backends
  <2>2. <<Agent!Reply(job, "refused")>> \in Seq(Agent!Messages) /\ Agent!Reply(job, "refused").kind = "reply"
        /\ Agent!Reply(job, "refused").id = job.id
    BY <1>1, ReplyFacts DEF Agent!Jobs
  <2> HIDE DEF refused
  <2>3. \A j \in DOMAIN <<Agent!Reply(job, "refused")>> :
            <<Agent!Reply(job, "refused")>>[j] = Agent!Reply(job, "refused")
    OBVIOUS
  <2> QED
    BY <1>1, <1>3, <2>1, <2>2, <2>3, ServiceStep
<1> HIDE DEF begun, refused
<1>4. \/ Agent!Publish(begun("probing"), <<>>)
      \/ job.kind # "register" /\ Agent!Publish(begun("running"), <<>>)
      \/ job.kind # "register" /\ Agent!Publish(refused, <<Agent!Reply(job, "refused")>>)
  BY DEF Agent!JobBegins, begun, refused
<1> QED
  BY <1>2, <1>3, <1>4

LEMMA JobEndsStep ==
    \A job \in backend.jobs, outcome \in {"ok", "refused"} :
        AgentInv /\ Agent!JobEnds(job, outcome) => AgentInv'
<1> SUFFICES ASSUME NEW job \in backend.jobs, NEW outcome \in {"ok", "refused"},
                    AgentInv, Agent!JobEnds(job, outcome)
             PROVE  AgentInv'
  OBVIOUS
<1> DEFINE rest == [backend EXCEPT !.jobs = @ \ {job}]
           replies == <<Agent!Reply(job, outcome)>>
<1>1. /\ World /\ backend \in Agent!Backends /\ job \in Agent!Jobs /\ backend.jobs \subseteq Agent!Jobs
      /\ IsFiniteSet(backend.jobs \ {job}) /\ agent' = agent
  BY FS_RemoveElement DEF AgentInv, World, Agent!Backends, Agent!JobEnds
<1>2. /\ replies \in Seq(Agent!Messages) /\ Agent!Reply(job, outcome).kind = "reply"
      /\ Agent!Reply(job, outcome).id = job.id /\ Agent!Reply(job, outcome).outcome = outcome
  BY <1>1, ReplyFacts DEF Agent!Jobs
<1>3. \A j \in DOMAIN replies : replies[j] = Agent!Reply(job, outcome)
  OBVIOUS
<1>4. /\ rest \in Agent!Backends /\ rest.jobs = backend.jobs \ {job} /\ rest.process = backend.process
      /\ rest.alive = backend.alive /\ rest.held = backend.held
      /\ rest.generation = backend.generation
  BY <1>1 DEF Agent!Backends
<1> HIDE DEF rest, replies
<1>5. CASE job.kind = "register"
  <2> DEFINE held == backend.held \/ (outcome = "ok" /\ job.seen = backend.generation)
             generation == IF Agent!Probing(rest) = {} THEN 0 ELSE backend.generation
             b == [rest EXCEPT !.held = held, !.generation = generation]
  <2>1. Agent!Publish(b, replies) /\ job.at # "queued"
    <3>1. Agent!Publish([rest EXCEPT
              !.held = @ \/ (outcome = "ok" /\ job.seen = backend.generation),
              !.generation = IF Agent!Probing(rest) = {} THEN 0 ELSE @], replies) /\ job.at # "queued"
      BY <1>5 DEF Agent!JobEnds, rest, replies
    <3> QED
      BY <1>4, <3>1
  <2>2. held \in BOOLEAN /\ generation \in Nat
    BY <1>1 DEF Agent!Backends
  <2>3. \A job2 \in rest.jobs : job2.at = "probing" => generation = backend.generation
    BY DEF Agent!Probing
  <2>4. (backend.held => held) /\ (outcome = "ok" /\ job.seen = backend.generation => held)
    OBVIOUS
  <2> HIDE DEF held, generation
  <2>5. /\ b \in Agent!Backends /\ b.jobs = rest.jobs /\ b.process = rest.process
        /\ b.alive = rest.alive /\ b.held = held /\ b.generation = generation
    BY <1>4, <2>2 DEF Agent!Backends
  <2> HIDE DEF b
  <2> QED
    BY <1>1, <1>2, <1>3, <1>4, <1>5, <2>1, <2>3, <2>4, <2>5, ServiceStep
<1>6. ASSUME job.kind # "register", NEW up \in BOOLEAN, Agent!Publish([rest EXCEPT !.up = up], replies)
      PROVE  AgentInv'
  <2> DEFINE b == [rest EXCEPT !.up = up]
  <2>1. /\ b \in Agent!Backends /\ b.jobs = rest.jobs /\ b.process = rest.process
        /\ b.alive = rest.alive /\ b.held = rest.held /\ b.generation = rest.generation
    BY <1>4 DEF Agent!Backends
  <2> HIDE DEF b
  <2>2. Agent!Publish(b, replies)
    BY <1>6 DEF b
  <2> QED
    BY <1>1, <1>2, <1>3, <1>4, <1>6, <2>1, <2>2, ServiceStep
<1>7. CASE job.kind = "disconnect"
  <2>1. Agent!Publish([rest EXCEPT !.up = @ /\ outcome # "ok"], replies)
    BY <1>7 DEF Agent!JobEnds, rest, replies
  <2>2. (rest.up /\ outcome # "ok") \in BOOLEAN
    OBVIOUS
  <2>3. Agent!Publish([rest EXCEPT !.up = (rest.up /\ outcome # "ok")], replies)
    BY <2>1
  <2> QED
    BY <1>6, <1>7, <2>2, <2>3
<1>8. CASE job.kind = "connect"
  <2>1. PICK up \in {backend.up, outcome = "ok"} : Agent!Publish([rest EXCEPT !.up = up], replies)
    BY <1>8 DEF Agent!JobEnds, rest, replies
  <2>2. backend.up \in BOOLEAN /\ (outcome = "ok") \in BOOLEAN
    BY <1>1 DEF Agent!Backends
  <2>3. up \in BOOLEAN
    BY <2>2
  <2> QED
    BY <1>6, <1>8, <2>1, <2>3
<1>9. CASE job.kind \notin {"register", "connect", "disconnect"}
  <2>1. Agent!Publish(rest, replies)
    BY <1>9 DEF Agent!JobEnds, rest, replies
  <2> QED
    BY <1>1, <1>2, <1>3, <1>4, <1>9, <2>1, ServiceStep
<1> QED
  BY <1>5, <1>7, <1>8, <1>9

\* A process that has just started.
LEMMA StartedFacts ==
    ASSUME NEW n \in Nat
    PROVE  /\ Agent!Started(n) # {}
           /\ \A b \in Agent!Started(n) : b \in Agent!Backends /\ b.process = n /\ b.jobs = {}
<1> DEFINE Fresh == [process : {n}, alive : {TRUE}, ready : BOOLEAN, in : BOOLEAN,
                     understood : BOOLEAN, up : {FALSE}, held : {FALSE}, generation : {0},
                     jobs : {{}}]
           first == [process |-> n, alive |-> TRUE, ready |-> TRUE, in |-> TRUE,
                     understood |-> TRUE, up |-> FALSE, held |-> FALSE, generation |-> 0,
                     jobs |-> {}]
<1>1. ASSUME NEW b \in Fresh PROVE b \in Agent!Backends /\ b.process = n /\ b.jobs = {}
  <2>1. {n} \subseteq Nat /\ {0} \subseteq Nat /\ {{}} \subseteq SUBSET Agent!Jobs
        /\ {TRUE} \subseteq BOOLEAN /\ {FALSE} \subseteq BOOLEAN
    OBVIOUS
  <2> QED
    BY <2>1 DEF Agent!Backends
<1>2. \A b \in Agent!Started(n) : b \in Fresh
  BY DEF Agent!Started
<1>3. first \in Agent!Started(n)
  <2>1. first \in Fresh /\ first.ready /\ first.in
    OBVIOUS
  <2> QED
    BY <2>1 DEF Agent!Started
<1> HIDE DEF Fresh, first
<1> QED
  BY <1>1, <1>2, <1>3

LEMMA BecomesReadyStep == AgentInv /\ Agent!BecomesReady => AgentInv'
<1> SUFFICES ASSUME AgentInv, Agent!BecomesReady PROVE AgentInv'
  OBVIOUS
<1> DEFINE b == [backend EXCEPT !.ready = TRUE]
<1>1. backend \in Agent!Backends /\ IsFiniteSet(backend.jobs) /\ agent' = agent /\ Agent!Publish(b, <<>>)
  BY DEF AgentInv, World, Agent!BecomesReady
<1>2. /\ b \in Agent!Backends /\ b.jobs = backend.jobs /\ b.process = backend.process
      /\ b.alive = backend.alive /\ b.held = backend.held /\ b.generation = backend.generation
  BY <1>1 DEF Agent!Backends
<1> HIDE DEF b
<1>3. <<>> \in Seq(Agent!Messages) /\ DOMAIN <<>> = {}
  OBVIOUS
<1> QED
  BY <1>1, <1>2, <1>3, ServiceStep

\* A call reaches the service it was sent to: a registration nobody has withdrawn
\* since becomes a job, a withdrawal finds no registration the agent waits for.
LEMMA ReceiveStep == AgentInv /\ Agent!Receive => AgentInv'
<1> SUFFICES ASSUME AgentInv, Agent!Receive PROVE AgentInv'
  OBVIOUS
<1> DEFINE h == Head(agent.out)
           generation == IF Agent!Probing(backend) # {} THEN backend.generation + 1 ELSE 0
           withdrawn == [backend EXCEPT !.held = FALSE, !.generation = generation]
           job == [kind |-> h.kind, id |-> h.id, at |-> "queued", seen |-> 0]
           adopted == [backend EXCEPT !.jobs = @ \cup {job}]
           Sent == [kind : Agent!CallKinds \cup {"unregister"}, id : Nat]
<1>1. World /\ Good(agent) /\ agent \in Agent!Agents /\ backend \in Agent!Backends /\ agent.out \in Seq(Sent)
  BY DEF AgentInv, World, Good, Agent!Agents
<1>2. agent.out # <<>> /\ agent' = [agent EXCEPT !.out = Tail(@)]
  BY DEF Agent!Receive, Agent!InTransit
<1>3. /\ h \in Sent /\ 1 \in DOMAIN agent.out /\ h = agent.out[1]
      /\ Tail(agent.out) \in Seq(Sent)
      /\ \A i \in DOMAIN Tail(agent.out) :
             i + 1 \in DOMAIN agent.out /\ Tail(agent.out)[i] = agent.out[i + 1]
      /\ \A i \in DOMAIN agent.out : i >= 1
      /\ \A i, j \in DOMAIN Tail(agent.out) : i >= j => i + 1 >= j + 1
  <2> HIDE DEF Sent
  <2>1. h \in Sent /\ 1 \in DOMAIN agent.out /\ h = agent.out[1]
    BY <1>1, <1>2
  <2>2. Tail(agent.out) \in Seq(Sent)
        /\ \A i \in DOMAIN Tail(agent.out) :
               i + 1 \in DOMAIN agent.out /\ Tail(agent.out)[i] = agent.out[i + 1]
    BY <1>1, <1>2
  <2>3. DOMAIN agent.out = 1 .. Len(agent.out) /\ Len(agent.out) \in Nat
        /\ DOMAIN Tail(agent.out) = 1 .. Len(Tail(agent.out)) /\ Len(Tail(agent.out)) \in Nat
    BY <1>1, <2>2
  <2>4. /\ \A i \in DOMAIN agent.out : i >= 1
        /\ \A i, j \in DOMAIN Tail(agent.out) : i >= j => i + 1 >= j + 1
    BY <2>3
  <2> QED
    BY <2>1, <2>2, <2>4
<1>4. h.kind \in Agent!CallKinds \cup {"unregister"} /\ h.id \in Nat
  BY <1>3
<1>5. /\ agent' \in Agent!Agents /\ agent'.out = Tail(agent.out) /\ agent'.waiting = agent.waiting
      /\ agent'.process = agent.process /\ agent'.lease = agent.lease
  BY <1>1, <1>2, <1>3 DEF Agent!Agents
<1>6. \/ h.kind = "unregister" /\ Agent!Publish(withdrawn, <<>>)
      \/ h.kind = "snapshot" /\ Agent!Publish(backend, <<Agent!Reply(h, "ok")>>)
      \/ h.kind \notin {"unregister", "snapshot"} /\ Agent!Publish(adopted, <<>>)
  BY DEF Agent!Receive
<1>7. backend.generation \in Nat /\ generation \in Nat
  BY <1>1 DEF Agent!Backends
<1>8. job.kind = h.kind /\ job.id = h.id /\ job.at = "queued"
      /\ (h.kind # "unregister" => job \in Agent!Jobs)
  BY <1>4 DEF Agent!Jobs
<1>9. PICK b \in Agent!Backends, replies \in Seq(Agent!Messages) :
          /\ Agent!Publish(b, replies) /\ b.process = backend.process /\ b.alive = backend.alive
          /\ IsFiniteSet(b.jobs)
          /\ h.kind = "unregister" => b.jobs = backend.jobs
          /\ h.kind # "unregister" => b.held = backend.held /\ b.generation = backend.generation
          /\ \A k \in b.jobs : k \in backend.jobs \/ (k = job /\ h.kind # "unregister")
          /\ \A j \in DOMAIN replies :
                 replies[j].kind = "reply" /\ replies[j].id = h.id /\ h.kind = "snapshot"
  <2>1. <<>> \in Seq(Agent!Messages) /\ DOMAIN <<>> = {}
    OBVIOUS
  <2>2. IsFiniteSet(backend.jobs) /\ IsFiniteSet(backend.jobs \cup {job})
    BY <1>1, FS_AddElement DEF World
  <2> HIDE DEF h, job, generation
  <2>3. CASE h.kind = "unregister"
    <3>1. /\ withdrawn \in Agent!Backends /\ withdrawn.jobs = backend.jobs
          /\ withdrawn.process = backend.process /\ withdrawn.alive = backend.alive
      BY <1>1, <1>7 DEF Agent!Backends
    <3> HIDE DEF withdrawn
    <3> QED
      BY <1>6, <2>1, <2>2, <2>3, <3>1
  <2>4. CASE h.kind = "snapshot"
    <3>1. <<Agent!Reply(h, "ok")>> \in Seq(Agent!Messages) /\ Agent!Reply(h, "ok").kind = "reply"
          /\ Agent!Reply(h, "ok").id = h.id
      BY <1>1, <1>4, ReplyFacts
    <3>2. \A j \in DOMAIN <<Agent!Reply(h, "ok")>> : <<Agent!Reply(h, "ok")>>[j] = Agent!Reply(h, "ok")
      OBVIOUS
    <3>3. Agent!Publish(backend, <<Agent!Reply(h, "ok")>>)
      BY <1>6, <2>4
    <3>4. \A j \in DOMAIN <<Agent!Reply(h, "ok")>> :
              /\ <<Agent!Reply(h, "ok")>>[j].kind = "reply" /\ <<Agent!Reply(h, "ok")>>[j].id = h.id
      BY <3>1, <3>2
    <3> QED
      BY <1>1, <2>2, <2>4, <3>1, <3>3, <3>4
  <2>5. CASE h.kind \notin {"unregister", "snapshot"}
    <3>1. /\ adopted \in Agent!Backends /\ adopted.jobs = backend.jobs \cup {job}
          /\ adopted.process = backend.process /\ adopted.alive = backend.alive
          /\ adopted.held = backend.held /\ adopted.generation = backend.generation
      BY <1>1, <1>8, <2>5 DEF Agent!Backends
    <3> HIDE DEF adopted
    <3> QED
      BY <1>6, <2>1, <2>2, <2>5, <3>1
  <2> QED
    BY <2>3, <2>4, <2>5
<1> HIDE DEF h, job, generation, withdrawn, adopted, Sent
<1>10. /\ backend' = b /\ toAgent' \in Seq(Agent!Messages)
       /\ \A i \in DOMAIN toAgent' :
              \/ \E j \in DOMAIN toAgent : toAgent'[i] = toAgent[j]
              \/ toAgent'[i].kind = "signal"
              \/ \E j \in DOMAIN replies : toAgent'[i] = replies[j]
  BY <1>1, <1>9, PublishFacts
<1>11. World'
  BY <1>1, <1>9, <1>10 DEF World
<1>12. Kept(agent)'
  <2> SUFFICES ASSUME Bound(agent)'
               PROVE  /\ (agent.lease.active => backend.held /\ ~Withdraws(agent))'
                      /\ \A c \in agent'.waiting : c.kind = "register" => Honest(agent, c)'
    BY DEF Kept
  <2>1. Bound(agent)
    BY <1>5, <1>9, <1>10 DEF Bound
  <2>2. Withdraws(agent)' => Withdraws(agent)
    BY <1>3, <1>5 DEF Withdraws
  <2>3. h.kind = "unregister" => Withdraws(agent)
    BY <1>3 DEF Withdraws
  <2>4. (agent.lease.active => backend.held /\ ~Withdraws(agent))'
    BY <1>1, <1>5, <1>9, <1>10, <2>1, <2>2, <2>3 DEF Good, Kept
  <2>5. ASSUME NEW c \in agent.waiting, c.kind = "register"
        PROVE  Honest(agent, c)'
    <3>1. Honest(agent, c)
      BY <1>1, <2>1, <2>5 DEF Good, Kept
    <3>2. h.id = c.id => h.kind = "register" /\ ~Withdraws(agent)
      BY <1>3, <3>1 DEF Honest, Withdraws
    <3>3. \A i \in DOMAIN agent'.out : agent'.out[i].id = c.id =>
              /\ agent'.out[i].kind = "register"
              /\ \A j \in DOMAIN agent'.out : j >= i => agent'.out[j].kind # "unregister"
      BY <1>3, <1>5, <3>1 DEF Honest
    <3>4. ASSUME NEW k \in b.jobs, k.id = c.id
          PROVE  /\ k.kind = "register" /\ k.at \in {"queued", "probing"} /\ ~Withdraws(agent)'
                 /\ k.at = "probing" => k.seen = b.generation
      <4>1. CASE k \in backend.jobs
        BY <1>9, <2>2, <2>3, <3>1, <3>4, <4>1 DEF Honest
      <4>2. CASE k = job
        BY <1>8, <2>2, <3>2, <3>4, <4>2
      <4> QED
        BY <1>9, <4>1, <4>2
    <3>5. ASSUME NEW i \in DOMAIN toAgent', toAgent'[i].kind = "reply", toAgent'[i].id = c.id
          PROVE  ~Withdraws(agent)' /\ (toAgent'[i].outcome = "ok" => b.held)
      <4>1. CASE \E j \in DOMAIN toAgent : toAgent'[i] = toAgent[j]
        BY <1>9, <2>2, <2>3, <3>1, <3>5, <4>1 DEF Honest
      <4>2. CASE \E j \in DOMAIN replies : toAgent'[i] = replies[j]
        BY <1>9, <3>2, <3>5, <4>2
      <4> QED
        BY <1>10, <3>5, <4>1, <4>2
    <3> QED
      BY <1>10, <3>3, <3>4, <3>5 DEF Honest
  <2> QED
    BY <1>5, <2>4, <2>5
<1> QED
  BY <1>1, <1>5, <1>9, <1>10, <1>11, <1>12 DEF AgentInv, Good

LEMMA DiesStep == AgentInv /\ Agent!Dies => AgentInv'
<1> SUFFICES ASSUME AgentInv, Agent!Dies PROVE AgentInv'
  OBVIOUS
<1>1. World /\ Good(agent) /\ backend \in Agent!Backends /\ toAgent \in Seq(Agent!Messages)
  BY DEF AgentInv, World
<1>2. /\ backend' \in Agent!Backends /\ backend'.jobs = {} /\ ~backend'.alive
      /\ backend'.process = backend.process
  BY <1>1 DEF Agent!Dies, Agent!Backends
<1>3. toAgent' \in Seq(Agent!Messages)
      /\ \A i \in DOMAIN toAgent' : \/ i \in DOMAIN toAgent /\ toAgent'[i] = toAgent[i]
                                    \/ toAgent'[i].kind = "lost"
  <2>1. [kind |-> "lost", id |-> 0] \in Agent!Messages
    BY DEF Agent!Messages
  <2> QED
    BY <1>1, <2>1 DEF Agent!Dies
<1>4. World'
  BY <1>1, <1>2, <1>3, FS_EmptySet DEF World
<1>5. Kept(agent)'
  BY <1>2 DEF Kept, Bound
<1> QED
  BY <1>1, <1>2, <1>4, <1>5 DEF AgentInv, Good, Agent!Dies

LEMMA StartsStep == AgentInv /\ Agent!Starts => AgentInv'
<1> SUFFICES ASSUME AgentInv, Agent!Starts PROVE AgentInv'
  OBVIOUS
<1>1. /\ World /\ Good(agent) /\ agent \in Agent!Agents /\ backend \in Agent!Backends
      /\ toAgent \in Seq(Agent!Messages) /\ agent' = agent
  BY DEF AgentInv, World, Good, Agent!Starts
<1>2. backend.process \in Nat /\ agent.process \in Nat /\ agent.process <= backend.process
  BY <1>1 DEF Good, Agent!Agents, Agent!Backends
<1>3. backend' \in Agent!Backends /\ backend'.jobs = {} /\ backend'.process = backend.process + 1
  <2>1. backend.process + 1 \in Nat /\ backend' \in Agent!Started(backend.process + 1)
    BY <1>2 DEF Agent!Starts
  <2> QED
    BY <2>1, StartedFacts
<1>4. toAgent' \in Seq(Agent!Messages)
      /\ \A i \in DOMAIN toAgent' : \/ i \in DOMAIN toAgent /\ toAgent'[i] = toAgent[i]
                                    \/ toAgent'[i].id = backend.process + 1
  <2>1. [kind |-> "found", id |-> backend.process + 1] \in Agent!Messages
    BY <1>2 DEF Agent!Messages
  <2> QED
    BY <1>1, <2>1 DEF Agent!Starts
<1>5. \A i \in DOMAIN toAgent : toAgent[i].kind = "found" =>
          toAgent[i].id \in Nat /\ toAgent[i].id <= backend.process
  BY <1>1 DEF World, Agent!Messages
<1>6. World'
  BY <1>2, <1>3, <1>4, <1>5, FS_EmptySet DEF World
<1>7. ~Bound(agent)'
  BY <1>1, <1>2, <1>3 DEF Bound
<1> QED
  BY <1>1, <1>2, <1>3, <1>6, <1>7 DEF AgentInv, Good, Kept

-----------------------------------------------------------------------------

(* The agent and its service together. *)

LEMMA InitAgent == Agent!Init => AgentInv
<1> SUFFICES ASSUME Agent!Init PROVE AgentInv
  OBVIOUS
<1>1. Agent!NewAgent \in Agent!Agents /\ Agent!NewAgent.process = 0 /\ Agent!NewAgent.waiting = {}
      /\ ~Agent!NewAgent.lease.active
  <2>1. Agent!NoLease \in Agent!Leases /\ Agent!NoView \in Agent!Views /\ ~Agent!NoLease.active
    BY DEF Agent!NoLease, Agent!NoView, Agent!Leases, Agent!Views
  <2> QED
    BY <2>1 DEF Agent!NewAgent, Agent!Agents
<1>2. ASSUME NEW n \in {0, 1}
      PROVE  /\ Agent!Started(n) # {}
             /\ \A b \in Agent!Started(n) : b \in Agent!Backends /\ b.process = n /\ b.jobs = {}
  BY StartedFacts
<1>3. /\ backend \in Agent!Backends /\ backend.jobs = {} /\ backend.process \in {0, 1}
      /\ toAgent \in Seq(Agent!Messages)
      /\ \A i \in DOMAIN toAgent : toAgent[i].id = 1 /\ backend.process = 1
  <2>1. CASE backend = [CHOOSE b \in Agent!Started(0) : TRUE EXCEPT !.alive = FALSE] /\ toAgent = <<>>
    <3>1. (CHOOSE b \in Agent!Started(0) : TRUE) \in Agent!Started(0)
      BY <1>2
    <3>2. PICK b \in Agent!Started(0) : backend = [b EXCEPT !.alive = FALSE]
      BY <2>1, <3>1
    <3>3. backend \in Agent!Backends /\ backend.jobs = {} /\ backend.process = 0
      BY <1>2, <3>2 DEF Agent!Backends
    <3> QED
      BY <2>1, <3>3
  <2>2. CASE backend \in Agent!Started(1) /\ toAgent = <<[kind |-> "found", id |-> 1]>>
    <3>1. [kind |-> "found", id |-> 1] \in Agent!Messages
      BY DEF Agent!Messages
    <3> QED
      BY <1>2, <2>2, <3>1
  <2> QED
    BY <2>1, <2>2 DEF Agent!Init
<1> QED
  BY <1>1, <1>3, FS_EmptySet DEF Agent!Init, AgentInv, World, Good, Kept

LEMMA AgentStep == AgentInv /\ [Agent!Next]_Agent!vars => AgentInv'
<1> SUFFICES ASSUME AgentInv, [Agent!Next]_Agent!vars PROVE AgentInv'
  OBVIOUS
<1>1. CASE UNCHANGED Agent!vars
  BY <1>1 DEF Agent!vars, AgentInv, World, Good, Kept, Bound, Withdraws, Honest
<1>2. CASE Agent!Next
  BY <1>2, TakeReplyStep, TakeSignalStep, TakeOwnerStep, VerifyIdentityStep, ReceiveStep,
     BecomesReadyStep, JobBeginsStep, JobEndsStep, RecoveryReadStep, DiesStep, StartsStep,
     TimeOutStep, QueueConnectionStep, DisconnectStep DEF Agent!Next, Agent!Deliver, Agent!Serve
<1> QED
  BY <1>1, <1>2

LEMMA AgentInvariant == Agent!Spec => []AgentInv
BY InitAgent, AgentStep, PTL DEF Agent!Spec

Counters == requests \in Nat /\ timeouts \in Nat

LEMMA CountersStep == Counters /\ [Agent!Next]_Agent!vars => Counters'
<1> SUFFICES ASSUME requests \in Nat, timeouts \in Nat, [Agent!Next]_Agent!vars
             PROVE  requests' \in Nat /\ timeouts' \in Nat
  BY DEF Counters
<1>1. CASE UNCHANGED <<requests, timeouts>>
  BY <1>1
<1>2. CASE requests' = requests + 1 /\ timeouts' = timeouts
  BY <1>2
<1>3. CASE requests' = requests /\ timeouts' = timeouts + 1
  BY <1>3
<1>4. CASE Agent!Deliver
  BY <1>1, <1>4 DEF Agent!Deliver, Agent!TakeReply, Agent!TakeSignal, Agent!TakeOwner,
     Agent!VerifyIdentity
<1>5. CASE Agent!Serve
  BY <1>1, <1>5 DEF Agent!Serve, Agent!Receive, Agent!BecomesReady, Agent!JobBegins,
     Agent!JobEnds
<1>6. CASE Agent!RecoveryRead \/ Agent!Dies \/ Agent!Starts \/ UNCHANGED Agent!vars
  BY <1>1, <1>6 DEF Agent!RecoveryRead, Agent!Dies, Agent!Starts, Agent!vars
<1>7. CASE \/ Agent!Disconnect
           \/ \E intent \in {"user", "auto"} : Agent!QueueConnection(intent)
  BY <1>2, <1>7 DEF Agent!Disconnect, Agent!QueueConnection
<1>8. CASE \E call \in agent.waiting : Agent!TimeOut(call)
  BY <1>3, <1>8 DEF Agent!TimeOut
<1> QED
  BY <1>4, <1>5, <1>6, <1>7, <1>8 DEF Agent!Next

\* The agent, its service and what the bus brings keep the form the code gives
\* them: every handler of AgentVpnClient returns an agent.
THEOREM AgentTypes == Agent!Spec => []Agent!TypeOK
<1>1. AgentInv /\ Counters => Agent!TypeOK
  BY DEF AgentInv, World, Good, Counters, Agent!TypeOK
<1>2. Agent!Init => Counters
  BY DEF Agent!Init, Counters
<1> QED
  BY <1>1, <1>2, AgentInvariant, CountersStep, PTL DEF Agent!Spec

\* A lease the agent counts on, to queue a connection behind it, is one that its
\* service holds, however registrations, withdrawals, timeouts and the processes
\* of the service overtake each other.
THEOREM AgentLeaseIsHeld == Agent!Spec => []LeaseIsHeld
<1>1. AgentInv => LeaseIsHeld
  BY DEF AgentInv, Good, Kept, Bound, LeaseIsHeld
<1> QED
  BY <1>1, AgentInvariant, PTL

================================================================================
