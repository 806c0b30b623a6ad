---------------------------- MODULE MCController ----------------------------
(* Small request populations for the runs of Controller. *)
EXTENDS Controller

\* A connection, a capture Start, a save and a preference beside both cleanups.
OwnershipClass == [con |-> "connect", cap |-> "capture-start",
                   save |-> "scalar-write", pref |-> "preference"]
OwnershipRequests == DOMAIN OwnershipClass

\* Two saves, one with its refresh, and a read that meet at the settings lock.
SessionClass == [dns |-> "family-write", save |-> "scalar-write",
                 read |-> "settings-read"]
SessionRequests == DOMAIN SessionClass

\* What a cleanup may wait for: a save behind a read, a capture Start.
LivenessClass == [save |-> "scalar-write", read |-> "settings-read",
                  cap |-> "capture-start"]
LivenessRequests == DOMAIN LivenessClass
=============================================================================
