--------------------------- MODULE MCClientLease ---------------------------
(* Two frontends, one of them with two registrations in flight. *)
EXTENDS ClientLease

SmallClientOf == [reg |-> "app", again |-> "app", auth |-> "tray", pin |-> "app"]
SmallMethodOf == [reg |-> "register", again |-> "register",
                  auth |-> "authorize", pin |-> "secret"]
SmallCalls == DOMAIN SmallClientOf

Snap(r, s, b, c) == [ready |-> r, state |-> s, busy |-> b, capture |-> c]

\* Starting (a failed start is looked at in the same way), and disconnected with
\* a capture left and without.
SmallSnapshots == {Snap(FALSE, "starting", FALSE, FALSE),
                   Snap(TRUE, "disconnected", FALSE, TRUE),
                   Snap(TRUE, "disconnected", FALSE, FALSE)}
=============================================================================
