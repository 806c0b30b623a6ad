------------------------- MODULE MCConnectionOwner -------------------------
(* Small populations for the runs of ConnectionOwner. *)
EXTENDS ConnectionOwner

DisconnectOnly == [down |-> "disconnect"]
Preferences == [down |-> "disconnect", off |-> "disable", on |-> "enable"]
=============================================================================
