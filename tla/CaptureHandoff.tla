--------------------------- MODULE CaptureHandoff ---------------------------
(***************************************************************************)
(* What packet capture promises whoever starts the backend next, without   *)
(* processes, tasks or retries: before Core may record there is a durable  *)
(* record of the deadline, and it stays as it is until Core no longer can. *)
(***************************************************************************)
EXTENDS Naturals

VARIABLES
    record,     \* the deadline on disk, 0 if there is none
    core        \* "off", "asked" (Core may begin to record) or "recording"

vars == <<record, core>>

Init == record = 0 /\ core = "off"

Reserve ==
    /\ core = "off"
    /\ record' \in Nat \ {0}
    /\ UNCHANGED core

\* Asking Core goes with the record of the deadline.
Ask ==
    /\ core = "off"
    /\ record' \in Nat \ {0}
    /\ core' = "asked"

Record ==
    /\ core = "asked"
    /\ core' = "recording"
    /\ UNCHANGED record

End ==
    /\ core # "off"
    /\ core' = "off"
    /\ record' \in {record, 0}

Release ==
    /\ core = "off"
    /\ record' = 0
    /\ UNCHANGED core

Next == Reserve \/ Ask \/ Record \/ End \/ Release

Spec == Init /\ [][Next]_vars
=============================================================================
