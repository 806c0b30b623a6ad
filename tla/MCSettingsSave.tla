----------------------------- MODULE MCSettingsSave -----------------------------
(* Values of the constants of SettingsSave for TLC. *)
EXTENDS SettingsSave, TLC

SomePatches ==
    {"killSwitch" :> TRUE, "splitTunneling" :> TRUE, "customDns" :> TRUE,
     "killSwitch" :> FALSE, "netShield" :> TRUE,
     "telemetry" :> TRUE, "telemetry" :> FALSE}
=================================================================================
