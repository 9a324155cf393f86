------------------------------ MODULE MCAlerts ------------------------------
(***************************************************************************)
(* Alerts for TLC: the CPU rule and the rule of a disk that may vanish.    *)
(* Sending can take longer than the channel buffers, For spans a drop, and *)
(* the horizon is long enough for two cooldowns of one rule.               *)
(***************************************************************************)
EXTENDS Alerts
=============================================================================
