--------------------------- MODULE MCStatusManager ---------------------------
(***************************************************************************)
(* Instances of StatusManager.  With a cooldown of two ticks an event can   *)
(* come at its start, within it and after it; three workers are a timer, a  *)
(* push that waits for Discord and a push that overtakes it.                *)
(***************************************************************************)
EXTENDS StatusManager
=============================================================================
