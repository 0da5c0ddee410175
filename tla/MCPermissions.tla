---------------------------- MODULE MCPermissions ----------------------------
(***************************************************************************)
(* Instances of Permissions: two bridged channels, the role of the bot and  *)
(* the linked role below it.  @everyone may lack the permissions to write   *)
(* and to manage; the bot's role may add one, or make it administrator.     *)
(* The first channel has overwrites of all three layers, the second none,   *)
(* so that the channels disagree.                                           *)
(***************************************************************************)
EXTENDS Permissions

CONSTANTS botRole, linkedRole, c1, c2

MCPosition == [r \in Roles |-> IF r = botRole THEN 2 ELSE 1]

All == Permissions \ {"Administrator"}

MCGrants == [h \in Holders |->
    CASE h = Everyone -> {All, Messaging \ {"SendMessages"}}
      [] h = botRole  -> {{"SendMessages"}, {"Administrator"}}
      [] OTHER        -> {{}}]

Over(allow, deny) == [allow |-> allow, deny |-> deny]
MCOverwrites == {Neutral, Over({"SendMessages", "ManageChannels"}, {}),
                          Over({}, {"SendMessages"})}

MCEditable == {c1} \X {Everyone, botRole, Bot}
=============================================================================
