------------------------------ MODULE MCRoleSync ------------------------------
(***************************************************************************)
(* Instances of RoleSync.  Two players may be linked to one user, and one    *)
(* of the two users is the owner of the guild.                               *)
(***************************************************************************)
EXTENDS RoleSync

CONSTANTS u1, u2

MCUsers == {u1, u2}
=============================================================================
