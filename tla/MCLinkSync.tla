------------------------------ MODULE MCLinkSync ------------------------------
(***************************************************************************)
(* Instances of LinkSync: two players and two users, so that a user may be  *)
(* linked to two players, a player may move from one user to another, and a *)
(* restore needs two calls.  The runs check liveness, so that the names are *)
(* not declared symmetric.                                                  *)
(***************************************************************************)
EXTENDS LinkSync
=============================================================================
