---------------------------- MODULE MCEventStream ----------------------------
(***************************************************************************)
(* Instances of EventStream: three events of two, three and two bytes.      *)
(***************************************************************************)
EXTENDS EventStream

MCLineEnds == {2, 5, 7}
=============================================================================
