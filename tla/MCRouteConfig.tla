---------------------------- MODULE MCRouteConfig ----------------------------
(***************************************************************************)
(* Instances of RouteConfig: "vanilla.chat" and "mts.*" apart, everything   *)
(* in one channel, both ways mixed, and two tables that are rejected.       *)
(***************************************************************************)
EXTENDS RouteConfig, TLC

CONSTANTS c1, c2, c3

Chat == "vanilla.chat"
Mts  == "mts.*"
All  == "*"

MCSources == {Chat, Mts, All}
MCFile == <<[source |-> Chat, channel |-> c1]>>
MCTables == {
    <<[source |-> Chat, channel |-> c1], [source |-> Mts, channel |-> c2]>>,
    <<[source |-> All, channel |-> c3]>>,
    <<[source |-> Mts, channel |-> c2], [source |-> All, channel |-> c1]>>,
    <<[source |-> Chat, channel |-> None]>>,
    <<>> }
ClientSymmetry == Permutations(Clients)
=============================================================================
