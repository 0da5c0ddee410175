---------------------------- MODULE MCInboundPath ----------------------------
(***************************************************************************)
(* Instances of InboundPath.  A command holds seven bytes, three of them     *)
(* not text.  Message a fits, is cut in two (at its end, and because of one  *)
(* large rune), or has a rune too large for any command; b is cut in two, or *)
(* the name of its author alone is too long.                                 *)
(***************************************************************************)
EXTENDS InboundPath, TLC

CONSTANTS a, b

MCInputs ==
    (a :> {[overhead |-> 3, runes |-> text] :
               text \in {<<2, 2>>, <<1, 2, 1, 1>>, <<1, 4>>, <<1, 5, 1>>}}) @@
    (b :> {[overhead |-> 3, runes |-> <<2, 1, 2>>], [overhead |-> 7, runes |-> <<1>>]})
=============================================================================
