------------------------------ MODULE EventFeed ------------------------------
(***************************************************************************)
(* What the event path promises to onLine: a channel from the mod to the    *)
(* bridge that may lose events (the bridge was down, or a new session       *)
(* overwrote them) and may deliver the torn rest of one, but neither        *)
(* repeats an event nor lets one overtake another, except that a bridge run *)
(* may rewind the channel when it starts.                                   *)
(***************************************************************************)
EXTENDS Integers, Sequences

CONSTANT Events     \* numbers, in the order in which the events happen

Torn == 0           \* what a line is that is not an event

VARIABLES
    sent,   \* the events the mod has produced
    got,    \* what the lines given to onLine are, in order: events, or torn
    pos     \* the last event accepted since the last rewind, or 0

Init == sent = {} /\ got = <<>> /\ pos = 0

Send == \E e \in Events \ sent :
            /\ \A d \in Events : d < e => d \in sent
            /\ sent' = sent \cup {e}
            /\ UNCHANGED <<got, pos>>

Receive == \E e \in sent :
               /\ pos < e
               /\ got' = Append(got, e) /\ pos' = e
               /\ UNCHANGED sent

ReceiveTorn == got' = Append(got, Torn) /\ UNCHANGED <<sent, pos>>

Rewind == pos' = 0 /\ UNCHANGED <<sent, got>>

Next == Send \/ Receive \/ ReceiveTorn \/ Rewind

Spec == Init /\ [][Next]_<<sent, got, pos>>
=============================================================================
