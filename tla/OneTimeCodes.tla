----------------------------- MODULE OneTimeCodes -----------------------------
(***************************************************************************)
(* What linking by code promises.  A code is offered to one person, who may *)
(* take it once, as long as it has not lapsed; taking it links the person's *)
(* player with the person's Discord user, and nothing else makes a link.    *)
(* Links may be removed.  Only loading a save may bring back what was.      *)
(***************************************************************************)
EXTENDS Integers

CONSTANTS People, Codes, None

VARIABLES
    offers,     \* the codes that can be taken, each with its person
    links,      \* the user each player is linked to
    spent,      \* the codes that were taken
    loads       \* how often a save was loaded

Offers == [code : Codes, who : People]

\* A person's player is linked with that person's user, if at all.
OwnLinks(l) == \A p \in People : l[p] \in {None, p}

Init == offers = {} /\ links = [p \in People |-> None] /\ spent = {} /\ loads = 0

Offer == \E o \in Offers :
            /\ o.code \notin spent
            /\ offers' = offers \cup {o}
            /\ UNCHANGED <<links, spent, loads>>

Take == \E o \in offers :
            /\ links' = [links EXCEPT ![o.who] = o.who]
            /\ offers' = offers \ {o}
            /\ spent' = spent \cup {o.code}
            /\ UNCHANGED loads

Lapse == offers' \subseteq offers /\ UNCHANGED <<links, spent, loads>>

Remove == \E gone \in SUBSET People :
            /\ links' = [p \in People |-> IF p \in gone THEN None ELSE links[p]]
            /\ UNCHANGED <<offers, spent, loads>>

Load == /\ loads' = loads + 1
        /\ offers' \subseteq Offers /\ spent' \subseteq Codes
        /\ OwnLinks(links')

Next == Offer \/ Take \/ Lapse \/ Remove \/ Load

Spec == Init /\ [][Next]_<<offers, links, spent, loads>>
=============================================================================
