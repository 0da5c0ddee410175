------------------------------ MODULE RouteConfig ------------------------------
(***************************************************************************)
(* Live routing: POST /v1/config and POST /v1/restart of the control API    *)
(* (internal/controlapi/server.go, setConfig and getConfig in main.go),     *)
(* the routing table (internal/router) and the set of channels the Discord  *)
(* client relays from (internal/discord).                                   *)
(*                                                                          *)
(* The router and the Discord client each guard their own field with a      *)
(* lock; a POST updates the two one after the other, and net/http serves    *)
(* the requests of different clients concurrently.  A step is one critical  *)
(* section.                                                                 *)
(*                                                                          *)
(* What the source of a route matches is left out: no step here reads it.   *)
(***************************************************************************)
EXTENDS Integers, Sequences

CONSTANTS
    Clients,        \* callers of the control API
    Channels,       \* Discord channels
    None,           \* no channel, or no source
    Sources,        \* the sources of the routes
    Tables,         \* the routing tables that clients post, valid or not
    FileTable,      \* the routes of bridge.yaml
    MaxUpdates      \* bound: how many tables are installed

Route == [source : Sources \cup {None}, channel : Channels \cup {None}]

ASSUME NoneAssumption == None \notin Channels /\ None \notin Sources
ASSUME BoundsAssumption == MaxUpdates \in Nat

\* setConfig rejects an empty table and a route that lacks a source or a channel.
Valid(table) ==
    /\ table # <<>>
    /\ \A i \in DOMAIN table : table[i].source # None /\ table[i].channel # None

ASSUME TablesAssumption == Tables \subseteq Seq(Route)
ASSUME FileAssumption == FileTable \in Seq(Route) /\ Valid(FileTable)

\* Router.InboundChannels
InboundChannels(table) == {table[i].channel : i \in DOMAIN table} \ {None}

VARIABLES
    up,             \* the bridge process runs
    stopping,       \* the bridge's context is cancelled
    routes,         \* Router.routes
    inbound,        \* Client.inbound
    pc,             \* where each client's POST /v1/config is
    posted,         \* the table it carries
    read,           \* the result of its rt.InboundChannels()
    installed,      \* history: every table installed since the process started
    overlap         \* history: two POSTs overlapped, and no lone one has begun since

request == <<pc, posted, read>>
vars == <<up, stopping, routes, inbound, request, installed, overlap>>

Steps == {"idle", "update", "channels", "inbound", "echo"}

Init ==
    /\ up = TRUE /\ stopping = FALSE
    /\ routes = FileTable
    /\ inbound = InboundChannels(FileTable)
    /\ pc = [c \in Clients |-> "idle"]
    /\ posted = [c \in Clients |-> FileTable]
    /\ read = [c \in Clients |-> {}]
    /\ installed = <<FileTable>>
    /\ overlap = FALSE

Busy == {c \in Clients : pc[c] # "idle"}

\* handleConfig decodes the body and setConfig validates it.  A request that
\* changes an immutable field, or is not valid, is answered 400 and changes nothing.
Post(c, table) ==
    /\ up /\ pc[c] = "idle"
    /\ Len(installed) <= MaxUpdates
    /\ Valid(table)
    /\ pc' = [pc EXCEPT ![c] = "update"]
    /\ posted' = [posted EXCEPT ![c] = table]
    /\ overlap' = (Busy # {})
    /\ UNCHANGED <<up, stopping, routes, inbound, read, installed>>

\* Faulty variant: the Discord client is not told.
UpdateRoutesOnly(c) ==
    /\ pc[c] = "update"
    /\ routes' = posted[c]
    /\ installed' = Append(installed, posted[c])
    /\ pc' = [pc EXCEPT ![c] = "echo"]
    /\ UNCHANGED <<up, stopping, inbound, posted, read, overlap>>

\* rt.Update
Update(c) ==
    /\ pc[c] = "update"
    /\ routes' = posted[c]
    /\ installed' = Append(installed, posted[c])
    /\ pc' = [pc EXCEPT ![c] = "channels"]
    /\ UNCHANGED <<up, stopping, inbound, posted, read, overlap>>

\* rt.InboundChannels()
ReadChannels(c) ==
    /\ pc[c] = "channels"
    /\ read' = [read EXCEPT ![c] = InboundChannels(routes)]
    /\ pc' = [pc EXCEPT ![c] = "inbound"]
    /\ UNCHANGED <<up, stopping, routes, inbound, posted, installed, overlap>>

\* Faulty variant: the map is extended, not replaced.
UpdateInboundAdds(c) ==
    /\ pc[c] = "inbound"
    /\ inbound' = inbound \cup read[c]
    /\ pc' = [pc EXCEPT ![c] = "echo"]
    /\ UNCHANGED <<up, stopping, routes, posted, read, installed, overlap>>

\* dc.UpdateInbound
UpdateInbound(c) ==
    /\ pc[c] = "inbound"
    /\ inbound' = read[c]
    /\ pc' = [pc EXCEPT ![c] = "echo"]
    /\ UNCHANGED <<up, stopping, routes, posted, read, installed, overlap>>

\* The POST is answered with the router's table.
Echo(c) ==
    /\ pc[c] = "echo"
    /\ pc' = [pc EXCEPT ![c] = "idle"]
    /\ UNCHANGED <<up, stopping, routes, inbound, posted, read, installed, overlap>>

\* POST /v1/restart is acknowledged and then cancels the bridge's context; so does
\* a signal.
Restart ==
    /\ up /\ ~stopping
    /\ stopping' = TRUE
    /\ UNCHANGED <<up, routes, inbound, request, installed, overlap>>

\* main returns without waiting for the requests that are being served.
Exit ==
    /\ up /\ stopping
    /\ up' = FALSE
    /\ pc' = [c \in Clients |-> "idle"]
    /\ UNCHANGED <<stopping, routes, inbound, posted, read, installed, overlap>>

\* The supervisor starts the bridge with the routes of bridge.yaml.
Start ==
    /\ ~up
    /\ up' = TRUE /\ stopping' = FALSE
    /\ routes' = FileTable
    /\ inbound' = InboundChannels(FileTable)
    /\ installed' = <<FileTable>>
    /\ overlap' = FALSE
    /\ UNCHANGED request

PostStep(c) == Update(c) \/ ReadChannels(c) \/ UpdateInbound(c) \/ Echo(c)

Next == \/ \E c \in Clients : PostStep(c) \/ \E table \in Tables : Post(c, table)
        \/ Restart \/ Exit \/ Start

Spec == Init /\ [][Next]_vars
-----------------------------------------------------------------------------
TypeOK ==
    /\ up \in BOOLEAN /\ stopping \in BOOLEAN /\ overlap \in BOOLEAN
    /\ routes \in Seq([source : Sources, channel : Channels]) \ {<<>>}
    /\ inbound \subseteq Channels
    /\ pc \in [Clients -> Steps]
    /\ posted \in [Clients -> Seq(Route)]
    /\ read \in [Clients -> SUBSET Channels]
    /\ installed \in Seq(Seq(Route))

RoutedTo(table, ch) == \E i \in DOMAIN table : table[i].channel = ch

\* The bridge runs and every POST has made its assignments.
Settled == up /\ \A c \in Clients : pc[c] \in {"idle", "echo"}

\* router.go:52-53: the Discord client relays from exactly the channels that the
\* routing table writes to.  Two POSTs that overlap can leave them apart for good.
InboundOfRoutes ==
    Settled /\ ~overlap => inbound = {ch \in Channels : RoutedTo(routes, ch)}

\* What holds when they do: the relayed channels never mix two tables.
InboundIsOneTable ==
    \E i \in DOMAIN installed :
        inbound = {ch \in Channels : RoutedTo(installed[i], ch)}

\* server.go:227: when a POST that no other one overlapped is answered, its table
\* is the one in force, in the router and in the Discord client.
AnswerIsApplied ==
    \A c \in Clients : pc[c] = "echo" /\ ~overlap =>
        /\ routes = posted[c]
        /\ inbound = {ch \in Channels : RoutedTo(posted[c], ch)}
=============================================================================
