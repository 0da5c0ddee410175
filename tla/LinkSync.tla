------------------------------- MODULE LinkSync -------------------------------
(***************************************************************************)
(* Player <-> Discord links, and the list of the players who are in the     *)
(* game, across game resets and bridge restarts.                            *)
(*                                                                          *)
(* The mod (companion-mod/control.lua) keeps the links in the save and      *)
(* writes an event for every change a user asks for.  The bridge's tailer   *)
(* applies these events to the links store (links_store.go), which is on    *)
(* disk.  monitorConnection (main.go) polls the mod and, when it sees a     *)
(* connection, restoreLinks pushes the stored links back with one           *)
(* /odb-set-link call each.  Then the status manager gets the players that  *)
(* the answer named; what the tailer reads of joins and leaves changes that *)
(* list at any time.                                                        *)
(*                                                                          *)
(* A link maps a player to a Discord user or None.  An event is about a     *)
(* player, who is now linked to a user (odb.link_confirmed, or with None    *)
(* odb.link_removed), or who joined or left.                                *)
(***************************************************************************)
EXTENDS Integers, Sequences, FiniteSets, SequencesExt

CONSTANTS
    Players, Users, None,
    MaxCommands,    \* bound: how many link commands are given, and how often players
                    \* join, together
    MaxSessions,    \* bound: how often the game server is started again
    MaxStarts,      \* bound: how often the bridge is started again
    FastReset       \* may the game restart faster than the monitor polls?

ASSUME NoneAssumption == None \notin Users
ASSUME PlayersAssumption == IsFiniteSet(Players)
ASSUME BoundsAssumption ==
    {MaxCommands, MaxSessions, MaxStarts} \subseteq Nat
ASSUME FastResetAssumption == FastReset \in BOOLEAN

Links == [Players -> Users \cup {None}]
NoLinks == [p \in Players |-> None]

Events == [what : {"link", "joined", "left"}, player : Players, user : Users \cup {None}]
Linked(p, u) == [what |-> "link", player |-> p, user |-> u]
Joined(p) == [what |-> "joined", player |-> p, user |-> None]
Left(p) == [what |-> "left", player |-> p, user |-> None]

VARIABLES
    links,          \* storage.odb.links of the running game
    saved,          \* storage.odb.links in the save file
    serverUp,       \* whether RCON answers
    present,        \* game.connected_players
    newSession,     \* no event written in this session yet (not truncated_this_session)
    events,         \* the events in events.jsonl that the tailer has not handled
    store,          \* linksStore.m, which save() keeps equal to links.json
    bridgeUp,
    last,           \* monitorConnection: last, "unset" before the first check
    restoring,      \* restoreLinks is running
    toRestore,      \* restoreLinks: the players whose link is still to be pushed
    snapshot,       \* restoreLinks: what ls.all() returned
    reply,          \* the players of the /odb-status answer until OnConnected
    listed,         \* status.Manager.players
    commands, sessions, starts,     \* history: counters for the bounds
    wish,           \* history: the link each player asked for last
    lost,           \* history: an event was dropped before the tailer handled it
    restored,       \* history: a restore has begun since the game and the bridge started
    disturbed,      \* history: during the last restore a link command was given,
                    \* or its event unread at the start, or one of the calls failed
    misled          \* history: since the last answer a join or leave was read before
                    \* OnConnected, or one of an earlier session

game    == <<links, saved, serverUp, newSession, present>>
monitor == <<last, restoring, toRestore, snapshot, reply>>
bridge  == <<store, listed, bridgeUp, monitor>>
counts  == <<commands, sessions, starts>>
history == <<wish, lost, restored, disturbed, misled>>
vars    == <<game, events, bridge, counts, history>>

Init ==
    /\ links = NoLinks /\ saved = NoLinks
    /\ serverUp = TRUE /\ newSession = TRUE /\ present = {}
    /\ events = <<>>
    /\ store = NoLinks /\ bridgeUp = FALSE
    /\ last = "unset" /\ restoring = FALSE /\ toRestore = {} /\ snapshot = NoLinks
    /\ reply = {} /\ listed = {}
    /\ commands = 0 /\ sessions = 0 /\ starts = 0
    /\ wish = NoLinks /\ lost = FALSE /\ restored = FALSE /\ disturbed = FALSE
    /\ misled = FALSE

-----------------------------------------------------------------------------
(* The mod.                                                                 *)

\* Events of links that the tailer has not handled
LinksWait == \E i \in DOMAIN events : events[i].what = "link"

\* write_event for each event: the first write of a session overwrites the file.
Emit(evs) ==
    /\ events' = IF newSession THEN evs ELSE events \o evs
    /\ lost' = (lost \/ (newSession /\ LinksWait))
    /\ newSession' = FALSE

\* A user's command replaces the links of some players and writes one event for
\* each of them.
Command(changed, user) ==
    /\ serverUp
    /\ commands < MaxCommands
    /\ commands' = commands + 1
    /\ disturbed' = (disturbed \/ restoring)
    /\ links' = [p \in Players |-> IF p \in changed THEN user ELSE links[p]]
    /\ wish'  = [p \in Players |-> IF p \in changed THEN user ELSE wish[p]]
    /\ Emit(SetToSeq({Linked(p, user) : p \in changed}))
    /\ UNCHANGED <<saved, serverUp, present, bridge, sessions, starts, restored,
                   misled>>

\* /odb-confirm-link or /odb-discord-link with a valid code: also for a player
\* who is linked already.
ConfirmLink(p, u) == Command({p}, u)

\* /odb-unlink and /odb-unlink-player.
Unlink(p) == links[p] # None /\ Command({p}, None)

\* /odb-unlink-discord: every player linked to that user.
UnlinkDiscord(u) ==
    /\ \E p \in Players : links[p] = u
    /\ Command({p \in Players : links[p] = u}, None)

\* /odb-unlink-all.
UnlinkAll ==
    /\ links # NoLinks
    /\ Command({p \in Players : links[p] # None}, None)

\* Faulty variant: a player who is linked keeps that link.
SetLinkOnce(p, u) == links' = IF links[p] = None THEN [links EXCEPT ![p] = u] ELSE links

\* /odb-set-link: no event.
SetLink(p, u) == links' = [links EXCEPT ![p] = u]

\* on_player_joined_game, on_player_left_game
Visit ==
    /\ serverUp
    /\ UNCHANGED <<links, saved, serverUp, bridge, sessions, starts, wish,
                   restored, disturbed, misled>>

PlayerJoined(p) ==
    /\ p \notin present /\ commands < MaxCommands
    /\ present' = present \cup {p} /\ commands' = commands + 1
    /\ Emit(<<Joined(p)>>) /\ Visit

PlayerLeft(p) ==
    /\ p \in present
    /\ present' = present \ {p} /\ UNCHANGED commands
    /\ Emit(<<Left(p)>>) /\ Visit

Autosave ==
    /\ serverUp
    /\ saved' = links
    /\ UNCHANGED <<links, serverUp, newSession, present, events, bridge, counts, history>>

\* Nobody is in the game then, without an event.
ServerStops ==
    /\ serverUp
    /\ serverUp' = FALSE /\ present' = {}
    /\ UNCHANGED <<links, saved, newSession, events, bridge, counts, history>>

\* The monitor has noticed that the server was down.
OutageSeen == ~bridgeUp \/ (last # "up" /\ ~restoring)

\* The server starts with a new map or from its save.
ServerStarts ==
    /\ ~serverUp
    /\ FastReset \/ OutageSeen
    /\ sessions < MaxSessions
    /\ sessions' = sessions + 1
    /\ serverUp' = TRUE /\ newSession' = TRUE
    /\ links' \in {NoLinks, saved} /\ saved' = links'
    /\ restored' = FALSE
    /\ UNCHANGED <<present, events, bridge, commands, starts, wish, lost, disturbed,
                   misled>>

-----------------------------------------------------------------------------
(* The bridge.                                                              *)

\* main: load the store; the tailer begins at the end of the file.
BridgeStarts ==
    /\ ~bridgeUp
    /\ starts < MaxStarts
    /\ starts' = starts + 1
    /\ bridgeUp' = TRUE
    /\ lost' = (lost \/ LinksWait)
    /\ events' = <<>>
    /\ UNCHANGED <<game, store, listed, monitor, commands, sessions, wish, restored,
                   disturbed, misled>>

BridgeStops ==
    /\ bridgeUp
    /\ bridgeUp' = FALSE
    /\ last' = "unset" /\ restoring' = FALSE /\ toRestore' = {}
    /\ snapshot' = NoLinks /\ reply' = {} /\ listed' = {}
    /\ restored' = FALSE
    /\ UNCHANGED <<game, events, store, counts, wish, lost, disturbed, misled>>

\* linksStore.upsert and removeByPlayer: the file is replaced before the next event.
Upsert(p, u) == store' = [store EXCEPT ![p] = u]
RemoveByPlayer(p) == store' = [store EXCEPT ![p] = None]

\* Faulty variant: odb.link_removed is not handled.
HandleConfirmedOnly(e) ==
    IF e.user = None THEN UNCHANGED store ELSE Upsert(e.player, e.user)

\* handleLinkEvent
HandleLinkEvent(e) ==
    IF e.user = None THEN RemoveByPlayer(e.player) ELSE Upsert(e.player, e.user)

\* handleStatusEvent: OnPlayerJoined, OnPlayerLeft
HandleStatusEvent(e) ==
    /\ listed' = IF e.what = "joined" THEN listed \cup {e.player} ELSE listed \ {e.player}
    /\ misled' = (misled \/ restoring \/ (newSession /\ restored))

\* onLine
HandleEvent ==
    /\ bridgeUp /\ events # <<>>
    /\ LET e == Head(events)
       IN IF e.what = "link" THEN HandleLinkEvent(e) /\ UNCHANGED <<listed, misled>>
          ELSE HandleStatusEvent(e) /\ UNCHANGED store
    /\ events' = Tail(events)
    /\ UNCHANGED <<game, bridgeUp, monitor, counts, wish, lost, restored, disturbed>>

\* Faulty variant: a connection that comes back is not noticed.
CheckConnectedOnce ==
    /\ bridgeUp /\ serverUp /\ ~restoring
    /\ last = "unset"
    /\ restoring' = TRUE /\ restored' = TRUE
    /\ disturbed' = LinksWait /\ misled' = FALSE
    /\ snapshot' = store /\ reply' = present
    /\ toRestore' = {p \in Players : store[p] # None}
    /\ UNCHANGED <<game, events, store, listed, bridgeUp, last, counts, wish, lost>>

\* Faulty variant: players without a link are pushed as well.
CheckConnectedAll ==
    /\ bridgeUp /\ serverUp /\ ~restoring
    /\ last # "up"
    /\ restoring' = TRUE /\ restored' = TRUE
    /\ disturbed' = LinksWait /\ misled' = FALSE
    /\ snapshot' = store /\ reply' = present
    /\ toRestore' = Players
    /\ UNCHANGED <<game, events, store, listed, bridgeUp, last, counts, wish, lost>>

\* monitorConnection, one check: /odb-status answers, for the first time or
\* after an outage, and restoreLinks takes its snapshot of the store.  The players of
\* the answer wait for its end.
CheckConnected ==
    /\ bridgeUp /\ serverUp /\ ~restoring
    /\ last # "up"
    /\ restoring' = TRUE /\ restored' = TRUE
    /\ disturbed' = LinksWait /\ misled' = FALSE
    /\ snapshot' = store /\ reply' = present
    /\ toRestore' = {p \in Players : store[p] # None}
    /\ UNCHANGED <<game, events, store, listed, bridgeUp, last, counts, wish, lost>>

\* /odb-status does not answer: the server is down, or one call fails.  OnDisconnected
\* is called unless this is the first check.
CheckDisconnected ==
    /\ bridgeUp /\ ~restoring
    /\ last # "down"
    /\ last' = "down"
    /\ listed' = IF last = "up" THEN {} ELSE listed
    /\ UNCHANGED <<game, events, store, bridgeUp, restoring, toRestore, snapshot, reply,
                   counts, history>>

\* restoreLinks, one /odb-set-link call.
RestoreOne(p) ==
    /\ restoring /\ p \in toRestore
    /\ serverUp
    /\ toRestore' = toRestore \ {p}
    /\ SetLink(p, snapshot[p])
    /\ UNCHANGED <<saved, serverUp, newSession, present, events, store, listed, bridgeUp,
                   last, restoring, snapshot, reply, counts, history>>

\* The call fails: the error is logged and the link skipped.
RestoreOneFails(p) ==
    /\ restoring /\ p \in toRestore
    /\ toRestore' = toRestore \ {p}
    /\ disturbed' = TRUE
    /\ UNCHANGED <<game, events, store, listed, bridgeUp, last, restoring, snapshot, reply,
                   counts, wish, lost, restored, misled>>

\* Faulty variant: the players of the answer are added to the list.
RestoreDoneAdds ==
    /\ restoring /\ toRestore = {}
    /\ restoring' = FALSE /\ last' = "up"
    /\ listed' = listed \cup reply
    /\ snapshot' = NoLinks /\ reply' = {}
    /\ UNCHANGED <<game, events, store, bridgeUp, toRestore, counts, history>>

\* The announce callback goes on with OnConnected, and returns; *last = ok.
RestoreDone ==
    /\ restoring /\ toRestore = {}
    /\ restoring' = FALSE /\ last' = "up"
    /\ listed' = reply
    /\ snapshot' = NoLinks /\ reply' = {}
    /\ UNCHANGED <<game, events, store, bridgeUp, toRestore, counts, history>>

-----------------------------------------------------------------------------
UserCommand == \/ \E p \in Players, u \in Users : ConfirmLink(p, u)
               \/ \E p \in Players : Unlink(p)
               \/ \E u \in Users : UnlinkDiscord(u)
               \/ UnlinkAll

Restore == \/ \E p \in Players : RestoreOne(p) \/ RestoreOneFails(p)
           \/ RestoreDone

Next == UserCommand \/ (\E p \in Players : PlayerJoined(p) \/ PlayerLeft(p))
           \/ Autosave \/ ServerStops \/ ServerStarts
           \/ BridgeStarts \/ BridgeStops \/ HandleEvent
           \/ CheckConnected \/ CheckDisconnected \/ Restore

Spec == Init /\ [][Next]_vars

\* The tailer and the monitor keep polling, the RCON calls of a restore return or
\* fail, and /odb-status does not fail for ever while the server is up.
FairSpec == Spec /\ WF_vars(HandleEvent) /\ WF_vars(Restore)
                 /\ SF_vars(CheckConnected)

-----------------------------------------------------------------------------
\* The link of p once the tailer has handled the events that are waiting.
About(p) == {i \in DOMAIN events : events[i].player = p /\ events[i].what = "link"}
Final(p) == IF About(p) = {} THEN store[p]
            ELSE LET i == CHOOSE i \in About(p) : \A j \in About(p) : j <= i
                 IN events[i].user

\* Whether p is on the list once the tailer has handled the events of this session
\* that are waiting.
Visits(p) == {i \in DOMAIN events : events[i].player = p /\ events[i].what # "link"}
FinallyListed(p) ==
    IF newSession \/ Visits(p) = {} THEN p \in listed
    ELSE LET i == CHOOSE i \in Visits(p) : \A j \in Visits(p) : j <= i
         IN events[i].what = "joined"

\* Types; only linked players are pushed, and only during a restore.
TypeOK ==
    /\ links \in Links /\ saved \in Links /\ store \in Links /\ wish \in Links
    /\ snapshot \in Links
    /\ toRestore \subseteq {p \in Players : snapshot[p] # None}
    /\ ~restoring => snapshot = NoLinks
    /\ events \in Seq(Events)
    /\ present \subseteq Players /\ listed \subseteq Players /\ reply \subseteq Players
    /\ misled \in BOOLEAN
    /\ serverUp \in BOOLEAN /\ newSession \in BOOLEAN /\ bridgeUp \in BOOLEAN
    /\ restoring \in BOOLEAN /\ lost \in BOOLEAN
    /\ restored \in BOOLEAN /\ disturbed \in BOOLEAN
    /\ last \in {"unset", "up", "down"}
    /\ commands \in 0 .. MaxCommands /\ sessions \in 0 .. MaxSessions
    /\ starts \in 0 .. MaxStarts

\* The store is a faithful log of what the users asked for: with the waiting
\* events applied it holds everyone's last wish, over resets of the game,
\* restarts of the bridge and restores, unless an event was overwritten or
\* written while no bridge ran (links_store.go:11-14, main.go:646-659).
StoreIsTheLog == ~lost => \A p \in Players : Final(p) = wish[p]

\* Once pushed, every link of the store is in the mod, and it stays so while the
\* store follows later commands, until the game or the bridge starts again.
RestoredLinksHold ==
    restored /\ ~disturbed =>
        \A p \in Players \ toRestore : Final(p) # None => links[p] = Final(p)

\* The topic names who is in the game (main.go:291, status.go:53-103): the players of
\* the answer that made the connection, with the joins and leaves of the file, older or
\* newer than the answer, come to those who are in the game; except that what is read
\* between the answer and OnConnected is overwritten (misled).
PlayersAreListed ==
    bridgeUp /\ serverUp /\ last = "up" /\ ~restoring /\ ~misled =>
        \A p \in Players : FinallyListed(p) <=> p \in present

\* Every link of the store is in the mod.
AllLinked == \A p \in Players : Final(p) # None => links[p] = Final(p)

\* links_store.go:12-14: on every connection the stored links are restored, so a
\* server and a bridge that stay up end with every link of the store in the mod.
\* A command during the restore, or a failed call, may leave a link out.
EventuallyRestored ==
    <>[](serverUp /\ bridgeUp /\ ~disturbed) => <>[]AllLinked
=============================================================================
