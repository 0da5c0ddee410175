------------------------------- MODULE LinkCodes -------------------------------
(***************************************************************************)
(* Linking a player to a Discord user with a code, and unlinking: the       *)
(* commands of the mod (companion-mod/control.lua), the bridge's handlers   *)
(* of Discord messages and slash commands (main.go), and between them the   *)
(* RCON client that the handlers share (internal/rcon/rcon.go), which sends *)
(* a command a second time when the first answer does not come.             *)
(*                                                                          *)
(* A code that is drawn in the game is shown to the player, who gives it    *)
(* to the bot; one that is drawn by the bridge is registered in the mod,    *)
(* told to the Discord user, and given to the game by the user's player.    *)
(* A person has a player and a Discord user, and uses only codes that were  *)
(* told to that person, whatever became of them since.                      *)
(***************************************************************************)
EXTENDS Integers, Sequences, FiniteSets

CONSTANTS
    People, Codes, None,
    Handlers,       \* goroutines that handle a message or an interaction
    CommandList,    \* cfg.Discord.Commands: trigger, op and params of rcon, admin, link
    SlashName,      \* slashName of each trigger
    AdminUsers, AdminRoles, Fallback,   \* config.AdminConfig
    RolesOf, IsAdmin,   \* the people's roles, and who has Discord's permission
    TTL,            \* LINK_TTL_TICKS, in units of time
    MaxWire,        \* bound: commands that are under way at once
    MaxLoads,       \* bound: how often a save is loaded
    MaxAsks         \* bound: how many messages and commands people give

Entries == [who : People, left : -1..TTL]
Links == [People -> People \cup {None}]
Tables == [Codes -> Entries \cup {None}]
Draws == [who : People, where : {"game", "discord"}]

ASSUME NoneAssumption ==
    None \notin People \cup Codes \cup Handlers \cup Entries \cup Draws
\* The name of a player is not one of the codes that are drawn.
ASSUME NamesAssumption == People \cap Codes = {}
\* The templates and gates of the commands, as the built-in ones have them
ASSUME CommandsAssumption ==
    \A i \in DOMAIN CommandList :
        LET cmd == CommandList[i]
        IN /\ cmd.params \in Seq(STRING)
           /\ cmd.op = "confirm" => cmd.params = <<"1", "userid">>
           /\ cmd.op = "unlink-discord" => cmd.params = <<"userid">>
           /\ cmd.op \in {"unlink-player", "unlink-all"} => cmd.admin
           /\ cmd.op \in {"confirm", "unlink-discord", "unlink-player", "unlink-all"}
ASSUME BoundsAssumption == TTL \in Nat /\ {MaxWire, MaxLoads, MaxAsks} \subseteq Nat

VARIABLES
    links,          \* storage.odb.links
    pending,        \* storage.odb.pending: codes drawn in the game
    discordPending, \* storage.odb.discord_pending: codes drawn by the bridge
    saved,          \* these three, and spent, in the save file
    wire,           \* commands sent over RCON that the game has not executed
    mutex,          \* rcon.Client.mu: the handler inside Execute
    request,        \* what each handler is doing
    told,           \* the codes that were told to the one they were drawn for
    drawn,          \* history: for whom each code was drawn, and where
    spent,          \* history: the codes that made a link
    age,            \* history: units of time since a code got into its table;
                    \* -1 if it did not, or before the last load
    excused,        \* history: the codes drawn before the last load
    loads, asks     \* history: count the loads, and what people asked for

storage == <<links, pending, discordPending>>
bridge == <<mutex, request>>
history == <<drawn, spent, age, excused>>
counts == <<loads, asks>>
vars == <<storage, saved, wire, bridge, told, history, counts>>

\* A person asks for something.
Ask == asks < MaxAsks /\ asks' = asks + 1

Idle == [at |-> "idle"]
Doing(label, command, from, code, try) ==
    [at |-> label, command |-> command, from |-> from, code |-> code, try |-> try]

-----------------------------------------------------------------------------
(* Commands from Discord.                                                   *)

\* resolveAdmin
ResolveAdmin(p) ==
    \/ p \in AdminUsers
    \/ AdminRoles \cap RolesOf[p] # {}
    \/ Fallback /\ p \in IsAdmin

\* cmdMap: of the commands of a trigger the last one.
CmdMap ==
    {CommandList[i] : i \in {k \in DOMAIN CommandList :
        \A j \in DOMAIN CommandList :
            CommandList[j].trigger = CommandList[k].trigger => j <= k}}

\* buildSlash: of the commands of a name the first one.
BySlash ==
    LET Name(i) == SlashName[CommandList[i].trigger]
    IN {CommandList[i] : i \in {k \in DOMAIN CommandList :
           Name(k) # "" /\ \A j \in DOMAIN CommandList : Name(j) = Name(k) => k <= j}}

NeedsArgs(cmd) == \E i \in DOMAIN cmd.params : cmd.params[i] \in {"args", "1"}

\* interpolate: {userid}, and {args} or {1}, which are one word here.
Interpolate(cmd, m) ==
    [op |-> cmd.op,
     params |-> [i \in DOMAIN cmd.params |->
                    IF cmd.params[i] = "userid" THEN m.from
                    ELSE IF m.args # <<>> THEN m.args[1] ELSE None]]

\* Faulty variant: the gate is not looked at.
MayRunUngated(cmd, m) == NeedsArgs(cmd) => m.args # <<>>

\* runCommand goes on to RCON: neither ":no_entry:" nor the usage is answered.
MayRun(cmd, m) ==
    /\ cmd.admin => ResolveAdmin(m.from)
    /\ NeedsArgs(cmd) => m.args # <<>>

Call(command, m, code) == Doing("lock", command, m.from, code, 1)

\* runCommand, to the call of Execute
RunCommand(h, cmd, m) ==
    /\ MayRun(cmd, m)
    /\ request' = [request EXCEPT ![h] = Call(Interpolate(cmd, m), m, None)]
    /\ UNCHANGED <<told, drawn>>

Undrawn == {c \in Codes : drawn[c] = None}

\* A code is drawn that nobody has had: of 36^6, it is taken for granted.
DrawFor(c, p, where) == drawn' = [drawn EXCEPT ![c] = [who |-> p, where |-> where]]

\* Faulty variant: the user is told first.
TellBeforeRegistering(h, m) ==
    \E c \in Undrawn :
        /\ DrawFor(c, m.from, "discord")
        /\ told' = told \cup {c}
        /\ request' = [request EXCEPT ![h] =
                Call([op |-> "register", params |-> <<c, m.from>>], m, c)]

\* initiateDiscordLink, to the call of Execute: a new code
InitiateDiscordLink(h, m) ==
    \E c \in Undrawn :
        /\ DrawFor(c, m.from, "discord")
        /\ request' = [request EXCEPT ![h] =
                Call([op |-> "register", params |-> <<c, m.from>>], m, c)]
        /\ UNCHANGED told

\* onInbound, for a message whose first word is a trigger
Dispatch(h, cmd, m) ==
    IF cmd.link /\ m.args = <<>> THEN InitiateDiscordLink(h, m) ELSE RunCommand(h, cmd, m)

\* The messages that people write: a code only if it was told to them in the game.
Args(p) == {<<>>} \cup {<<q>> : q \in People}
           \cup {<<c>> : c \in {d \in told : drawn[d] = [who |-> p, where |-> "game"]}}
Sensible(cmd, args) ==
    args # <<>> => NeedsArgs(cmd) /\ (cmd.op = "confirm" <=> args[1] \in Codes)

Receive(h) ==
    /\ request[h] = Idle
    /\ \E p \in People : \E args \in Args(p) :
        LET m == [from |-> p, args |-> args]
        IN \/ \E cmd \in CmdMap : Sensible(cmd, args) /\ Dispatch(h, cmd, m)
           \/ \E cmd \in BySlash : Sensible(cmd, args) /\ RunCommand(h, cmd, m)
    /\ Ask
    /\ UNCHANGED <<storage, saved, wire, mutex, spent, age, excused, loads>>

-----------------------------------------------------------------------------
(* Execute of the RCON client, and what comes after it.                     *)

Now(h, label, try) ==
    request' = [request EXCEPT ![h] =
        Doing(label, request[h].command, request[h].from, request[h].code, try)]
At(h, label) == Now(h, label, request[h].try)
Finish(h) == request' = [request EXCEPT ![h] = Idle]

Sent(command, from, to) == [command |-> command, from |-> from, to |-> to]
Packet(h) == Sent(request[h].command, request[h].from, h)

\* The connection is closed: nobody waits for its answers, but what was sent may
\* still arrive.
Abandoned(hs) ==
    [i \in DOMAIN wire |->
        IF wire[i].to \in hs THEN Sent(wire[i].command, wire[i].from, None) ELSE wire[i]]

\* The mutex is taken, and the command sent.
Send(h) ==
    /\ request[h].at = "lock" /\ mutex = None /\ Len(wire) < MaxWire
    /\ mutex' = h /\ At(h, "wait")
    /\ wire' = Append(wire, Packet(h))
    /\ UNCHANGED <<storage, saved, told, history, counts>>

\* There is no connection, and none can be made.
DialFails(h) ==
    /\ request[h].at = "lock" /\ mutex = None
    /\ Finish(h)
    /\ UNCHANGED <<storage, saved, wire, mutex, told, history, counts>>

\* The answer does not come, executed or not: once more, on a new connection.
Retry(h) ==
    /\ request[h].at \in {"wait", "answered"} /\ request[h].try = 1 /\ Len(wire) < MaxWire
    /\ wire' = Append(Abandoned({h}), Packet(h))
    /\ Now(h, "wait", 2)
    /\ UNCHANGED <<storage, saved, mutex, told, history, counts>>

\* There is no new connection, or it fails as well: so does Execute, and the caller
\* answers that the game is not reachable, or nothing.  (The connection is kept then,
\* and a late answer would be read as the next one's: see late of InboundPath.
\* Here that does not happen: an assumption.)
GiveUp(h) ==
    /\ request[h].at \in {"wait", "answered"}
    /\ wire' = Abandoned({h})
    /\ mutex' = None /\ Finish(h)
    /\ UNCHANGED <<storage, saved, told, history, counts>>

\* The answer is read.  runCommand posts it; initiateDiscordLink goes on.
Return(h) ==
    /\ request[h].at = "answered"
    /\ mutex' = None
    /\ IF request[h].command.op = "register" THEN At(h, "tell") ELSE Finish(h)
    /\ UNCHANGED <<storage, saved, wire, told, history, counts>>

\* SendDM, or else PostMentioning, or neither
Tell(h) ==
    /\ request[h].at = "tell"
    /\ told' \in {told, told \cup {request[h].code}}
    /\ Finish(h)
    /\ UNCHANGED <<storage, saved, wire, mutex, history, counts>>

\* The bridge is stopped and started again.
BridgeRestarts ==
    /\ \E h \in Handlers : request[h] # Idle
    /\ request' = [h \in Handlers |-> Idle] /\ mutex' = None
    /\ wire' = Abandoned(Handlers)
    /\ UNCHANGED <<storage, saved, told, history, counts>>

-----------------------------------------------------------------------------
(* The commands of the mod.                                                 *)

Entry(p) == [who |-> p, left |-> TTL]
Expired(entry) == entry.left < 0

\* Faulty variant: the last moment of a code counts as past it.
PurgeEarly(table) ==
    [c \in Codes |-> IF table[c] # None /\ table[c].left <= 0 THEN None ELSE table[c]]

\* purge_expired
PurgeExpired(table) ==
    [c \in Codes |-> IF table[c] # None /\ Expired(table[c]) THEN None ELSE table[c]]

\* /odb-confirm-link: the code is removed, expired or not.
ConfirmLink(c, u) ==
    IF pending[c] = None THEN UNCHANGED <<storage, history>>
    ELSE /\ pending' = [pending EXCEPT ![c] = None]
         /\ IF Expired(pending[c]) THEN UNCHANGED <<links, spent>>
            ELSE links' = [links EXCEPT ![pending[c].who] = u] /\ spent' = spent \cup {c}
         /\ UNCHANGED <<discordPending, drawn, age, excused>>

\* /odb-register-discord-code
RegisterDiscordCode(c, u) ==
    /\ discordPending' = [PurgeExpired(discordPending) EXCEPT ![c] = Entry(u)]
    /\ age' = [age EXCEPT ![c] = 0]
    /\ UNCHANGED <<links, pending, drawn, spent, excused>>

\* /odb-unlink-discord, /odb-unlink-player and /odb-unlink-all
Unlink(players) ==
    /\ links' = [p \in People |-> IF p \in players THEN None ELSE links[p]]
    /\ UNCHANGED <<pending, discordPending, history>>

Perform(command) ==
    CASE command.op = "confirm" -> ConfirmLink(command.params[1], command.params[2])
      [] command.op = "register" -> RegisterDiscordCode(command.params[1], command.params[2])
      [] command.op = "unlink-discord" -> Unlink({p \in People : links[p] = command.params[1]})
      [] command.op = "unlink-player" -> Unlink({command.params[1]})
      [] command.op = "unlink-all" -> Unlink(People)

\* The game executes the commands in the order in which they were sent.
Execute ==
    /\ wire # <<>>
    /\ Perform(Head(wire).command)
    /\ wire' = Tail(wire)
    /\ IF Head(wire).to = None THEN UNCHANGED request ELSE At(Head(wire).to, "answered")
    /\ UNCHANGED <<saved, mutex, told, counts>>

\* A command on a connection that broke, or was closed, is lost.
Lose ==
    /\ wire # <<>>
    /\ wire' = Tail(wire)
    /\ UNCHANGED <<storage, saved, bridge, told, history, counts>>

\* /odb-link: the code is shown in a window.
OdbLink(p) ==
    /\ \E c \in Undrawn :
        /\ DrawFor(c, p, "game")
        /\ pending' = [PurgeExpired(pending) EXCEPT ![c] = Entry(p)]
        /\ told' = told \cup {c}
        /\ age' = [age EXCEPT ![c] = 0]
    /\ UNCHANGED <<links, discordPending, saved, wire, bridge, spent, excused, loads>>

\* /odb-discord-link, with a code that was told: the caller's player is linked.
OdbDiscordLink(p) ==
    /\ \E c \in told :
        /\ drawn[c] = [who |-> p, where |-> "discord"] /\ discordPending[c] # None
        /\ discordPending' = [discordPending EXCEPT ![c] = None]
        /\ IF Expired(discordPending[c]) THEN UNCHANGED <<links, spent>>
           ELSE links' = [links EXCEPT ![p] = discordPending[c].who] /\ spent' = spent \cup {c}
    /\ UNCHANGED <<pending, saved, wire, bridge, told, drawn, age, excused, loads>>

\* /odb-unlink
OdbUnlink(p) ==
    /\ links[p] # None
    /\ Unlink({p})
    /\ UNCHANGED <<saved, wire, bridge, told, loads>>

-----------------------------------------------------------------------------
(* The game goes on, saves, and is loaded.                                  *)

Older(table) ==
    [c \in Codes |-> IF table[c] = None \/ Expired(table[c]) THEN table[c]
                     ELSE [who |-> table[c].who, left |-> table[c].left - 1]]

Tick ==
    /\ pending' = Older(pending) /\ discordPending' = Older(discordPending)
    /\ age' = [c \in Codes |-> IF age[c] \in 0..TTL THEN age[c] + 1 ELSE age[c]]
    /\ UNCHANGED <<links, saved, wire, bridge, told, drawn, spent, excused, counts>>

Save ==
    /\ loads < MaxLoads
    /\ saved' = <<links, pending, discordPending, spent>>
    /\ UNCHANGED <<storage, wire, bridge, told, history, counts>>

NoEntries == [c \in Codes |-> None]
NewGame == <<[p \in People |-> None], NoEntries, NoEntries, {}>>

\* The server stops and starts with a new map, or from its save.
Load ==
    /\ loads < MaxLoads /\ loads' = loads + 1
    /\ \E file \in {NewGame, saved} :
        /\ links' = file[1] /\ pending' = file[2] /\ discordPending' = file[3]
        /\ spent' = file[4] /\ saved' = file
    /\ wire' = <<>> /\ excused' = Codes \ Undrawn /\ age' = [c \in Codes |-> -1]
    /\ UNCHANGED <<bridge, told, drawn, asks>>

-----------------------------------------------------------------------------
Init ==
    /\ links = [p \in People |-> None] /\ pending = NoEntries /\ discordPending = NoEntries
    /\ saved = NewGame
    /\ wire = <<>> /\ mutex = None /\ request = [h \in Handlers |-> Idle]
    /\ told = {} /\ drawn = NoEntries /\ spent = {} /\ age = [c \in Codes |-> -1]
    /\ excused = {} /\ loads = 0 /\ asks = 0

Handle(h) ==
    \/ Receive(h) \/ Send(h) \/ DialFails(h) \/ Retry(h) \/ GiveUp(h) \/ Return(h) \/ Tell(h)

Play(p) == (OdbLink(p) \/ OdbDiscordLink(p) \/ OdbUnlink(p)) /\ Ask

Next ==
    \/ \E h \in Handlers : Handle(h)
    \/ BridgeRestarts
    \/ Execute \/ Lose
    \/ \E p \in People : Play(p)
    \/ Tick \/ Save \/ Load

Spec == Init /\ [][Next]_vars

-----------------------------------------------------------------------------
RconCommands ==
    [op : {"confirm", "register", "unlink-discord", "unlink-player", "unlink-all"},
     params : Seq(People \cup Codes \cup {None})]

Packets == [command : RconCommands, from : People, to : Handlers \cup {None}]
Requests ==
    [at : {"lock", "wait", "answered", "tell"}, command : RconCommands, from : People,
     code : Codes \cup {None}, try : {1, 2}]

\* Types; the handler that waits for an answer is the one that holds the mutex, and
\* the answer to one command.
TypeOK ==
    /\ links \in Links /\ pending \in Tables /\ discordPending \in Tables
    /\ saved \in Links \X Tables \X Tables \X SUBSET Codes
    /\ drawn \in [Codes -> Draws \cup {None}] /\ age \in [Codes -> -1..TTL + 1]
    /\ told \subseteq Codes /\ spent \subseteq Codes /\ excused \subseteq Codes
    /\ wire \in Seq(Packets)
    /\ mutex \in Handlers \cup {None}
    /\ request \in [Handlers -> Requests \cup {Idle}]
    /\ \A h \in Handlers : mutex = h <=> request[h].at \in {"wait", "answered"}
    /\ \A i \in DOMAIN wire :
          wire[i].to # None =>
              /\ request[wire[i].to].at = "wait"
              /\ \A j \in DOMAIN wire : wire[j].to = wire[i].to => j = i
    /\ loads \in 0..MaxLoads /\ asks \in 0..MaxAsks

\* A code that a person was told is good for its time (main.go:436, control.lua:285,
\* "expires in ~60 seconds"): until it has made a link, or its time is over, it is in
\* its table under that person's name, however calls were repeated, lost or cut off,
\* except when a save was loaded since it was drawn.
ToldCodesWork ==
    \A c \in told \ (spent \cup excused) :
        age[c] <= TTL =>
            LET table == IF drawn[c].where = "game" THEN pending ELSE discordPending
            IN table[c] # None /\ table[c].who = drawn[c].who

\* A link that the game removes for a command of Discord is removed for the linked
\* user or for an admin (main.go:916-919), also when the command is executed twice
\* or late, and whatever was linked since it was given.
OnlyEntitledUnlink ==
    [][wire' # wire /\ loads' = loads =>
          \A p \in People :
              links[p] # None /\ links'[p] = None =>
                  Head(wire).from = links[p] \/ ResolveAdmin(Head(wire).from)]_vars

\* The codes that can be taken, each with the person it was drawn for
Live(table) ==
    {[code |-> c, who |-> table[c].who] :
        c \in {d \in Codes : table[d] # None /\ ~Expired(table[d])}}

Promise == INSTANCE OneTimeCodes WITH offers <- Live(pending) \cup Live(discordPending)

\* Linking by code implements OneTimeCodes: a code makes one link at most, in its
\* time, between the player and the user of the person it was drawn for.
ImplementsOneTimeCodes == Promise!Spec
=============================================================================
