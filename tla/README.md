# A TLA+ model of Open Discord Bridge

Open Discord Bridge joins a Factorio server to Discord. A companion mod in the
game (`src/companion-mod/control.lua`) writes events to a file and accepts RCON
commands; a Go process (`src/bridge/`) tails the file, posts events to Discord,
relays messages of Discord into the game and keeps some state of its own. This
directory models the parts of both whose correctness depends on an order of
steps that nobody controls, checks them with TLC and proves the most important
invariants with TLAPS.

Paths below are relative to `src/bridge/` unless they begin with `src/`; `main.go`
is `cmd/bridge/main.go`, `control.lua` is `src/companion-mod/control.lua`.

## 1. Inventory

| Component | State it keeps | Operations | Module |
|---|---|---|---|
| Mod: event writer (`control.lua` 26-46) | `events.jsonl`, `truncated_this_session` | `write_event`; a new session overwrites the file | EventStream |
| Mod: linking (`control.lua` 240-509) | `storage.odb.links`, two tables of pending codes | link, confirm, register, unlink (4 commands), set-link | LinkSync (links and events), LinkCodes (codes) |
| Mod: inbound (`control.lua` 48-104, 196-207) | none | `/odb-incoming` prints a line | InboundPath |
| Mod: baseline events, rocket marks (`control.lua` 511-641) | disabled keys, the mark per force | one handler per game event | LinkSync (joins and leaves); marks not modelled |
| Transport (`internal/transport`) | `offset`, `buf`, the SFTP connection | poll: Stat, Read, `emitLines` | EventStream |
| Status manager (`internal/status`) | state, players, `lastUpdate`, `pendingTimer` | four events, `schedule`, timer callbacks, `push`, `scheduleRefresh` | StatusManager |
| Links store (`cmd/bridge/links_store.go`) | a map and `links.json` | `load`, `upsert`, `removeByPlayer`, `all` | LinkSync |
| Connection monitor and presence (`main.go` 284-303, 359-390, 671-686) | `last`; the status manager's players | poll `/odb-status`, announce transitions, `restoreLinks`, `OnConnected`, joins and leaves of the file | LinkSync |
| Router, live configuration (`internal/router`, `main.go` 716-764) | `routes`; the Discord client's `inbound` | `Update`, `Channel`, `InboundChannels`, `setConfig` | RouteConfig |
| Control API (`internal/controlapi`) | none of its own | config and restart change state; the rest reads | RouteConfig |
| RCON client (`internal/rcon`) | `conn` under a mutex | `Execute` with one retry | InboundPath, LinkCodes |
| Inbound splitting (`cmd/bridge/inbound.go`) | none | `incomingCommands`, the loop of `onInbound` | InboundPath |
| Discord client (`internal/discord`) | `inbound`, `connected` | message filter, REST calls | the parts the others use |
| Linked roles and nicknames (`main.go` 515-617) | `seen`, in memory | poll `/odb-status`, give and take the role and nickname | RoleSync |
| Permission monitor (`main.go` 213-272, `CheckPermissions` in `internal/discord`) | whether it still runs; the warning and the confirmation it posted | check by REST calls, warn, check again every 20 seconds | Permissions |
| Mentions (`main.go` 444-513) | a cache of links | poll `/odb-status`, rewrite text | not modelled |
| Commands (`main.go` 63-83, 393-442, 905-1131) | the requests being handled | dispatch, admin check, templates, a code for a Discord user | LinkCodes |
| Configuration (`internal/config`, `cmd/bridge/dotenv.go`) | `bridge.yaml`, `.env`, `bridge.effective.yaml` | load, validate, merge commands, write the snapshot | ConfigLoad |
| Wizard (`src/wizard`) | its answers | write `bridge.yaml` and `.env`, or keep them | ConfigLoad |
| Rendering, scripts | none at run time | functions on text, packaging | not modelled |

How they interact:

* The mod and the bridge share the file `events.jsonl`: the mod overwrites and
  appends, the tailer reads at its own pace. `onLine` passes an event to the status
  manager, the links store and the router.
* The bridge calls the mod over one RCON connection, which six goroutines share
  under one mutex: the monitor, the two link pollers, every inbound message, the
  Control API and slash commands.
* The monitor and the tailer call the status manager; its timers and pushes run in
  goroutines of their own and call Discord without its lock.
* The Control API serves requests concurrently and changes two structures, the
  router and the Discord client's set of channels, each with a lock of its own.
* The wizard, the host and the bridge share files on disk; nothing locks them.

What is hard: the file is overwritten while it is read; the game and the bridge stop
and start independently, and the game may crash in the middle of a line; RCON calls
time out after they took effect; timers fire while the lock is held; calls to Discord
fail and overtake each other; updates of two structures are not atomic.
`PROJECT.json` lists these as hazards at the line where each one bites.

What makes the components correct, in a sentence each: events reach the bridge whole,
in order and at most once; the last state of the server is always on its way to the
topic, within Discord's rate limit; the store follows what users asked for and comes
back into a game that was reset; the role of linked members follows the links; the bridge
listens exactly where it writes; a Discord message is in the chat whole and in order, and a
reply belongs to its command; an admin is told which permissions are missing, and the all
clear is true; a code links once, in its time, and only the person it was given to, and only
those who may remove a link; the bridge runs with the configuration the host meant, and a
setup that the wizard finished starts.

## 2. Modules

### EventStream, EventFeed, MCEventStream, EventStreamProofs

`EventStream` joins `write_event` and the tailer. A byte is a stamp, its number among
all bytes the mod ever produced; `LineEnds` says which stamps are newlines. Losing,
repeating, reordering or tearing a line all show in the stamps.

* The mod: `WriteEvent` opens the file, truncating it if `truncated_this_session` is
  false, `Flush` lets any number of the line's bytes reach it, `NewSession` ends the
  session at any moment, which may cut a line for good.
* The tailer: `Start`/`StartStatFails` is the first Stat, `Poll` the Stat of a tick with
  the truncation test, `Read`/`ReadFails` the read up to whatever the end of the file is
  by then, `EmitLine`/`EmitDone` `emitLines`. A failing Stat is a tick without effect.
  `BridgeStops` may come between any two steps.
* `EventFeed` is what the path promises: a channel that may lose events, or deliver the
  torn rest of one, but neither repeats nor reorders them, save for a rewind when a bridge
  run starts. The mapping is in `EventStream` (`Feed`): an event is known by the stamp of
  its newline, sent once that stamp is written, and received with the line that is whole
  (`EventOf`); the position is the last whole line since the last rewind.

Two switches name what the environment may do. `RegrowthRace = FALSE` assumes the usual pace: a file
that was overwritten does not outgrow the tailer's offset before a poll (`NoticedInTime`).
`StatMayFail = TRUE` lets the first Stat of a run fail, after which the code replays the file;
`DeliveredInOrder` therefore speaks of the lines since the last such failure and `EventFeed` has a
`Rewind`.

### StatusManager, MCStatusManager, StatusManagerProofs

A step is a critical section of `m.mu`, or the return of `SetChannelTopic`. The events
change the state and put their goroutine into `caller`; `Schedule` is `schedule` with
its three branches; a worker stands for a timer or a push goroutine and goes through
armed, fired, format, send and refresh. `lastUpdate` is kept as an age in ticks, the
topic without its times and layout. Time (`Tick`) does not pass while a goroutine only
needs the lock or the processor, and does while Discord answers. Concurrent
`SetChannelTopic` calls return in any order, and may fail (`SendMayFail`).
An event may come between the firing of a timer and its callback, which then runs although
`Stop` was called: such a timer is `loose`, and one more is when it calls back, since that
clears `pendingTimer` under another one. `sinceLoose` counts the ticks since a loose timer
called back. Both are histories.

### LinkSync, MCLinkSync, LinkSyncProofs

The links in the game, in its save and in the bridge's store, the link events between them, the
monitor that restores, and the list of the players who are in the game. `Command` is the common part
of the commands that change links, with one event per player; `ServerStarts` begins a session with a
new map or from the save; `BridgeStarts` loads the store and skips what is in the file. The tailer
is an ordered list of unread events here: that it delivers each event once and in order is what
EventStream shows, and `lost` records that some were overwritten or written while no bridge ran.
`CheckConnected` takes the snapshot, `RestoreOne` and `RestoreOneFails` are the calls, in any order
(a Go map), `RestoreDone` ends the callback. `last` can be "down" without an outage, because one
`/odb-status` may fail. `FastReset = FALSE` assumes that a server does not restart before the
monitor has seen it down.

The players in the game (`present`) come and go; their events take the same way as those
of links. `reply` is the answer of `/odb-status` that made the connection: the callback
first restores the links, then calls `OnConnected` with these players, and the list
(`listed`) is theirs from then on, until joins and leaves of the file change it. The
history variable `misled` marks a list that can be wrong: a join or leave was read
between the answer and `OnConnected`, which replaces it, or it was one of an earlier
session that was read after the connection.

The history variable `disturbed` marks a restore during which a command was given or a
call failed, or which began with link events unread; such a restore may leave the game
and the store apart (see section 6).

### RouteConfig, MCRouteConfig, RouteConfigProofs

A table is a list of routes; what their sources match (`Router.Channel`, `matches`) changes no
state and is left out. `Post` is a request that passed validation; `Update`, `ReadChannels` and
`UpdateInbound` are the three critical sections of `setConfig`, and `Echo` the answer. `Restart`
cancels the context, `Exit` lets main return without waiting for requests, `Start` builds everything
from the file. `overlap` records that two posts overlapped and no post has been alone since.

### InboundPath, MCInboundPath, InboundPathProofs

A message is the list of the sizes its runes have in JSON, with the size of a command
without text. `IncomingCommands` is the function with its budget in runes and its limit
in bytes. `Lock` to `Return` is one `Execute`: dialing, the local validation, sending,
the reply, one retry on a new connection. A command that was sent is on the `wire` until
the game executes it (`PrintLine`) or it is lost, also after its connection was closed.
Replies carry no identity and are matched by their order on the connection only. After a
retry that failed the code keeps the connection: it may be broken, or alive, and then the
reply that nobody waited for still comes (`Return`). The history variable `late` has the command
whose reply that is, until the next failure closes the connection: each call then reads the reply of
the one before, and leaves its own to the next. What such a call returns is no acknowledgement
(`acked`).

### RoleSync, MCRoleSync, GuildProofs

`reconcile` of `syncLinkedMembers`, a call at a time. `Query` is an answer of the mod,
`QueryGarbled` an answer over RCON that is not the mod's, which `parseLinks` takes for no
links; a call that fails changes nothing and is no step. `AddRole` to `NoNick` are the first
loop, `BeginRevert` to `EndReconcile` the second; both go through the users in any order (Go
maps). Links change between any two calls. A call to Discord may fail although it took effect.
The set `unsure` names the users whose role the bridge cannot know of: those of such calls,
and those who had the role when the bridge stopped, since `seen` is kept in memory. `config`
says which of role and nickname are configured, and is chosen initially. The specification is
`SyncSpec`, so that its proofs and those of Permissions, both about the guild, fit in one module.

### Permissions, MCPermissions, GuildProofs

A check is a sequence of REST calls: `ReadGuild` (the guild and its roles), `ReadMember`,
`ReadChannel` for each bridged channel, `Conclude` for the channel of the topic and the report. Each
may fail, and `Admins` edit roles, the bot's roles and overwrites between any two. `Effective` is
the code's computation with sets of permissions, layer by layer; `CanIn` says for one permission
what Discord allows. Both take the overwrites of channels into account, as the code does; the
comment at `discord.go:259-260`, that the check ignores them, is out of date. `guild_id` is
optional, and `hasID` says whether it is set: without it `Return` is the whole check, an empty
report without a call, which counts as all clear. `HandleFirst` and `HandleLater` are the monitor's
reaction to a report, at startup and in its loop. The history variables `changed` and `skipped` mark
a check during which the guild was edited, or in which a channel could not be read. Nothing is
persisted: a restart of the bridge is `Init`, which admits every guild.

### ConfigLoad, MCConfigLoad, ConfigLoadProofs

The wizard, the host and the bridge take turns at three files. A step is one file read or written:
`Start` reads `.env` into the environment of the process (`LoadDotEnv`), `Load` is `config.Load`
with its choice of mode, the parsing, `Validate`, and the snapshot at the end (`Finish`). The
returns of `Load` before `finish` leave the old snapshot, and its write may fail (`WriteMayFail`).
Two conversions are modelled by what they do to a text. `Unquote` takes a pair of quotes off a value
of `.env` (`Quoted`). The wizard's template puts the address, the events file and the settings of
SFTP into the YAML without quotes (`Unquoted`): the parser reads such a text as it is, as another
one, or not at all, and then the file is unreadable (`Scalars`, `Scalar`, `Breaks`). `Ask` is a run
of the wizard up to its last question, with the checks it makes, where a token in the environment is
taken unasked; `WriteConfig` and `WriteEnv` write or keep a file, and `Abandon` ends it in between.
`SetVariable`, `EditFile` and `EditEnvFile` are the host. A variable that is set to nothing is
`{""}` and differs from one that is not set, `{}`: the code treats them differently in `loadDotEnv`
and alike elsewhere. `RoutesFromEnv` and `CommandsFromEnv` append an entry after the other and skip
the blank ones, as the loops do.

### LinkCodes, OneTimeCodes, MCLinkCodes, LinkCodesProofs

The commands of the mod with both tables of pending codes, and the way to them from Discord.
A handler is a goroutine that handles a message or an interaction: `Receive` dispatches it
(`Dispatch`, `ResolveAdmin`, `MayRun`, `Interpolate`), `Send` to `Return` is its `Execute`,
with one retry, and `Tell` is the DM with the code and its fallback, both of which may fail.
The `wire` holds the commands that were sent; the game executes them in order (`Execute`), a
broken connection loses some (`Lose`), and one whose sender has given up may still be
executed. `Tick` ages the codes; `PurgeExpired` removes expired ones where the code does so,
before codes are added. `Save` and `Load` take the tables back to an earlier moment.

Templates and gates are data (`CommandList`), so that a host's own commands fit as well;
`CommandsAssumption` says that the linking commands have the gates of the built-in ones. People
use only codes that were told to them. Codes are distinct while they are drawn (`Undrawn`):
a collision of two random codes is assumed away. Unlike InboundPath, LinkCodes assumes that
no answer comes on a connection whose retry failed.

`OneTimeCodes` is what linking promises: a code is offered to one person and taken at most
once, and only loading a save brings anything back. The mapping takes as offers the codes of
both tables that have not expired.

## 3. Runs

| Run | Shows | Bounds, and why they are enough |
|---|---|---|
| EventStream.cfg | order, whole lines, nothing lost silently, refinement, delivery | three events of 2, 3 and 2 bytes, two bridge runs, any number of sessions. A line with a text byte can be cut before, inside and after its text; three events give an old session, a shorter new one and one more behind it |
| StatusManager.cfg | no lost update, live timer, refresh goes on, rate limit but for late stops, topic heals | one player, three changes of state, cooldown of two ticks, initial delay one, three workers: enough for a timer, a push that waits for Discord and a second push; three changes reach all three branches of `schedule` from both goroutines |
| LinkSync.cfg | the store is the log, a restore holds, links are restored, the list of players is right | two players, two users, two commands or joins together, one reset or load, two bridge starts: a link and its removal, or a join and a leave, on either side of any step of a restore |
| RouteConfig.cfg | the bridge listens where it writes, answers are true | two clients, at most three updates in a process, six tables over three channels, two of the posted ones invalid. Two clients make every overlap of two posts; symmetric in the clients |
| InboundPath.cfg | a call reads its own reply or the one before it, acknowledged order, at most twice, whole, worked off | two messages, one cut in two because of its length or because of one large rune, one whose rune fits nowhere, one whose author's name alone is too long; three connections, so that a retry, a late reply and a later failure all happen |
| RoleSync.cfg | no forgotten role, linked members keep it, roles follow links | two players and two users, one of them the owner; nothing is bounded: links, restarts and failures go on for ever |
| Permissions.cfg | with `guild_id` reports are true and the monitor stops only when all is granted; it does stop | `guild_id` set or not, two channels, one with overwrites of all three layers, of two contested permissions, roles that add one or make the bot administrator, a linked role the bot may hold itself; every guild made of these, and one edit at any moment. One edit is enough to fix a guild, or to make two calls of a check disagree |
| ConfigLoad.cfg | the real environment wins, overrides hold, a setup starts | three environments, three files and two `.env` files by hand, seven sets of answers (a password of two quotes, an address that is no YAML and a user that YAML reads as a comment among them), every variable of the host's choice once set and once not; three edits, runs or starts: one to set a variable or write a file, two starts so that an old snapshot meets a new failure |
| LinkCodes.cfg | told codes work, only those entitled unlink, refinement of one-time codes | two people, one an admin, two codes, two handlers, two commands under way, three requests, one load, one unit of time. Two handlers and two places on the wire make a retry overtake or follow another's command; three requests are a code, its use and an unlink. Symmetric in codes and in handlers |
| RoleNick.cfg | violation of NickFollowsLink | as RoleSync.cfg |
| RoleChurn.cfg | violation of NoChurn | as RoleSync.cfg |
| PermissionWarning.cfg | violation of WarnedWhenMissing | as Permissions.cfg, without edits |

`MaxStarts`, `MaxEvents`, `MaxCommands`, `MaxSessions`, `MaxUpdates`, `MaxDials`, `MaxEdits`,
`MaxWire`, `MaxLoads` and `MaxAsks` bound the histories; each stands in the guard of the action
it bounds. The types of StatusManager, LinkSync and InboundPath are checked by their runs; those
of all modules are proved (section 5). Deadlock is checked for RouteConfig,
whose system always has a next step; in the other runs the model stops when its bounds are
used up, and liveness is stated as properties instead.

Every property of a passing run has a mutant in `PROJECT.json`: a variant of a definition ("Faulty
variant" in the modules), as a plausible mistake in that code would make it, under which TLC finds
the property violated. The faulty variants take no part in any specification.

## 4. Fairness

* EventStream: `Flush`, `Poll`, `EmitLine` and `EmitDone` are weakly fair: write_file
  returns, the ticker ticks, and `emitLines` is a loop over a buffer. `Read` is strongly
  fair: reads may fail, but of endlessly many one succeeds. Nothing is assumed of the
  game's sessions or of the bridge's restarts.
* StatusManager: `Tick`, `Schedule` and every worker's step are weakly fair (the Go
  scheduler and time), `SendOK` is strongly fair: Discord does not refuse for ever.
  Events have no fairness.
* LinkSync: the tailer and the calls of a restore are weakly fair (an RCON call returns
  or fails), `CheckConnected` strongly: `/odb-status` does not fail at every poll.
* InboundPath: `ExecuteStep` is weakly fair (a dial, a write or a read ends or times out),
  `Lock` strongly fair for each handler: a Go mutex that a goroutine has waited for
  over a millisecond is handed to the longest waiter.
* RoleSync: `Reconcile` is weakly fair (the ticker ticks, and a call returns), and for every user
  adding the role, setting the nickname and removing the role are strongly fair: of endlessly
  many tries one succeeds.
* Permissions: the monitor is weakly fair (the ticker ticks, a call returns), `ReadGuild`,
  `ReadMember` and reading each channel strongly: of endlessly many calls one succeeds.
* RouteConfig, ConfigLoad and LinkCodes state safety only, and no fairness.

## 5. Proofs

TLAPS checks the following for every value of the constants, within the named assumptions of
each module (`ASSUME` in the component's module).

* `EventStreamProofs`: `TypeCorrect`, `InOrder`, `OnlyWholeLines`, `NothingIsLeftBehind` and
  `ImplementsChannel`. `DeliveredInOrder` is not inductive; `OrderInv` adds that stamps grow along
  the file and the buffer, that everything emitted is older than the buffer, and `UnreadIsNew`: what
  the offset has still to cover, or will cover after a truncation is noticed, is newer than
  everything read. The last conjunct is what makes the restart of the offset at 0 safe. The proof
  has a step per action, does not use `NoticedInTime`, and so holds with the regrowth race as well:
  that race tears lines, it does not repeat them. `TornOnlyAtStart` and `CaughtUp` are about whole
  lines, and are proved for `~RegrowthRace`. `TornInv` adds that the bytes of the file follow on one
  another from the beginning of a line (`FileIsWhole`), and that those of the buffer do, begin a
  line or a start, and continue with the file at the offset, unless it was cut below the offset
  (`BufFitsFile`). `CaughtInv` adds that a line end that was read and is no longer in the buffer was
  emitted, if its line began in this run (`ReadIsEmitted`), and that between two polls the buffer
  holds none (`RestIsPartial`). Its theorem also assumes `NoBlankLines`: two line ends never follow
  each other, since `write_event` writes `{}` at least before a newline, and the tailer drops empty
  lines. `ImplementsChannel` is the refinement of `EventFeed`, with or without the race: the byte
  that ends a line is `Send`, a line of `emitLines` is `Receive` or, torn, `ReceiveTorn`, a first
  Stat that fails is `Rewind`, and all else a stutter. `OrderInv` is all it needs: the buffer was
  sent (`lastRead < next`), and its next line is newer than every line that was emitted.
* `StatusManagerProofs`: `TypeCorrect`, `UpdatesAreNotLost`, `RefreshNeverStops`,
  `PendingTimerIsLive` and `RateIsLimited`. The three about updates, refresh and timers
  follow from one inductive invariant: the conjunction of the three with the parts of the
  types they need. `PendingIsLive` is what the other two rest on, since `schedule` and
  `scheduleRefresh` do nothing when a timer is pending. `RateIsLimited` is
  about every behaviour, those in which timers are stopped too late included: a push that would be
  the third in two cooldowns has a loose timer that called back within them. `RateInv` is its
  invariant, with no exception of its own: a timer that waits is pending or loose
  (`LooseOrPending`), the pending one fires no earlier than the cooldown allows
  (`TimerKeepsCooldown`), and pushes that did not begin with a loose callback are a cooldown
  behind the one before (`FormatsAreApart`, `PushesAreApart`).
* `RouteConfigProofs`: `TypeCorrect`, `RelaysWhatItRoutes`, `AnswersAreTrue` and
  `TablesNeverMix`. The invariant `Lone` describes how far a post that
  is alone has come (its table in force, the channels it read those of its table);
  `OneTable` says that the router's table, what a request read and the relayed channels each
  belong to a table that was installed.
* `LinkSyncProofs`: `TypeCorrect`, `StoreFollows`, `RestoresHold` and `PlayersCorrect` from
  `Invariant` (`Spec => []IInv`). `LifeInv`: who is connected or restores is a bridge that
  runs and, without fast resets, one that has seen the session that runs. `RestoreInv`:
  while a restore is undisturbed no link event waits and the snapshot is the store, so that
  what is still to be pushed is what the properties say. `PresenceInv`: the last waiting
  visit of each player says whether they are in the game; without one, the answer does while
  the links are restored and the list does afterwards. The lemmas are about the latest event
  of a player in a list to which one is appended, or from which the head is taken.
  `PlayersCorrect` is for `~FastReset`; the others hold with fast resets as well. The
  players are a finite set, because the mod's answer lists them.
* `InboundPathProofs`, for any messages, limit of a command, number of pieces and of connections:
  `CommandsFit`, `CommandsAreWhole`, `TypeCorrect`, `NeverMoreThanTwice`, `RepliesStayInStep`,
  `DoneInOrder` and `NothingIsLost`. The first two are about `incomingCommands` alone: no command is
  too long, and together they are the text. They rest on two lemmas: `Recursion`, that a function
  computed from its values at smaller numbers exists, so that `Pieces` and `FlattenSeq` are what
  their equations say, and `Induct`, which finds the least rune at which a claim about the rest of a
  text would fail. `AtMostTwice` follows from `SentAsTried`: the copies of a command that were
  printed or still wait on a wire are at most its attempts, whatever is lost, late or retried. The
  last three hold with late replies as well. `RepliesStayInStep` says that a call reads its own
  reply or the one that is outstanding from the command before, so that a kept connection is one
  reply behind and never two. `Paired` is its invariant: the requests that wait on the connection in
  use and its replies, in this order, are the outstanding command and the one of the call that runs,
  if any, and no others; a new connection has neither. With `AnsweredIsPrinted` (an
  answer belongs to a line that was printed) this makes `OrderInv`, from which the order of the
  acknowledged lines follows. `MessageIsWhole` then takes the enumeration of a finite set of lines
  in order (`InOrderIs`) and `CommandsAreWhole`.
* `GuildProofs`, about RoleSync and Permissions. Of RoleSync: `SyncTypes`, `SeenAreRight`,
  `NoRoleIsForgotten` and `LinkedMembersKeepRole`. The two invariants need each other and
  `VisitedRole`: between the call for the role and the one for the nickname the visited user has the
  role (first loop) or not (second loop), and is neither covered by `seen` nor forgotten. The action
  property rests on `SteadyReported`: who has been linked since the last answer was in it, so that
  the second loop does not visit them. Of Permissions: `TypeCorrect`, `ReportsAreTrue` and
  `StopsOnlyWhenGranted`, the last two for a bridge with `guild_id` (see section
  6 for one without). The lemma `EffectiveIsAllowed` shows that the code's three set
  operations decide as `CanIn` does, for any overwrites. The invariant says that what a check has
  read is the guild as it is (`RolesAreCurrent`, `MemberIsCurrent`, `ChannelsAreCurrent`) unless it
  was edited meanwhile.
* `ConfigLoadProofs`: `TypeCorrect`, `GivenEnvironmentWins`, `WizardSetupStarts` and
  `HostsCommandsHold`, for any environments, files and answers. `GivenEnvironmentWins` rests on
  `GivenWins` (`.env` has changed no variable that the bridge was given) and on an assumption,
  `FilesNameUsualSecrets`: a hand-written bridge.yaml does not give a secret the name of a variable
  of another secret, for then the code reads that other variable, as it was told to.
  `WizardSetupStarts` is an action property. Its premise `Complete` names what the wizard does not
  check: required answers are given, passwords keep something without their quotes, no path is a
  mere reference, and the texts without quotes are ones YAML reads as they are. `SetupInv` says that
  the wizard's answers were checked and its files written in order (`WritesInOrder`), that files as
  it left them hold its answers (`FreshFiles`), and what `.env` made of the variables of a start
  from them (`FreshStart`); the proof follows `Load` from there to a configuration that `Validate`
  accepts. `HostsCommandsHold` is `OverridesHold`. Its
  invariant (`ListsInv`) says that the environment and `.env` hold lists where lists are parsed, and
  that the configuration of a bridge in env-var mode is the one its environment gives; the rest is
  about lists: what is skipped or appended entry by entry has the entries kept and no others
  (`KeptElements`), commands appended under other triggers leave those before in force
  (`AppendedElsewhere`), and the built-in triggers differ (`DefaultsDiffer`).
* `LinkCodesProofs`: `TypeCorrect`, `CodesWork`, `EntitledUnlink` and `ImplementsCodes`. The
  first three come from `Invariant` (`Spec => []IInv`), for any people, codes, handlers and
  list of commands. `BridgeInv` is about the bridge: `MutexHeld` (who holds the mutex waits
  for an answer), `Awaited` (at most one command on the wire answers a handler),
  `RequestsProper` and `WireProper`: every command that is handled or under way was given by
  someone entitled to it, and carries the code drawn for that person. The last two carry the
  gate over the retries, and `EntitledUnlink` follows from them. `GameInv` says that an
  entry of a table, unless it was drawn before the last load, names its person and fits the
  time since it got there; without it, a code could be purged before its time. `SavedInv`
  says that the save holds tables of codes that were drawn, which `Load` makes the state.
  `ToldRegistered` and `RequestsRegistered` say that a code that was told, or is about to be
  told, got into its table (`Registered`); the proof that no step undoes this is the lemma
  each action cites. `ImplementsCodes` is the refinement of `OneTimeCodes`: the offers are
  the entries of both tables that have not expired; `/odb-link` and a registration map to
  `Offer`, a confirmation or `/odb-discord-link` in time to `Take`, and late or for nothing
  to a stutter, as do all steps of the bridge; `Tick` is `Lapse`, `Unlink` is `Remove`.
  `RefInv` adds to `IInv` what keeps a code that made a link from being offered again: the
  commands that register a code all come from one handler, and none of them is left on the
  wire when that handler is answered and tells the code (`OneSender`; the answered one is
  the last of them). It also adds whose everything is: a confirmation brings a code that its
  sender was told in the game (`ConfirmsOwn`), and entries and links, those in the save
  included, belong to whom the code was drawn for (`GameOwned`, `SaveOwned`). The assumption
  `NamesAssumption` says that the name of a player is not a code.

Only model-checked: the liveness properties (`EventuallyEmitted`, `OnlineTopicHeals`,
`EventuallyRestored`, `EventuallyWorkedOff`, `RoleFollowsLink`, `EventuallyDone`), since liveness
under fairness and `ENABLED` are out of the prover's reach. What the violation runs refute is
refuted for their instances only. Every invariant, action property and refinement of a passing run
is proved, some for one value of a switch or under an assumption, as said above: `~RegrowthRace` and
`NoBlankLines`, `~FastReset`, `FilesNameUsualSecrets`. The prover has no induction over an arbitrary
predicate. What a recursive function or a fold computes is therefore proved by a least
counterexample in a set of numbers (`Induct`), and the existence of the function by a lemma of its
own; lists are filtered with `FlattenSeq`, whose definition is such a function, and not with
`SelectSeq`, which the prover cannot expand.

## 6. What the model says of the code

TLC shows three claims of the code's comments violated, each in a run of its own:

* `main.go:585`: a nickname that could not be set is not tried again, unlike a role (role_nick).
* `main.go:522`: an answer that is not the mod's counts as no links, and every member loses the
  role until the mod answers again (role_churn).
* `main.go:229`: if the first check of the permissions cannot be made, what later checks find
  missing is never posted (permission_warning).

The following was read in the code while it was modelled. Each is a step of the model, or behind a
switch where it says so; no run states it as a property of its own, and the properties of
the passing runs leave it out by the premise that is named.

* `transport.go:54`: a new session is recognised by a smaller file. If the file has grown
  past the old offset by the next poll, two sessions are joined in the middle of a line
  (`RegrowthRace`; the runs have FALSE, order and refinement are proved for both values).
* `status.go:135`: the result of `Stop` is ignored. With a callback that waits for the lock,
  two pushes may follow each other and two refresh loops run for a while (`loose`; `RateLimit`
  excepts the two cooldowns after such a callback). No update is lost by it.
* `status.go:157`: a failed push of the offline state is not repeated, and the topic stays wrong.
  While the server is online the refresh repairs it (`OnlineTopicHeals` is about that only).
* `main.go:761-762`: two overlapping posts may leave the router and the set of relayed channels
  with different tables (`overlap`). The set is nevertheless always that of one table.
* `discord.go:262`: without `guild_id` the check of the permissions reports that nothing is missing,
  having asked nothing, and the monitor logs that it passed and ends, against what
  `src/docs/aleforge/SETUP.md:209` says of it (`hasID`).
* `rcon.go:52`: a connection on which a retry failed is kept; a reply that comes late is read as
  that of the next command, and so on until a call fails (`late`).
* `main.go:375`: links are restored on transitions only, so that a game that resets between two
  polls stays without them (`FastReset`; the run has FALSE).
* `render.go:29`: the wizard writes an address like `[::1]:27015` without quotes, and the file is not
  YAML (`Complete`).
* `config.go:141`: a file that cannot be read or parsed ends `Load` before `finish`, so that the
  snapshot of an earlier start stays, and says "OK", while `effective.go:16-19` says that it is
  written at every startup, "especially when it refuses to start".
* `config.go`: a poll interval of zero or less is accepted, and ends the process when `NewTicker`
  panics (`bridge.at = "panicked"` in ConfigLoad).
* `dotenv.go:41`: a variable that is set to nothing hides its line in `.env`
  (`LeavesSetupInForce`), and a wizard that ended between its two files leaves those of two
  setups (`fresh`).
* `rcon.go:46`: a confirmation that is sent twice is answered "invalid or already used" although it
  made the link; the store gets the link all the same.
* `main.go:428`: an answer over RCON that is not the mod's counts as success, and the user
  gets a code that no game knows. LinkCodes assumes that the mod is loaded.

Also left by premises: a restore may overwrite a link that was changed while
it ran, and skips a link whose call failed (`disturbed`); a loaded save brings removed links back,
since a restore never removes; link events that no bridge read are lost (`lost`); a join or leave
that is read while the links are restored is overwritten by the answer from before, and those of an
earlier session, read after the connection, put players on the list who are not there (`misled`); a
loaded save brings back codes, and the links they made (`excused`); a check during which the guild
was edited may give an all clear for a guild that never was (`changed`), and so may one that could
not read a channel (`skipped`); an administrator's role is not compared with the linked role
(`Granted`); the pieces of two messages may alternate in the chat; a rune that fits into no command
ends its message (`Splittable`).

## 7. Not modelled

Disk failures of the links store (the file is replaced atomically; `save` writes, syncs and
renames); the text of events and messages, its rendering and its sanitising; the mentions (a
cache that is replaced as a whole every 20 seconds, and a rewriting of text); the registration of
slash commands; the commands of a host that do not concern links; the endpoints of the Control API
that only read or pass a call on; the mod's sources, disabled baselines and custom events (an
assignment or a call each) and its rocket marks; optional settings that are only copied, the log
file, YAML beyond what it makes of a text without quotes; scripts and packaging.

## 8. Plan

Done, in the order of importance: the event path, the status manager, the links, live routing,
the inbound path, the linked roles, the permission monitor, the configuration, the link codes and
the list of players; and the proofs of all their invariants, action properties and refinements.
To come:

1. `RocketMarks`: the marks as a function, compared with a reference over all short histories
   of totals.
2. The name a nickname shows, and its truncation, in RoleSync; the mentions and their cache.
