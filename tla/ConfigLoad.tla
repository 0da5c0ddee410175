------------------------------ MODULE ConfigLoad ------------------------------
(***************************************************************************)
(* From the setup wizard to a running bridge: the wizard writes bridge.yaml *)
(* and .env (src/wizard), the bridge reads .env (cmd/bridge/dotenv.go),     *)
(* loads its configuration from bridge.yaml or from the environment         *)
(* (internal/config/config.go), and writes what it resolved to              *)
(* bridge.effective.yaml (internal/config/effective.go).                    *)
(*                                                                          *)
(* The wizard, the host who edits files and variables, and the bridge are   *)
(* programs of their own; a step is one file read or written.  A variable   *)
(* of an environment is a set, {} when it is not set and {x} when it is set *)
(* to x.  Variables hold text, except ODB_ROUTES and ODB_COMMANDS, which    *)
(* hold the list of their entries: a pair of the texts around "=", a text   *)
(* alone when there is no "=", or <<>> for a blank.                         *)
(***************************************************************************)
EXTENDS Integers, Sequences, SequencesExt

CONSTANTS
    Settings,       \* the variables, and what the host may set each one to
    Environments,   \* the environments a host begins with
    EnvFiles,       \* .env files written by hand
    Files,          \* bridge.yaml files written by hand
    Answers,        \* what the wizard may be told
    Connects,       \* the tokens that Discord accepts
    TextChannels,   \* the guilds the bot is in, and the text channels of each
    References,     \* the texts that are a reference and nothing else, "${NAME}", and
                    \* the variable each one stands for
    Scalars,        \* the texts that YAML, when they are not quoted, does not read as
                    \* they are: {x} if it reads x, {} if the file cannot be parsed
    Quoted,         \* the texts in a pair of quotes, and the text between them
    Seconds,        \* the texts that are durations, in seconds
    WriteMayFail,   \* whether the write of bridge.effective.yaml may fail
    MaxEdits        \* bound: edits by the host, runs of the wizard, starts

ASSUME EnvironmentAssumption ==
    \A e \in Environments : DOMAIN e = DOMAIN Settings /\ \A v \in DOMAIN e : e[v] \in Settings[v]
\* A variable has one value, and has a name.
ASSUME VariablesAssumption ==
    /\ {"ODB_CONFIG", "DISCORD_BOT_TOKEN", "FACTORIO_RCON_PASSWORD", "SFTP_PASSWORD",
        "BRIDGE_CONTROL_TOKEN", "ODB_ROUTES", "ODB_COMMANDS"} \subseteq DOMAIN Settings
    /\ "" \notin DOMAIN Settings
    /\ \A v \in DOMAIN Settings : \A x \in Settings[v] : \A t, u \in x : t = u
\* .env is a list, and so is what the two variables of entries are set to.
IsList(x) == x \in Seq({x[i] : i \in DOMAIN x})
Lists == {"ODB_ROUTES", "ODB_COMMANDS"}
ASSUME ListsAssumption ==
    /\ \A v \in Lists : \A x \in Settings[v] : \A t \in x : IsList(t)
    /\ \A lines \in EnvFiles :
           IsList(lines) /\ \A i \in DOMAIN lines : lines[i].key \in Lists => IsList(lines[i].value)
\* The defaults of the wizard are plain texts in YAML.  One of them names a variable,
\* but no text with more than a reference is ever empty: it stands for itself.
ASSUME TextsAssumption ==
    {"", "events.jsonl", "${HOME}/events.jsonl", "127.0.0.1:27015"}
        \cap (DOMAIN References \cup DOMAIN Scalars \cup DOMAIN Quoted) = {}
\* Discord knows no empty names, and no tokens in quotes.
ASSUME DiscordAssumption ==
    /\ ({""} \cup DOMAIN Quoted) \cap Connects = {}
    /\ \A g \in DOMAIN TextChannels : "" \notin TextChannels[g]
ASSUME FilesAssumption == \A y \in Files : y.kind \in {"none", "unreadable", "yaml"}
ASSUME BoundAssumption == MaxEdits \in Nat

Vars == DOMAIN Settings

NoFile == [kind |-> "none"]
Unreadable == [kind |-> "unreadable"]   \* it cannot be read, or is not YAML

VARIABLES
    env,            \* the environment the bridge is started in
    dotenv,         \* .env, a list of assignments
    yaml,           \* bridge.yaml
    snapshot,       \* bridge.effective.yaml
    wizard,         \* the wizard: where it is, and the answers of its last run
    fresh,          \* history: the files left as the last run of the wizard wrote them
    bridge,         \* the bridge: where it is, the environment it was given, that
                    \* of its process (with .env), and its configuration
    edits           \* history: counts edits, runs and starts

hostVars == <<env, edits>>
fileVars == <<dotenv, yaml, fresh>>
wizardVars == <<wizard>>
bridgeVars == <<bridge, snapshot>>
vars == <<hostVars, fileVars, wizardVars, bridgeVars>>

(***************************************************************************)
(* The environment                                                         *)
(***************************************************************************)
\* os.Getenv, of a variable with text and of one with a list
Text(e, v) == IF e[v] = {} THEN "" ELSE CHOOSE x \in e[v] : TRUE
List(e, v) == IF e[v] = {} THEN <<>> ELSE CHOOSE x \in e[v] : TRUE

\* unquote
Unquote(text) == IF text \in DOMAIN Quoted THEN Quoted[text] ELSE text

\* The value of an assignment; a list stands for its entries, whatever its quotes.
Value(line) == IF line.key \in Lists THEN line.value ELSE Unquote(line.value)

\* Faulty variant: .env overrides what is set already.
DotEnvOverrides(lines, e) ==
    [v \in Vars |->
        LET found == SelectSeq(lines, LAMBDA l : l.key = v)
        IN IF found = <<>> THEN e[v] ELSE {Value(Head(found))}]

\* loadDotEnv: an assignment counts if its variable is not set, not even to
\* nothing or by a line before.
LoadDotEnv(lines, e) ==
    [v \in Vars |->
        LET found == {i \in DOMAIN lines : lines[i].key = v}
        IN IF e[v] # {} \/ found = {} THEN e[v]
           ELSE {Value(lines[CHOOSE i \in found : \A j \in found : i <= j])}]

Expand(text, e) ==
    IF text \in DOMAIN References THEN Text(e, References[text]) ELSE text

Default(text, default) == IF text = "" THEN default ELSE text

\* parseBool
Bool(text) == text = "true"

(***************************************************************************)
(* The configuration from bridge.yaml                                      *)
(***************************************************************************)
\* A secret, from the variable that the file names
Secret(e, name) == IF name \in Vars THEN Text(e, name) ELSE ""

\* Load, lines 143-174: defaults, expansion, secrets
FromFile(y, e) ==
    [transport |-> Default(y.transport, "local"),
     poll |-> IF y.poll = 0 THEN 1 ELSE y.poll,
     events |-> Expand(y.events, e), address |-> Expand(y.address, e),
     host |-> y.host, user |-> y.user, key |-> Expand(y.key, e),
     sftpPassword |-> Secret(e, y.passwordEnv),
     rconPassword |-> Secret(e, y.rconEnv), token |-> Secret(e, y.tokenEnv),
     control |-> y.control, controlToken |-> Secret(e, y.controlEnv),
     listen |-> IF y.control THEN Default(y.listen, "127.0.0.1:7777") ELSE y.listen,
     routes |-> y.routes, commands |-> y.commands]

(***************************************************************************)
(* The configuration from the environment                                  *)
(***************************************************************************)
Blank(entry) == entry = <<>>
HasNoEquals(entry) == Len(entry) = 1

\* routesFromEnv, when no entry lacks its "="
RoutesFromEnv(e) ==
    LET raw == List(e, "ODB_ROUTES")
        channel == Text(e, "ODB_DISCORD_CHANNEL_ID")
    IN IF raw # <<>>
       THEN FlattenSeq([i \in DOMAIN raw |->
                IF Blank(raw[i]) THEN <<>>
                ELSE <<[source |-> raw[i][1], channel |-> raw[i][2]]>>])
       ELSE IF channel = "" THEN <<>> ELSE <<[source |-> "*", channel |-> channel]>>

Command(trigger, rcon, admin, args) ==
    [trigger |-> trigger, rcon |-> rcon, admin |-> admin, args |-> args]

\* commandsFromEnv, when no entry lacks its "="
CommandsFromEnv(e) ==
    LET raw == List(e, "ODB_COMMANDS")
    IN FlattenSeq([i \in DOMAIN raw |->
           IF Blank(raw[i]) THEN <<>> ELSE <<Command(raw[i][1], raw[i][2], FALSE, FALSE)>>])

DefaultCommands ==
    <<Command("!players", "/players online", FALSE, FALSE),
      Command("!link", "/odb-confirm-link {1} {userid} {user}", FALSE, TRUE),
      Command("!unlink", "/odb-unlink-discord {userid}", FALSE, TRUE),
      Command("!links", "/odb-links", TRUE, FALSE),
      Command("!unlink-player", "/odb-unlink-player {args}", TRUE, TRUE),
      Command("!unlink-all", "/odb-unlink-all", TRUE, FALSE)>>

\* Faulty variant: the built-in commands are appended, claimed or not.
AppendDefaultCommands(explicit) == explicit \o DefaultCommands

\* mergeDefaultCommands
MergeDefaultCommands(explicit) ==
    LET claimed == {explicit[i].trigger : i \in DOMAIN explicit}
    IN explicit \o FlattenSeq([i \in DOMAIN DefaultCommands |->
           IF DefaultCommands[i].trigger \in claimed THEN <<>> ELSE <<DefaultCommands[i]>>])

\* loadFromEnv returns before finish: a duration or an entry cannot be parsed.
Malformed(e) ==
    \/ Text(e, "ODB_POLL_INTERVAL") \notin DOMAIN Seconds \cup {""}
    \/ \E v \in {"ODB_ROUTES", "ODB_COMMANDS"} :
           \E i \in DOMAIN List(e, v) : HasNoEquals(List(e, v)[i])

\* loadFromEnv
FromEnv(e) ==
    LET poll == Text(e, "ODB_POLL_INTERVAL")
        control == Bool(Text(e, "ODB_CONTROL_API_ENABLED"))
        listen == Text(e, "ODB_CONTROL_API_LISTEN")
    IN [transport |-> Default(Text(e, "ODB_TRANSPORT"), "local"),
        poll |-> IF poll = "" THEN 1 ELSE Seconds[poll],
        events |-> Expand(Text(e, "ODB_EVENTS_FILE"), e),
        address |-> Text(e, "ODB_RCON_ADDRESS"),
        host |-> Text(e, "ODB_SFTP_HOST"), user |-> Text(e, "ODB_SFTP_USER"),
        key |-> Text(e, "ODB_SFTP_KEY_PATH"),
        sftpPassword |-> Text(e, "SFTP_PASSWORD"),
        rconPassword |-> Text(e, "FACTORIO_RCON_PASSWORD"),
        token |-> Text(e, "DISCORD_BOT_TOKEN"),
        control |-> control, controlToken |-> Text(e, "BRIDGE_CONTROL_TOKEN"),
        listen |-> IF control THEN Default(listen, "127.0.0.1:7777") ELSE listen,
        routes |-> RoutesFromEnv(e),
        commands |-> IF Text(e, "ODB_DEFAULT_COMMANDS") = "false"
                     THEN CommandsFromEnv(e)
                     ELSE MergeDefaultCommands(CommandsFromEnv(e))]

(***************************************************************************)
(* What is common to both                                                  *)
(***************************************************************************)
\* validate
Validate(c) ==
    /\ c.transport \in {"local", "sftp"}
    /\ "" \notin {c.events, c.address, c.rconPassword, c.token}
    /\ c.transport = "sftp" =>
           c.host # "" /\ c.user # "" /\ (c.key # "" \/ c.sftpPassword # "")
    /\ c.routes # <<>>
    /\ \A i \in DOMAIN c.routes : "" \notin {c.routes[i].source, c.routes[i].channel}
    /\ c.control => c.controlToken # ""
    /\ \A i \in DOMAIN c.commands : "" \notin {c.commands[i].trigger, c.commands[i].rcon}

SecretFields == {"token", "rconPassword", "controlToken", "sftpPassword"}

\* yaml.Marshal: the secrets have the tag "-".
Public(c) == [f \in DOMAIN c \ SecretFields |-> c[f]]

\* secretLines: which of the secrets that matter are set
SecretLines(c) ==
    [f \in {"token", "rconPassword"} \cup (IF c.control THEN {"controlToken"} ELSE {})
                  \cup (IF c.transport = "sftp" THEN {"sftpPassword"} ELSE {})
        |-> c[f] # ""]

\* ODB_CONFIG=none, or no file
Forced(e) == Text(e, "ODB_CONFIG") = "none"
EnvMode(e, y) == Forced(e) \/ y = NoFile

\* modeLine
ModeLine(e, y) ==
    IF ~EnvMode(e, y) THEN "file mode"
    ELSE IF ~Forced(e) THEN "env-var mode, no file"
    ELSE IF y = NoFile THEN "env-var mode, forced, no file either"
    ELSE "env-var mode, forced, ignoring the file"

\* unknownKeyWarnings: the keys of the file that are not the bridge's
Warnings(e, y) == IF EnvMode(e, y) THEN {} ELSE y.stray

NoSnapshot == [kind |-> "none"]

\* renderEffective
RenderEffective(c, mode, warnings) ==
    [kind |-> "written", mode |-> mode, valid |-> Validate(c),
     secrets |-> SecretLines(c), warnings |-> warnings, config |-> Public(c)]

(***************************************************************************)
(* The bridge                                                              *)
(***************************************************************************)
Stopped == [at |-> "stopped"]
\* setup is history: the files that were the wizard's when .env was read.
Loading(e, p, setup) == [at |-> "loading", given |-> e, penv |-> p, setup |-> setup]
Refused == [at |-> "refused"]

\* The configuration was accepted; the tailer's NewTicker panics unless the
\* interval is positive.
Accepted(c, mode) ==
    [at |-> IF c.poll > 0 THEN "running" ELSE "panicked", mode |-> mode, config |-> c,
     given |-> bridge.given, penv |-> bridge.penv]

\* main, first step: loadDotEnv changes the environment of the process.
Start ==
    /\ bridge = Stopped /\ edits < MaxEdits
    /\ edits' = edits + 1
    /\ bridge' = Loading(env, LoadDotEnv(dotenv, env), fresh)
    /\ UNCHANGED <<env, fileVars, wizardVars, snapshot>>

\* writeEffective: failing is not fatal.
WriteEffective(c, mode, warnings) ==
    \/ snapshot' = RenderEffective(c, mode, warnings)
    \/ WriteMayFail /\ UNCHANGED snapshot

\* finish: validate, write the snapshot, valid or not, and return
Finish(c, mode, warnings) ==
    /\ WriteEffective(c, mode, warnings)
    /\ bridge' = IF Validate(c) THEN Accepted(c, mode) ELSE Refused

\* Load returns an error before finish: the file or a variable cannot be parsed.
LoadFails ==
    /\ IF EnvMode(bridge.penv, yaml) THEN Malformed(bridge.penv) ELSE yaml = Unreadable
    /\ bridge' = Refused
    /\ UNCHANGED snapshot

LoadFile ==
    /\ ~EnvMode(bridge.penv, yaml) /\ yaml # Unreadable
    /\ Finish(FromFile(yaml, bridge.penv), ModeLine(bridge.penv, yaml), Warnings(bridge.penv, yaml))

LoadEnv ==
    /\ EnvMode(bridge.penv, yaml) /\ ~Malformed(bridge.penv)
    /\ Finish(FromEnv(bridge.penv), ModeLine(bridge.penv, yaml), Warnings(bridge.penv, yaml))

\* main, second step: Load
Load ==
    /\ bridge.at = "loading"
    /\ LoadFails \/ LoadFile \/ LoadEnv
    /\ UNCHANGED <<hostVars, fileVars, wizardVars>>

\* The process ends, by itself or stopped by the host.
Exit ==
    /\ bridge # Stopped
    /\ bridge' = Stopped
    /\ UNCHANGED <<hostVars, fileVars, wizardVars, snapshot>>

(***************************************************************************)
(* The host                                                                *)
(***************************************************************************)
Edit == edits < MaxEdits /\ edits' = edits + 1

\* A variable is set or unset; the bridge sees it when it is started again.
SetVariable ==
    /\ Edit
    /\ \E v \in Vars : \E x \in Settings[v] \ {env[v]} : env' = [env EXCEPT ![v] = x]
    /\ UNCHANGED <<fileVars, wizardVars, bridgeVars>>

EditFile ==
    /\ Edit
    /\ yaml' \in Files \ {yaml}
    /\ fresh' = fresh \ {"yaml"}
    /\ UNCHANGED <<env, dotenv, wizardVars, bridgeVars>>

EditEnvFile ==
    /\ Edit
    /\ dotenv' \in EnvFiles \ {dotenv}
    /\ fresh' = fresh \ {"env"}
    /\ UNCHANGED <<env, yaml, wizardVars, bridgeVars>>

(***************************************************************************)
(* The wizard                                                              *)
(***************************************************************************)
Idle == [at |-> "idle"]
Writing(file, a) == [at |-> file, answers |-> a]

\* The answers that are checked at once: a token that connects, a guild the bot
\* is in, and one of its text channels.  All else is free text.
Connect(a) == a.token \in Connects
PickGuild(a) == a.guild \in DOMAIN TextChannels
PickChannel(a) == a.channel \in TextChannels[a.guild]

Transport(a) == IF a.transport = "sftp" THEN "sftp" ELSE "local"
OverSFTP(a) == Transport(a) = "sftp"

\* The prompts have defaults, and those of SFTP are asked of an SFTP host only.
Events(a) ==
    Default(a.events, IF OverSFTP(a) THEN "events.jsonl" ELSE "${HOME}/events.jsonl")
Address(a) == Default(a.address, "127.0.0.1:27015")
Host(a) == IF OverSFTP(a) THEN a.host ELSE ""
User(a) == IF OverSFTP(a) THEN a.user ELSE ""
KnownHosts(a) == IF OverSFTP(a) THEN a.knownHosts ELSE ""
Key(a) == IF OverSFTP(a) /\ a.useKey THEN a.key ELSE ""

\* The template has these texts without quotes, and quotes all others.
Unquoted(a) == {Events(a), Address(a), Host(a), User(a), KnownHosts(a), Key(a)}

\* yaml.Unmarshal of a text without quotes, in a file that can be parsed
Scalar(text) == IF text \in DOMAIN Scalars THEN CHOOSE x \in Scalars[text] : TRUE ELSE text
Breaks(text) == text \in DOMAIN Scalars /\ Scalars[text] = {}

\* The file of an answer, as Load reads it, which names this variable for the password
FileOf(a, passwordEnv) ==
    [kind |-> "yaml", transport |-> Transport(a), poll |-> IF OverSFTP(a) THEN 2 ELSE 1,
     events |-> Scalar(Events(a)), address |-> Scalar(Address(a)),
     host |-> Scalar(Host(a)), user |-> Scalar(User(a)), key |-> Scalar(Key(a)),
     passwordEnv |-> passwordEnv,
     rconEnv |-> "FACTORIO_RCON_PASSWORD", tokenEnv |-> "DISCORD_BOT_TOKEN",
     control |-> FALSE, controlEnv |-> "", listen |-> "",
     routes |-> <<[source |-> "*", channel |-> a.channel]>>,
     commands |-> <<Command("!players", "/players online", FALSE, FALSE)>>, stray |-> {}]

\* Faulty variant: with a password, the file does not name its variable.
RenderWithoutPasswordEnv(a) ==
    IF \E text \in Unquoted(a) : Breaks(text) THEN Unreadable ELSE FileOf(a, "")

\* RenderBridgeYAML, then the parser: one text can spoil the file.
RenderBridgeYAML(a) ==
    IF \E text \in Unquoted(a) : Breaks(text) THEN Unreadable
    ELSE FileOf(a, IF OverSFTP(a) /\ Key(a) = "" THEN "SFTP_PASSWORD" ELSE "")

Line(key, value) == [key |-> key, value |-> value]

\* The lines of .env: the password of SFTP only if there is one.
EnvContent(a) ==
    <<Line("DISCORD_BOT_TOKEN", a.token), Line("FACTORIO_RCON_PASSWORD", a.rconPassword)>>
    \o (IF OverSFTP(a) /\ ~a.useKey /\ a.sftpPassword # ""
        THEN <<Line("SFTP_PASSWORD", a.sftpPassword)>> ELSE <<>>)

\* The wizard is run and its questions are answered; the token is asked only if the
\* environment has none.
Ask ==
    /\ wizard.at = "idle" /\ Edit
    /\ \E told \in Answers :
           LET a == [told EXCEPT !.token = Default(Text(env, "DISCORD_BOT_TOKEN"), told.token)]
           IN Connect(a) /\ PickGuild(a) /\ PickChannel(a) /\ wizard' = Writing("yaml", a)
    /\ fresh' = {}
    /\ bridge' = IF bridge.at = "loading" THEN Loading(bridge.given, bridge.penv, {}) ELSE bridge
    /\ UNCHANGED <<env, dotenv, yaml, snapshot>>

\* writeFile: a file that is there is overwritten or kept, as the host likes.
WriteConfig ==
    /\ wizard.at = "yaml"
    /\ wizard' = Writing("env", wizard.answers)
    /\ \/ yaml' = RenderBridgeYAML(wizard.answers) /\ fresh' = fresh \cup {"yaml"}
       \/ yaml # NoFile /\ UNCHANGED <<yaml, fresh>>
    /\ UNCHANGED <<hostVars, dotenv, bridgeVars>>

WriteEnv ==
    /\ wizard.at = "env"
    /\ wizard' = Writing("idle", wizard.answers)
    /\ \/ dotenv' = EnvContent(wizard.answers) /\ fresh' = fresh \cup {"env"}
       \/ dotenv # <<>> /\ UNCHANGED <<dotenv, fresh>>
    /\ UNCHANGED <<hostVars, yaml, bridgeVars>>

\* A write fails, or the input ends at a question: the wizard exits.
Abandon ==
    /\ wizard.at # "idle"
    /\ wizard' = Idle
    /\ UNCHANGED <<hostVars, fileVars, bridgeVars>>

-----------------------------------------------------------------------------

\* A host who has set some variables, and perhaps written files.
Init ==
    /\ env \in Environments
    /\ dotenv \in EnvFiles /\ yaml \in Files
    /\ snapshot = NoSnapshot
    /\ wizard = Idle /\ fresh = {}
    /\ bridge = Stopped /\ edits = 0

Next ==
    \/ Start \/ Load \/ Exit
    \/ SetVariable \/ EditFile \/ EditEnvFile
    \/ Ask \/ WriteConfig \/ WriteEnv \/ Abandon

Spec == Init /\ [][Next]_vars

-----------------------------------------------------------------------------
(***************************************************************************)
(* Properties                                                              *)
(***************************************************************************)
\* Types: variables hold what the host may set them to.
TypeOK ==
    /\ DOMAIN env = Vars /\ \A v \in Vars : env[v] \in Settings[v]
    /\ yaml.kind \in {"none", "unreadable", "yaml"}
    /\ wizard.at \in {"idle", "yaml", "env"} /\ fresh \subseteq {"yaml", "env"}
    /\ bridge.at \in {"stopped", "loading", "running", "refused", "panicked"}
    /\ edits \in 0..MaxEdits

\* The answers leave nothing out that the bridge cannot do without, neither by
\* themselves nor when a reference is expanded or a password loses its quotes, and
\* those that the template does not quote are plain texts in YAML.
Complete(a) ==
    /\ Unquote(a.rconPassword) # ""
    /\ OverSFTP(a) => a.host # "" /\ a.user # ""
                      /\ IF a.useKey THEN a.key # "" ELSE Unquote(a.sftpPassword) # ""
    /\ {Events(a), Address(a), Key(a)} \cap DOMAIN References = {}
    /\ Unquoted(a) \cap DOMAIN Scalars = {}

\* The environment leaves the wizard's files in force: no ODB_CONFIG=none, and
\* no variable of .env that is set to nothing, which hides the line.
LeavesSetupInForce(e) ==
    /\ ~Forced(e)
    /\ {v \in {"DISCORD_BOT_TOKEN", "FACTORIO_RCON_PASSWORD", "SFTP_PASSWORD"} : e[v] = {""}} = {}

\* What the wizard wrote starts (src/wizard/render.go:52, "a minimal, valid
\* bridge.yaml"): if both files are as the wizard's last run wrote them, and its
\* answers were complete, then a bridge that read the one and the other runs.
SetupStarts ==
    [][/\ bridge.at = "loading" /\ bridge'.at \notin {"loading", "stopped"}
       /\ bridge.setup = {"yaml", "env"} /\ fresh = {"yaml", "env"}
       /\ Complete(wizard.answers)
       /\ LeavesSetupInForce(bridge.given)
       => bridge'.at = "running"]_vars

SecretVar ==
    [token |-> "DISCORD_BOT_TOKEN", rconPassword |-> "FACTORIO_RCON_PASSWORD",
     controlToken |-> "BRIDGE_CONTROL_TOKEN", sftpPassword |-> "SFTP_PASSWORD"]

\* A variable that the bridge was given wins over .env (main.go:45-47), in both
\* modes: no secret of a running bridge is another than the given one, and
\* ODB_CONFIG decides about the mode.
RealEnvironmentWins ==
    bridge.at = "running" =>
        /\ \A f \in SecretFields :
              bridge.given[SecretVar[f]] # {} =>
                  bridge.config[f] \in bridge.given[SecretVar[f]] \cup {""}
        /\ bridge.given["ODB_CONFIG"] # {} =>
              (Forced(bridge.given)
               <=> bridge.mode \notin {"file mode", "env-var mode, no file"})

\* main: the command of a trigger is the last one in the list.
CmdMap(commands) ==
    [t \in {commands[i].trigger : i \in DOMAIN commands} |->
        commands[CHOOSE i \in DOMAIN commands :
            /\ commands[i].trigger = t
            /\ \A j \in DOMAIN commands : commands[j].trigger = t => j <= i]]

\* In env-var mode the host's command is in force for every trigger that
\* ODB_COMMANDS names, and the built-in one, with its gate, for the others.
OverridesHold ==
    bridge.at = "running" /\ bridge.mode # "file mode" =>
        LET own == CmdMap(CommandsFromEnv(bridge.penv))
            builtIn == IF Text(bridge.penv, "ODB_DEFAULT_COMMANDS") = "false"
                       THEN <<>> ELSE CmdMap(DefaultCommands)
        IN CmdMap(bridge.config.commands) =
               [t \in DOMAIN own \cup DOMAIN builtIn |->
                   IF t \in DOMAIN own THEN own[t] ELSE builtIn[t]]

=============================================================================
