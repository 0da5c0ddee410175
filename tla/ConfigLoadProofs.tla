--------------------------- MODULE ConfigLoadProofs ---------------------------
(***************************************************************************)
(* The environment the bridge was given wins, what the wizard wrote starts, *)
(* and the host's commands hold: for every host, file and answer.           *)
(***************************************************************************)
EXTENDS ConfigLoad, SequenceTheorems, WellFoundedInduction, TLAPS

Ended == {"running", "panicked", "refused"}

LEMMA AcceptedFields ==
    ASSUME NEW c, NEW mode
    PROVE  /\ Accepted(c, mode).at \in {"running", "panicked"}
           /\ Accepted(c, mode).config = c
           /\ Accepted(c, mode).mode = mode
BY DEF Accepted

LEMMA FinishTypes ==
    ASSUME NEW c, NEW mode, NEW warnings, Finish(c, mode, warnings)
    PROVE  bridge'.at \in Ended
<1>1. CASE Validate(c)
  BY <1>1, AcceptedFields DEF Finish, Ended
<1>2. CASE ~Validate(c)
  BY <1>2 DEF Finish, Refused, Ended
<1> QED BY <1>1, <1>2

LEMMA InitTypes == Init => TypeOK
<1> SUFFICES ASSUME Init PROVE TypeOK
  OBVIOUS
<1>1. DOMAIN env = Vars /\ \A v \in Vars : env[v] \in Settings[v]
  BY EnvironmentAssumption DEF Init, Vars
<1>2. yaml.kind \in {"none", "unreadable", "yaml"}
  BY FilesAssumption DEF Init
<1>3. bridge.at = "stopped" /\ wizard.at = "idle"
  BY DEF Init, Stopped, Idle
<1>4. fresh \subseteq {"yaml", "env"} /\ edits \in 0..MaxEdits
  BY BoundAssumption DEF Init
<1> QED BY <1>1, <1>2, <1>3, <1>4 DEF TypeOK

LEMMA StepTypes == TypeOK /\ [Next]_vars => TypeOK'
<1> SUFFICES ASSUME TypeOK, [Next]_vars PROVE TypeOK'
  OBVIOUS
<1> USE BoundAssumption
<1>1. CASE Start
  <2>1. bridge'.at = "loading" BY <1>1 DEF Start, Loading
  <2> QED BY <1>1, <2>1 DEF Start, TypeOK, fileVars, wizardVars
<1>2. CASE Load
  <2>1. bridge'.at \in Ended
    <3>1. CASE LoadFails BY <3>1 DEF LoadFails, Refused, Ended
    <3>2. CASE LoadFile BY <3>2, FinishTypes DEF LoadFile
    <3>3. CASE LoadEnv BY <3>3, FinishTypes DEF LoadEnv
    <3> QED BY <1>2, <3>1, <3>2, <3>3 DEF Load
  <2>2. UNCHANGED <<env, edits, yaml, fresh, wizard>>
    BY <1>2 DEF Load, hostVars, fileVars, wizardVars
  <2> QED BY <2>1, <2>2 DEF TypeOK, Ended
<1>3. CASE Exit
  BY <1>3 DEF Exit, TypeOK, Stopped, hostVars, fileVars, wizardVars
<1>4. CASE SetVariable
  <2>1. PICK v \in Vars : \E x \in Settings[v] : env' = [env EXCEPT ![v] = x]
    BY <1>4 DEF SetVariable
  <2>2. DOMAIN env' = Vars /\ \A w \in Vars : env'[w] \in Settings[w]
    BY <2>1 DEF TypeOK
  <2>3. edits' \in 0..MaxEdits BY <1>4 DEF SetVariable, Edit, TypeOK
  <2>4. UNCHANGED <<yaml, fresh, wizard, bridge>>
    BY <1>4 DEF SetVariable, fileVars, wizardVars, bridgeVars
  <2> QED BY <2>2, <2>3, <2>4 DEF TypeOK, Vars
<1>5. CASE EditFile
  BY <1>5, FilesAssumption DEF EditFile, Edit, TypeOK, wizardVars, bridgeVars
<1>6. CASE EditEnvFile
  BY <1>6 DEF EditEnvFile, Edit, TypeOK, wizardVars, bridgeVars
<1>7. CASE Ask
  <2>1. wizard'.at = "yaml" BY <1>7 DEF Ask, Writing
  <2>2. bridge'.at = bridge.at BY <1>7 DEF Ask, Loading
  <2> QED BY <1>7, <2>1, <2>2 DEF Ask, Edit, TypeOK
<1>8. CASE WriteConfig
  <2>1. wizard'.at = "env" BY <1>8 DEF WriteConfig, Writing
  <2>2. RenderBridgeYAML(wizard.answers).kind \in {"unreadable", "yaml"}
    BY DEF RenderBridgeYAML, FileOf, Unreadable
  <2>3. yaml'.kind \in {"none", "unreadable", "yaml"} /\ fresh' \subseteq {"yaml", "env"}
    BY <1>8, <2>2 DEF WriteConfig, TypeOK
  <2> QED BY <1>8, <2>1, <2>3 DEF WriteConfig, TypeOK, hostVars, bridgeVars
<1>9. CASE WriteEnv
  <2>1. wizard'.at = "idle" BY <1>9 DEF WriteEnv, Writing
  <2>2. fresh' \subseteq {"yaml", "env"} BY <1>9 DEF WriteEnv, TypeOK
  <2> QED BY <1>9, <2>1, <2>2 DEF WriteEnv, TypeOK, hostVars, bridgeVars
<1>10. CASE Abandon
  BY <1>10 DEF Abandon, Idle, TypeOK, hostVars, fileVars, bridgeVars
<1>11. CASE UNCHANGED vars
  BY <1>11 DEF vars, hostVars, fileVars, wizardVars, bridgeVars, TypeOK, Vars
<1> QED BY <1>1, <1>2, <1>3, <1>4, <1>5, <1>6, <1>7, <1>8, <1>9, <1>10, <1>11 DEF Next

\* The types hold: what the host sets a variable to is a choice of that variable,
\* and whatever the files hold, the bridge is in one of its states.
THEOREM TypeCorrect == Spec => []TypeOK
  BY InitTypes, StepTypes, PTL DEF Spec

-----------------------------------------------------------------------------
(* The given environment.                                                   *)

\* A file that names the variables of its secrets names the usual ones.
NamesUsualSecrets(y) ==
    /\ y.tokenEnv \in {"DISCORD_BOT_TOKEN", ""}
    /\ y.rconEnv \in {"FACTORIO_RCON_PASSWORD", ""}
    /\ y.controlEnv \in {"BRIDGE_CONTROL_TOKEN", ""}
    /\ y.passwordEnv \in {"SFTP_PASSWORD", ""}

Readable(y) == y \notin {NoFile, Unreadable}

FilesNameUsualSecrets == \A y \in Files : Readable(y) => NamesUsualSecrets(y)

\* .env has changed no variable that the bridge was given.
GivenWins ==
    bridge.at = "loading" =>
        \A v \in Vars : bridge.given[v] # {} => bridge.penv[v] = bridge.given[v]

GivenInv ==
    /\ GivenWins
    /\ Readable(yaml) => NamesUsualSecrets(yaml)
    /\ RealEnvironmentWins

\* The fields of a configuration that a bridge goes on with.
LEMMA GivenFields ==
    ASSUME NEW c, NEW mode
    PROVE  /\ Accepted(c, mode).given = bridge.given
           /\ Accepted(c, mode).at = IF c.poll > 0 THEN "running" ELSE "panicked"
BY DEF Accepted

\* A set with an element holds what os.Getenv returns of it.
LEMMA TextIsOfVariable ==
    ASSUME NEW e, NEW v, e[v] # {}
    PROVE  Text(e, v) \in e[v]
BY DEF Text

\* loadDotEnv leaves alone what is set.
LEMMA DotEnvYields ==
    ASSUME NEW lines, NEW e, NEW v \in Vars, e[v] # {}
    PROVE  LoadDotEnv(lines, e)[v] = e[v]
BY DEF LoadDotEnv

\* Each secret has a variable of its own.
LEMMA SecretVariables ==
    /\ SecretVar["token"] = "DISCORD_BOT_TOKEN"
    /\ SecretVar["rconPassword"] = "FACTORIO_RCON_PASSWORD"
    /\ SecretVar["controlToken"] = "BRIDGE_CONTROL_TOKEN"
    /\ SecretVar["sftpPassword"] = "SFTP_PASSWORD"
BY DEF SecretVar

SecretsOf(c, e) ==
    \A f \in SecretFields :
        e[SecretVar[f]] # {} => c[f] \in e[SecretVar[f]] \cup {""}

\* The secrets of a configuration are of the variables that the bridge was given.
LEMMA SecretsFromFile ==
    ASSUME GivenWins, bridge.at = "loading", NEW y, NamesUsualSecrets(y)
    PROVE  SecretsOf(FromFile(y, bridge.penv), bridge.given)
<1> DEFINE c == FromFile(y, bridge.penv)
<1>1. ASSUME NEW v \in {"DISCORD_BOT_TOKEN", "FACTORIO_RCON_PASSWORD", "BRIDGE_CONTROL_TOKEN",
                        "SFTP_PASSWORD"},
             NEW name \in {v, ""}, bridge.given[v] # {}
      PROVE  Secret(bridge.penv, name) \in bridge.given[v] \cup {""}
  <2>1. v \in Vars /\ "" \notin Vars BY VariablesAssumption DEF Vars
  <2>2. bridge.penv[v] = bridge.given[v] BY <1>1, <2>1 DEF GivenWins
  <2>3. Text(bridge.penv, v) \in bridge.given[v] BY <1>1, <2>2, TextIsOfVariable
  <2> QED BY <2>1, <2>3 DEF Secret
<1>2. /\ c.token = Secret(bridge.penv, y.tokenEnv)
      /\ c.rconPassword = Secret(bridge.penv, y.rconEnv)
      /\ c.controlToken = Secret(bridge.penv, y.controlEnv)
      /\ c.sftpPassword = Secret(bridge.penv, y.passwordEnv)
  BY DEF FromFile
<1> HIDE DEF c
<1> SUFFICES ASSUME NEW f \in SecretFields, bridge.given[SecretVar[f]] # {}
             PROVE  c[f] \in bridge.given[SecretVar[f]] \cup {""}
  BY DEF SecretsOf, c
<1>3. CASE f = "token" BY <1>1, <1>2, <1>3, SecretVariables DEF NamesUsualSecrets
<1>4. CASE f = "rconPassword" BY <1>1, <1>2, <1>4, SecretVariables DEF NamesUsualSecrets
<1>5. CASE f = "controlToken" BY <1>1, <1>2, <1>5, SecretVariables DEF NamesUsualSecrets
<1>6. CASE f = "sftpPassword" BY <1>1, <1>2, <1>6, SecretVariables DEF NamesUsualSecrets
<1> QED BY <1>3, <1>4, <1>5, <1>6 DEF SecretFields

LEMMA SecretsFromEnv ==
    ASSUME GivenWins, bridge.at = "loading"
    PROVE  SecretsOf(FromEnv(bridge.penv), bridge.given)
<1> DEFINE c == FromEnv(bridge.penv)
<1>1. ASSUME NEW v \in {"DISCORD_BOT_TOKEN", "FACTORIO_RCON_PASSWORD", "BRIDGE_CONTROL_TOKEN",
                        "SFTP_PASSWORD"},
             bridge.given[v] # {}
      PROVE  Text(bridge.penv, v) \in bridge.given[v]
  <2>1. bridge.penv[v] = bridge.given[v]
    BY <1>1, VariablesAssumption DEF GivenWins, Vars
  <2> QED BY <1>1, <2>1, TextIsOfVariable
<1>2. /\ c.token = Text(bridge.penv, "DISCORD_BOT_TOKEN")
      /\ c.rconPassword = Text(bridge.penv, "FACTORIO_RCON_PASSWORD")
      /\ c.controlToken = Text(bridge.penv, "BRIDGE_CONTROL_TOKEN")
      /\ c.sftpPassword = Text(bridge.penv, "SFTP_PASSWORD")
  BY DEF FromEnv
<1> HIDE DEF c
<1> SUFFICES ASSUME NEW f \in SecretFields, bridge.given[SecretVar[f]] # {}
             PROVE  c[f] \in bridge.given[SecretVar[f]]
  BY DEF SecretsOf, c
<1>3. CASE f = "token" BY <1>1, <1>2, <1>3, SecretVariables
<1>4. CASE f = "rconPassword" BY <1>1, <1>2, <1>4, SecretVariables
<1>5. CASE f = "controlToken" BY <1>1, <1>2, <1>5, SecretVariables
<1>6. CASE f = "sftpPassword" BY <1>1, <1>2, <1>6, SecretVariables
<1> QED BY <1>3, <1>4, <1>5, <1>6 DEF SecretFields

\* The mode that is written down tells whether ODB_CONFIG=none.
LEMMA ModeTellsForced ==
    ASSUME NEW e, NEW y
    PROVE  Forced(e) <=> ModeLine(e, y) \notin {"file mode", "env-var mode, no file"}
BY DEF ModeLine, EnvMode

\* Load, from a file or from the environment, keeps what the bridge was given.
LEMMA LoadKeepsGiven ==
    ASSUME GivenInv, bridge.at = "loading", NEW c, NEW warnings,
           SecretsOf(c, bridge.given),
           Finish(c, ModeLine(bridge.penv, yaml), warnings)
    PROVE  RealEnvironmentWins' /\ bridge'.at # "loading"
<1> DEFINE mode == ModeLine(bridge.penv, yaml)
<1>1. CASE Validate(c)
  <2>1. /\ bridge'.at \in {"running", "panicked"} /\ bridge'.config = c
        /\ bridge'.mode = mode /\ bridge'.given = bridge.given
    <3>1. bridge' = Accepted(c, mode) BY <1>1 DEF Finish
    <3>2. Accepted(c, mode).given = bridge.given BY GivenFields
    <3>3. /\ Accepted(c, mode).at \in {"running", "panicked"}
          /\ Accepted(c, mode).config = c /\ Accepted(c, mode).mode = mode
      BY AcceptedFields, Zenon
    <3> QED BY <3>1, <3>2, <3>3, Zenon
  <2>2. \A f \in SecretFields :
            bridge'.given[SecretVar[f]] # {} =>
                bridge'.config[f] \in bridge'.given[SecretVar[f]] \cup {""}
    BY <2>1 DEF SecretsOf
  <2>3. bridge.given["ODB_CONFIG"] # {} => bridge.penv["ODB_CONFIG"] = bridge.given["ODB_CONFIG"]
    BY VariablesAssumption DEF GivenInv, GivenWins, Vars
  <2>4. bridge.given["ODB_CONFIG"] # {} => (Forced(bridge.given) <=> Forced(bridge.penv))
    BY <2>3 DEF Forced, Text
  <2>5. Forced(bridge.penv) <=> mode \notin {"file mode", "env-var mode, no file"}
    BY ModeTellsForced
  <2>6. bridge'.given["ODB_CONFIG"] # {} =>
            (Forced(bridge'.given)
             <=> bridge'.mode \notin {"file mode", "env-var mode, no file"})
    BY <2>1, <2>4, <2>5
  <2>7. Forced(bridge'.given) = Forced(bridge.given)' BY DEF Forced, Text
  <2> QED BY <2>1, <2>2, <2>6, <2>7 DEF RealEnvironmentWins, SecretFields, SecretVar
<1>2. CASE ~Validate(c)
  BY <1>2 DEF Finish, Refused, RealEnvironmentWins
<1> QED BY <1>1, <1>2

LEMMA InitGiven == FilesNameUsualSecrets /\ Init => GivenInv
BY DEF FilesNameUsualSecrets, Init, GivenInv, GivenWins, RealEnvironmentWins, Stopped

\* The files of the wizard name the usual variables.
LEMMA WizardNamesUsualSecrets ==
    ASSUME NEW a
    PROVE  Readable(RenderBridgeYAML(a)) => NamesUsualSecrets(RenderBridgeYAML(a))
BY DEF RenderBridgeYAML, FileOf, NamesUsualSecrets, Readable

LEMMA StepKeepsGiven ==
    ASSUME FilesNameUsualSecrets, GivenInv, [Next]_vars
    PROVE  GivenInv'
<1>1. (Readable(yaml) => NamesUsualSecrets(yaml))'
  <2>1. CASE UNCHANGED yaml
    BY <2>1 DEF GivenInv, Readable, NamesUsualSecrets, NoFile, Unreadable
  <2>2. CASE EditFile
    BY <2>2 DEF EditFile, FilesNameUsualSecrets, Readable, NamesUsualSecrets, NoFile, Unreadable
  <2>3. CASE WriteConfig
    <3>1. CASE yaml' = RenderBridgeYAML(wizard.answers)
      <4>1. Readable(yaml') => NamesUsualSecrets(yaml')
        BY <3>1, WizardNamesUsualSecrets
      <4> QED BY <4>1 DEF NamesUsualSecrets, Readable, NoFile, Unreadable
    <3> QED BY <2>1, <2>3, <3>1 DEF WriteConfig
  <2> QED
    BY <2>1, <2>2, <2>3
    DEF Next, Start, Load, Exit, SetVariable, EditEnvFile, Ask, WriteEnv, Abandon,
        vars, fileVars
<1>2. GivenWins' /\ RealEnvironmentWins'
  <2>1. CASE Start
    <3>1. /\ bridge'.at = "loading" /\ bridge'.given = env
          /\ bridge'.penv = LoadDotEnv(dotenv, env)
      BY <2>1 DEF Start, Loading
    <3>2. \A v \in Vars : env[v] # {} => LoadDotEnv(dotenv, env)[v] = env[v]
      BY DotEnvYields
    <3> QED BY <3>1, <3>2 DEF GivenWins, RealEnvironmentWins, Vars
  <2>2. CASE Load
    <3>1. bridge.at = "loading" /\ GivenWins
      BY <2>2 DEF Load, GivenInv
    <3>2. CASE LoadFails
      BY <3>2 DEF LoadFails, Refused, GivenWins, RealEnvironmentWins
    <3>3. CASE LoadFile
      <4>1. NamesUsualSecrets(yaml)
        BY <3>3 DEF LoadFile, GivenInv, Readable, EnvMode
      <4> QED BY <3>1, <3>3, <4>1, SecretsFromFile, LoadKeepsGiven DEF LoadFile, GivenWins
    <3>4. CASE LoadEnv
      BY <3>1, <3>4, SecretsFromEnv, LoadKeepsGiven DEF LoadEnv, GivenWins
    <3> QED BY <2>2, <3>2, <3>3, <3>4 DEF Load
  <2>3. CASE Exit
    BY <2>3 DEF Exit, Stopped, GivenWins, RealEnvironmentWins
  <2>4. CASE Ask /\ bridge.at = "loading"
    BY <2>4 DEF Ask, Loading, GivenInv, GivenWins, RealEnvironmentWins, Vars
  <2>5. CASE UNCHANGED bridge
    BY <2>5 DEF GivenInv, GivenWins, RealEnvironmentWins, Vars, SecretFields, SecretVar,
                Forced, Text
  <2> QED
    BY <2>1, <2>2, <2>3, <2>4, <2>5
    DEF Next, SetVariable, EditFile, EditEnvFile, Ask, WriteConfig, WriteEnv, Abandon,
        vars, bridgeVars
<1> QED BY <1>1, <1>2 DEF GivenInv

\* Whatever .env and the files hold, the variables that the bridge was given win
\* (loadDotEnv, main.go:45-47), if no hand-written bridge.yaml gives a secret the
\* name of another's variable.
THEOREM GivenEnvironmentWins ==
    ASSUME FilesNameUsualSecrets PROVE Spec => []RealEnvironmentWins
<1>1. Init => GivenInv BY InitGiven
<1>2. GivenInv /\ [Next]_vars => GivenInv' BY StepKeepsGiven
<1>3. GivenInv => RealEnvironmentWins BY DEF GivenInv
<1> QED BY <1>1, <1>2, <1>3, PTL DEF Spec

-----------------------------------------------------------------------------
(* The wizard's files.                                                      *)

Both == {"yaml", "env"}

\* What the wizard checks at once.
Checked(a) == Connect(a) /\ PickGuild(a) /\ PickChannel(a)

\* The files are written in this order, from the answers of the run that writes.
WritesInOrder ==
    /\ wizard.at # "idle" => Checked(wizard.answers) /\ "env" \notin fresh
    /\ wizard.at = "yaml" => fresh = {}
    /\ wizard.at = "env" /\ "yaml" \in fresh => yaml = RenderBridgeYAML(wizard.answers)

\* When both are as its last run wrote them, they hold the answers.
FreshFiles ==
    fresh = Both =>
        /\ wizard.at = "idle" /\ Checked(wizard.answers)
        /\ yaml = RenderBridgeYAML(wizard.answers)
        /\ dotenv = EnvContent(wizard.answers)

\* A bridge that read such a .env, since when the wizard has not run.
FreshStart ==
    bridge.at = "loading" =>
        /\ \A v \in Vars : bridge.given[v] \in Settings[v]
        /\ bridge.setup = Both =>
              /\ wizard.at = "idle"
              /\ fresh = Both => bridge.penv = LoadDotEnv(dotenv, bridge.given)

SetupInv == TypeOK /\ WritesInOrder /\ FreshFiles /\ FreshStart

LEMMA InitSetup == Init => SetupInv
<1> SUFFICES ASSUME Init PROVE SetupInv
  OBVIOUS
<1>1. TypeOK BY InitTypes
<1>2. wizard.at = "idle" /\ bridge.at = "stopped" /\ fresh = {}
  BY DEF Init, Idle, Stopped
<1> QED BY <1>1, <1>2 DEF SetupInv, WritesInOrder, FreshFiles, FreshStart, Both

\* What the wizard does keeps its files in step with its answers.
LEMMA WizardKeepsFiles ==
    ASSUME SetupInv, Ask \/ WriteConfig \/ WriteEnv \/ Abandon
    PROVE  WritesInOrder' /\ FreshFiles'
<1> USE DEF SetupInv, WritesInOrder, FreshFiles, Both
<1>1. CASE Ask
  <2>1. PICK a : Checked(a) /\ wizard' = Writing("yaml", a)
    BY <1>1, Zenon DEF Ask, Checked
  <2>2. wizard'.at = "yaml" /\ wizard'.answers = a /\ fresh' = {}
    BY <1>1, <2>1 DEF Ask, Writing
  <2>3. Checked(wizard'.answers) BY <2>1, <2>2
  <2> QED BY <2>2, <2>3 DEF Checked, Connect, PickGuild, PickChannel
<1>2. CASE WriteConfig
  <2>1. /\ wizard'.at = "env" /\ wizard'.answers = wizard.answers
        /\ wizard.at = "yaml" /\ fresh = {}
    BY <1>2 DEF WriteConfig, Writing
  <2>2. /\ fresh' \in {{"yaml"}, {}}
        /\ fresh' = {"yaml"} => yaml' = RenderBridgeYAML(wizard.answers)
    BY <1>2, <2>1 DEF WriteConfig
  <2>3. Checked(wizard.answers) BY <2>1
  <2>4. Checked(wizard'.answers) BY <2>1, <2>3
  <2>5. "yaml" \in fresh' => yaml' = RenderBridgeYAML(wizard'.answers)
    BY <2>1, <2>2
  <2>6. RenderBridgeYAML(wizard'.answers) = RenderBridgeYAML(wizard.answers)' OBVIOUS
  <2> QED BY <2>1, <2>2, <2>4, <2>5, <2>6 DEF Checked, Connect, PickGuild, PickChannel
<1>3. CASE WriteEnv
  <2>1. /\ wizard'.at = "idle" /\ wizard'.answers = wizard.answers /\ yaml' = yaml
        /\ wizard.at = "env" /\ "env" \notin fresh
    BY <1>3 DEF WriteEnv, Writing
  <2>2. fresh' = Both => /\ dotenv' = EnvContent(wizard.answers) /\ "yaml" \in fresh
    BY <1>3, <2>1 DEF WriteEnv
  <2>3. Checked(wizard'.answers) BY <2>1
  <2>4. fresh' = Both => /\ yaml' = RenderBridgeYAML(wizard'.answers)
                         /\ dotenv' = EnvContent(wizard'.answers)
    BY <2>1, <2>2
  <2> QED BY <2>1, <2>3, <2>4 DEF Checked, Connect, PickGuild, PickChannel
<1>4. CASE Abandon
  <2>1. wizard'.at = "idle" /\ "env" \notin fresh' BY <1>4 DEF Abandon, Idle, fileVars
  <2> QED BY <2>1
<1> QED BY <1>1, <1>2, <1>3, <1>4

LEMMA StepKeepsSetup ==
    ASSUME SetupInv, [Next]_vars
    PROVE  SetupInv'
<1>t. TypeOK' BY StepTypes DEF SetupInv
<1>0. ASSUME UNCHANGED wizard, fresh' = Both => UNCHANGED <<fresh, yaml, dotenv>>,
             fresh' \subseteq fresh, fresh' = fresh => UNCHANGED yaml,
             "yaml" \in fresh' => UNCHANGED yaml
      PROVE  WritesInOrder' /\ FreshFiles'
  BY <1>0 DEF SetupInv, WritesInOrder, FreshFiles, Checked, Connect, PickGuild, PickChannel,
              Both
<1>1. CASE Start
  <2>1. UNCHANGED <<wizard, fresh, yaml, dotenv>>
    BY <1>1 DEF Start, fileVars, wizardVars
  <2>2. /\ bridge'.given = env /\ bridge'.setup = fresh
        /\ bridge'.penv = LoadDotEnv(dotenv, env)
    BY <1>1 DEF Start, Loading
  <2>3. FreshStart'
    <3>1. \A v \in Vars : bridge'.given[v] \in Settings[v]
      BY <2>2 DEF SetupInv, TypeOK
    <3>2. fresh = Both => wizard'.at = "idle"
      BY <2>1 DEF SetupInv, FreshFiles
    <3>3. bridge'.penv = LoadDotEnv(dotenv', bridge'.given)
      BY <2>1, <2>2
    <3>4. LoadDotEnv(dotenv', bridge'.given) = LoadDotEnv(dotenv, bridge.given)' OBVIOUS
    <3> QED BY <2>2, <3>1, <3>2, <3>3, <3>4 DEF FreshStart, Vars, Both
  <2> QED BY <1>t, <1>0, <2>1, <2>3 DEF SetupInv
<1>2. CASE Load \/ Exit
  <2>1. UNCHANGED <<wizard, fresh, yaml, dotenv>>
    BY <1>2 DEF Load, Exit, fileVars, wizardVars
  <2>2. bridge'.at # "loading"
    <3>1. CASE Exit BY <3>1 DEF Exit, Stopped
    <3>2. CASE LoadFails BY <3>2 DEF LoadFails, Refused
    <3>3. CASE LoadFile BY <3>3, FinishTypes DEF LoadFile, Ended
    <3>4. CASE LoadEnv BY <3>4, FinishTypes DEF LoadEnv, Ended
    <3> QED BY <1>2, <3>1, <3>2, <3>3, <3>4 DEF Load
  <2> QED BY <1>t, <1>0, <2>1, <2>2 DEF SetupInv, FreshStart
<1>3. CASE SetVariable \/ EditFile \/ EditEnvFile \/ UNCHANGED vars
  <2>1. /\ UNCHANGED <<wizard, bridge>> /\ fresh' \subseteq fresh
        /\ fresh' = Both => UNCHANGED <<fresh, yaml, dotenv>>
        /\ "yaml" \in fresh' => UNCHANGED yaml
    <3>1. CASE SetVariable \/ UNCHANGED vars
      BY <3>1 DEF SetVariable, vars, wizardVars, fileVars, bridgeVars
    <3>2. CASE EditFile
      BY <3>2 DEF EditFile, wizardVars, bridgeVars, Both
    <3>3. CASE EditEnvFile
      BY <3>3 DEF EditEnvFile, wizardVars, bridgeVars, Both
    <3> QED BY <1>3, <3>1, <3>2, <3>3
  <2>2. WritesInOrder' /\ FreshFiles'
    BY <2>1 DEF SetupInv, WritesInOrder, FreshFiles, Checked, Connect, PickGuild,
                PickChannel, Both
  <2>3. FreshStart'
    BY <2>1 DEF SetupInv, FreshStart, Vars, Both
  <2> QED BY <1>t, <2>2, <2>3 DEF SetupInv
<1>4. CASE Ask
  <2>1. FreshStart'
    BY <1>4 DEF Ask, Loading, SetupInv, FreshStart, Vars, Both
  <2> QED BY <1>t, <1>4, <2>1, WizardKeepsFiles DEF SetupInv
<1>5. CASE WriteConfig \/ WriteEnv \/ Abandon
  <2>1. bridge' = bridge /\ wizard.at # "idle"
    BY <1>5 DEF WriteConfig, WriteEnv, Abandon, bridgeVars
  <2>2. FreshStart'
    BY <2>1 DEF SetupInv, FreshStart, Vars
  <2> QED BY <1>t, <1>5, <2>2, WizardKeepsFiles DEF SetupInv
<1> QED BY <1>1, <1>2, <1>3, <1>4, <1>5 DEF Next

HasText(t) == t # ""

\* A line of .env gives its variable a value that is not empty, if the environment
\* does not; a variable without a line is what the environment says.
LEMMA ValueOfLine ==
    ASSUME NEW lines, NEW e, NEW v \in Vars, NEW n \in DOMAIN lines,
           \A i \in DOMAIN lines : lines[i].key = v <=> i = n,
           DOMAIN lines \subseteq Nat, v \notin Lists,
           HasText(Unquote(lines[n].value)), e[v] \in Settings[v], \A t \in e[v] : HasText(t)
    PROVE  HasText(Text(LoadDotEnv(lines, e), v))
<1>1. CASE e[v] # {}
  <2>1. LoadDotEnv(lines, e)[v] = e[v] BY <1>1, DotEnvYields
  <2>2. Text(LoadDotEnv(lines, e), v) \in e[v] BY <1>1, <2>1, TextIsOfVariable
  <2> QED BY <2>2
<1>2. CASE e[v] = {}
  <2> DEFINE found == {i \in DOMAIN lines : lines[i].key = v}
             first == CHOOSE i \in found : \A j \in found : i <= j
  <2>1. found = {n} BY Zenon
  <2>2. first = n
    <3>1. n \in Nat /\ n <= n OBVIOUS
    <3>2. \E i \in found : \A j \in found : i <= j BY <2>1, <3>1
    <3>3. first \in found BY <3>2
    <3> QED BY <2>1, <3>3
  <2>3. LoadDotEnv(lines, e)[v] = {Value(lines[n])}
    BY <1>2, <2>1, <2>2 DEF LoadDotEnv
  <2>4. Value(lines[n]) = Unquote(lines[n].value) BY DEF Value
  <2> QED BY <2>3, <2>4 DEF Text
<1> QED BY <1>1, <1>2

LEMMA NoLine ==
    ASSUME NEW lines, NEW e, NEW v \in Vars, \A i \in DOMAIN lines : lines[i].key # v
    PROVE  LoadDotEnv(lines, e)[v] = e[v]
<1>1. {i \in DOMAIN lines : lines[i].key = v} = {} OBVIOUS
<1> QED BY <1>1 DEF LoadDotEnv

\* Two entries and perhaps a third
LEMMA Appended ==
    ASSUME NEW x, NEW y, NEW z
    PROVE  /\ Len(<<x, y>> \o <<z>>) = 3 /\ (<<x, y>> \o <<z>>)[1] = x
           /\ (<<x, y>> \o <<z>>)[2] = y /\ (<<x, y>> \o <<z>>)[3] = z
           /\ DOMAIN (<<x, y>> \o <<z>>) = 1 .. 3
           /\ <<x, y>> \o <<>> = <<x, y>>
<1> DEFINE S == {x, y, z}
           s == <<x, y>>
           t == <<z>>
<1>1. s \in Seq(S) /\ t \in Seq(S) /\ Len(s) = 2 /\ Len(t) = 1 OBVIOUS
<1>2. s[1] = x /\ s[2] = y /\ t[1] = z OBVIOUS
<1>3. s \o <<>> = s BY <1>1, ConcatEmptySeq
<1> HIDE DEF s, t, S
<1>4. /\ s \o t \in Seq(S) /\ Len(s \o t) = 3
      /\ \A i \in 1 .. 3 : (s \o t)[i] = IF i <= 2 THEN s[i] ELSE t[i - 2]
  <2>1. /\ s \o t \in Seq(S) /\ Len(s \o t) = Len(s) + Len(t)
        /\ \A i \in 1 .. Len(s) + Len(t) :
              (s \o t)[i] = IF i <= Len(s) THEN s[i] ELSE t[i - Len(s)]
    BY <1>1, ConcatProperties
  <2>2. Len(s) + Len(t) = 3 BY <1>1
  <2> QED BY <1>1, <2>1, <2>2
<1>5. DOMAIN (s \o t) = 1 .. 3 BY <1>4, LenProperties
<1>6. (s \o t)[1] = x /\ (s \o t)[2] = y /\ (s \o t)[3] = z
  BY <1>2, <1>4
<1> QED BY <1>3, <1>4, <1>5, <1>6 DEF s, t

\* The lines of the wizard's .env, each with a variable of its own.
LEMMA LinesOfWizard ==
    ASSUME NEW a
    PROVE  /\ DOMAIN EnvContent(a) \in {1 .. 2, 1 .. 3}
           /\ EnvContent(a)[1] = Line("DISCORD_BOT_TOKEN", a.token)
           /\ EnvContent(a)[2] = Line("FACTORIO_RCON_PASSWORD", a.rconPassword)
           /\ 3 \in DOMAIN EnvContent(a) =>
                  EnvContent(a)[3] = Line("SFTP_PASSWORD", a.sftpPassword)
           /\ OverSFTP(a) /\ ~a.useKey /\ HasText(a.sftpPassword) => 3 \in DOMAIN EnvContent(a)
<1> DEFINE x == Line("DISCORD_BOT_TOKEN", a.token)
           y == Line("FACTORIO_RCON_PASSWORD", a.rconPassword)
           z == Line("SFTP_PASSWORD", a.sftpPassword)
           password == OverSFTP(a) /\ ~a.useKey /\ HasText(a.sftpPassword)
<1>1. EnvContent(a) = <<x, y>> \o (IF password THEN <<z>> ELSE <<>>)
  BY DEF EnvContent, HasText
<1> HIDE DEF x, y, z, password
<1>2. CASE password
  BY <1>1, <1>2, Appended DEF x, y, z
<1>3. CASE ~password
  <2>1. EnvContent(a) = <<x, y>>
    BY <1>1, <1>3, Appended
  <2>2. /\ DOMAIN EnvContent(a) = 1 .. 2 /\ EnvContent(a)[1] = x /\ EnvContent(a)[2] = y
    BY <2>1
  <2>3. 3 \notin DOMAIN EnvContent(a) BY <2>2
  <2> QED BY <1>3, <2>2, <2>3 DEF x, y, password
<1> QED BY <1>2, <1>3

LEMMA LineFields ==
    ASSUME NEW key, NEW value
    PROVE  Line(key, value).key = key /\ Line(key, value).value = value
BY DEF Line

\* The variables of a bridge that read the wizard's .env.
LEMMA WizardVariables ==
    ASSUME NEW a, NEW e, \A v \in Vars : e[v] \in Settings[v], Checked(a), Complete(a),
           LeavesSetupInForce(e)
    PROVE  /\ ~Forced(LoadDotEnv(EnvContent(a), e))
           /\ HasText(Text(LoadDotEnv(EnvContent(a), e), "DISCORD_BOT_TOKEN"))
           /\ HasText(Text(LoadDotEnv(EnvContent(a), e), "FACTORIO_RCON_PASSWORD"))
           /\ OverSFTP(a) /\ ~a.useKey =>
                  HasText(Text(LoadDotEnv(EnvContent(a), e), "SFTP_PASSWORD"))
<1> DEFINE lines == EnvContent(a)
<1>1. /\ DOMAIN lines \in {1 .. 2, 1 .. 3}
      /\ lines[1].key = "DISCORD_BOT_TOKEN" /\ lines[1].value = a.token
      /\ lines[2].key = "FACTORIO_RCON_PASSWORD" /\ lines[2].value = a.rconPassword
      /\ 3 \in DOMAIN lines =>
             lines[3].key = "SFTP_PASSWORD" /\ lines[3].value = a.sftpPassword
      /\ OverSFTP(a) /\ ~a.useKey /\ HasText(a.sftpPassword) => 3 \in DOMAIN lines
  <2>1. \A key, value : Line(key, value).key = key /\ Line(key, value).value = value
    BY LineFields
  <2>2. lines[1] = Line("DISCORD_BOT_TOKEN", a.token)
    BY LinesOfWizard
  <2>3. lines[2] = Line("FACTORIO_RCON_PASSWORD", a.rconPassword)
    BY LinesOfWizard
  <2>4. 3 \in DOMAIN lines => lines[3] = Line("SFTP_PASSWORD", a.sftpPassword)
    BY LinesOfWizard
  <2>5. /\ DOMAIN lines \in {1 .. 2, 1 .. 3}
        /\ OverSFTP(a) /\ ~a.useKey /\ HasText(a.sftpPassword) => 3 \in DOMAIN lines
    BY LinesOfWizard
  <2> HIDE DEF lines
  <2> QED BY <2>1, <2>2, <2>3, <2>4, <2>5
<1>2. /\ HasText(Unquote(a.token)) /\ HasText(Unquote(a.rconPassword))
      /\ OverSFTP(a) /\ ~a.useKey =>
             HasText(Unquote(a.sftpPassword)) /\ HasText(a.sftpPassword)
  <2>1. a.token # "" /\ Unquote(a.token) = a.token
    BY DiscordAssumption DEF Checked, Connect, Unquote
  <2>2. Unquote("") = "" BY TextsAssumption DEF Unquote
  <2> QED BY <2>1, <2>2 DEF Complete, HasText
<1>3. \A v \in {"DISCORD_BOT_TOKEN", "FACTORIO_RCON_PASSWORD", "SFTP_PASSWORD"} :
          v \in Vars \ Lists /\ e[v] \in Settings[v] /\ \A t \in e[v] : HasText(t)
  <2> SUFFICES ASSUME NEW v \in {"DISCORD_BOT_TOKEN", "FACTORIO_RCON_PASSWORD",
                                 "SFTP_PASSWORD"}
               PROVE  v \in Vars \ Lists /\ e[v] \in Settings[v] /\ \A t \in e[v] : HasText(t)
    OBVIOUS
  <2>1. v \in Vars \ Lists /\ e[v] \in Settings[v]
    BY VariablesAssumption DEF Vars, Lists
  <2>2. \A t, u \in e[v] : t = u
    BY <2>1, VariablesAssumption DEF Vars
  <2>3. e[v] # {""}
    BY DEF LeavesSetupInForce
  <2> QED BY <2>1, <2>2, <2>3 DEF HasText
<1>4. "ODB_CONFIG" \in Vars BY VariablesAssumption DEF Vars
<1> HIDE DEF lines
<1>5. DOMAIN lines \subseteq Nat /\ 1 \in DOMAIN lines /\ 2 \in DOMAIN lines
      /\ \A i \in DOMAIN lines : i \in {1, 2, 3}
  <2>1. CASE DOMAIN lines = 1 .. 2 BY <2>1
  <2>2. CASE DOMAIN lines = 1 .. 3 BY <2>2
  <2> QED BY <1>1, <2>1, <2>2
<1>6. HasText(Text(LoadDotEnv(lines, e), "DISCORD_BOT_TOKEN"))
  <2>1. \A i \in DOMAIN lines : lines[i].key = "DISCORD_BOT_TOKEN" <=> i = 1
    BY <1>1, <1>5
  <2> QED BY <1>1, <1>2, <1>3, <1>5, <2>1, ValueOfLine
<1>7. HasText(Text(LoadDotEnv(lines, e), "FACTORIO_RCON_PASSWORD"))
  <2>1. \A i \in DOMAIN lines : lines[i].key = "FACTORIO_RCON_PASSWORD" <=> i = 2
    BY <1>1, <1>5
  <2> QED BY <1>1, <1>2, <1>3, <1>5, <2>1, ValueOfLine
<1>8. OverSFTP(a) /\ ~a.useKey => HasText(Text(LoadDotEnv(lines, e), "SFTP_PASSWORD"))
  <2> SUFFICES ASSUME OverSFTP(a), ~a.useKey
               PROVE  HasText(Text(LoadDotEnv(lines, e), "SFTP_PASSWORD"))
    OBVIOUS
  <2>1. 3 \in DOMAIN lines BY <1>1, <1>2
  <2>2. \A i \in DOMAIN lines : lines[i].key = "SFTP_PASSWORD" <=> i = 3
    BY <1>1, <1>5, <2>1
  <2> QED BY <1>1, <1>2, <1>3, <1>5, <2>1, <2>2, ValueOfLine
<1>9. ~Forced(LoadDotEnv(lines, e))
  <2>1. \A i \in DOMAIN lines : lines[i].key # "ODB_CONFIG"
    BY <1>1, <1>5
  <2>2. LoadDotEnv(lines, e)["ODB_CONFIG"] = e["ODB_CONFIG"]
    BY <1>4, <2>1, NoLine
  <2> QED BY <2>2 DEF LeavesSetupInForce, Forced, Text
<1> QED BY <1>6, <1>7, <1>8, <1>9 DEF lines

\* The configuration that Load makes of the wizard's bridge.yaml.
LEMMA WizardConfiguration ==
    ASSUME NEW a, NEW p, Checked(a), Complete(a),
           HasText(Text(p, "DISCORD_BOT_TOKEN")), HasText(Text(p, "FACTORIO_RCON_PASSWORD")),
           OverSFTP(a) /\ ~a.useKey => HasText(Text(p, "SFTP_PASSWORD"))
    PROVE  LET c == FromFile(RenderBridgeYAML(a), p) IN Validate(c) /\ c.poll > 0
<1> DEFINE y == RenderBridgeYAML(a)
           c == FromFile(y, p)
<1>1. /\ y.transport = Transport(a) /\ y.poll \in {1, 2}
      /\ y.events = Events(a) /\ y.address = Address(a)
      /\ OverSFTP(a) => y.host = a.host /\ y.user = a.user
      /\ y.key = Key(a)
      /\ y.passwordEnv = IF OverSFTP(a) /\ Key(a) = "" THEN "SFTP_PASSWORD" ELSE ""
      /\ y.rconEnv = "FACTORIO_RCON_PASSWORD" /\ y.tokenEnv = "DISCORD_BOT_TOKEN"
      /\ y.control = FALSE
      /\ y.routes = <<[source |-> "*", channel |-> a.channel]>>
      /\ y.commands = <<Command("!players", "/players online", FALSE, FALSE)>>
  <2>1. \A t \in Unquoted(a) : Scalar(t) = t /\ ~Breaks(t)
    BY DEF Complete, Scalar, Breaks
  <2>2. y = FileOf(a, IF OverSFTP(a) /\ Key(a) = "" THEN "SFTP_PASSWORD" ELSE "")
    BY <2>1 DEF RenderBridgeYAML
  <2>3. /\ Scalar(Events(a)) = Events(a) /\ Scalar(Address(a)) = Address(a)
        /\ Scalar(Host(a)) = Host(a) /\ Scalar(User(a)) = User(a) /\ Scalar(Key(a)) = Key(a)
    BY <2>1 DEF Unquoted
  <2> HIDE DEF y
  <2> QED BY <2>2, <2>3 DEF FileOf, Host, User
<1>2. /\ c.transport = Default(y.transport, "local")
      /\ c.poll = IF y.poll = 0 THEN 1 ELSE y.poll
      /\ c.events = Expand(y.events, p) /\ c.address = Expand(y.address, p)
      /\ c.host = y.host /\ c.user = y.user /\ c.key = Expand(y.key, p)
      /\ c.sftpPassword = Secret(p, y.passwordEnv)
      /\ c.rconPassword = Secret(p, y.rconEnv) /\ c.token = Secret(p, y.tokenEnv)
      /\ c.control = y.control /\ c.routes = y.routes /\ c.commands = y.commands
  BY DEF FromFile
<1> HIDE DEF c, y
<1>3. c.poll > 0
  <2>1. y.poll \in {1, 2} BY <1>1
  <2>2. c.poll = IF y.poll = 0 THEN 1 ELSE y.poll BY <1>2
  <2> QED BY <2>1, <2>2
<1>4. c.transport = Transport(a) /\ Transport(a) \in {"local", "sftp"}
  BY <1>1, <1>2 DEF Transport, Default
<1>5. "" \notin {c.events, c.address, c.rconPassword, c.token}
  <2>1. /\ y.events \notin DOMAIN References \cup {""}
        /\ y.address \notin DOMAIN References \cup {""}
    BY <1>1, TextsAssumption DEF Complete, Default, Events, Address
  <2>2. c.events # "" /\ c.address # "" BY <1>2, <2>1 DEF Expand
  <2>3. c.rconPassword # "" /\ c.token # ""
    BY <1>1, <1>2, VariablesAssumption DEF Secret, Vars, HasText
  <2> QED BY <2>2, <2>3
<1>6. c.transport = "sftp" =>
          c.host # "" /\ c.user # "" /\ (c.key # "" \/ c.sftpPassword # "")
  <2> SUFFICES ASSUME OverSFTP(a)
               PROVE  c.host # "" /\ c.user # "" /\ (c.key # "" \/ c.sftpPassword # "")
    BY <1>4 DEF OverSFTP
  <2>1. c.host # "" /\ c.user # "" BY <1>1, <1>2 DEF Complete
  <2>2. CASE a.useKey
    <3>1. y.key = a.key /\ a.key \notin DOMAIN References /\ a.key # ""
      BY <1>1, <2>2 DEF Complete, Key
    <3> QED BY <1>2, <2>1, <3>1 DEF Expand
  <2>3. CASE ~a.useKey
    <3>1. y.passwordEnv = "SFTP_PASSWORD" BY <1>1, <2>3 DEF Key
    <3>2. c.sftpPassword = Text(p, "SFTP_PASSWORD")
      BY <1>2, <3>1, VariablesAssumption DEF Secret, Vars
    <3> QED BY <2>1, <2>3, <3>2 DEF HasText
  <2> QED BY <2>2, <2>3
<1>7. /\ c.routes # <<>>
      /\ \A i \in DOMAIN c.routes : "" \notin {c.routes[i].source, c.routes[i].channel}
  <2>1. a.channel # "" BY DiscordAssumption DEF Checked, PickGuild, PickChannel
  <2> DEFINE route == [source |-> "*", channel |-> a.channel]
  <2>2. c.routes = <<route>> BY <1>1, <1>2
  <2>3. route.source # "" /\ route.channel # "" BY <2>1
  <2> HIDE DEF route
  <2>4. DOMAIN c.routes = {1} /\ c.routes[1] = route /\ c.routes # <<>> BY <2>2
  <2> QED BY <2>3, <2>4
<1>8. ~c.control BY <1>1, <1>2
<1>9. \A i \in DOMAIN c.commands : "" \notin {c.commands[i].trigger, c.commands[i].rcon}
  <2>1. /\ Command("!players", "/players online", FALSE, FALSE).trigger = "!players"
        /\ Command("!players", "/players online", FALSE, FALSE).rcon = "/players online"
    BY DEF Command
  <2> DEFINE players == Command("!players", "/players online", FALSE, FALSE)
  <2>2. c.commands = <<players>> BY <1>1, <1>2
  <2>3. players.trigger # "" /\ players.rcon # "" BY <2>1
  <2> HIDE DEF players
  <2>4. DOMAIN c.commands = {1} /\ c.commands[1] = players BY <2>2
  <2> QED BY <2>3, <2>4
<1>10. Validate(c) BY <1>4, <1>5, <1>6, <1>7, <1>8, <1>9 DEF Validate
<1> QED BY <1>3, <1>10 DEF c, y

\* One step never ends the start of a complete setup otherwise than with a bridge
\* that runs.
LEMMA SetupStartsStep ==
    ASSUME SetupInv, Next,
           bridge.at = "loading", bridge'.at \notin {"loading", "stopped"},
           bridge.setup = Both, fresh = Both,
           Complete(wizard.answers), LeavesSetupInForce(bridge.given)
    PROVE  bridge'.at = "running"
<1> DEFINE a == wizard.answers
           p == bridge.penv
           c == FromFile(yaml, p)
<1>1. /\ Checked(a) /\ yaml = RenderBridgeYAML(a) /\ p = LoadDotEnv(EnvContent(a), bridge.given)
      /\ \A v \in Vars : bridge.given[v] \in Settings[v]
  BY DEF SetupInv, FreshFiles, FreshStart
<1>2. /\ ~Forced(p) /\ HasText(Text(p, "DISCORD_BOT_TOKEN"))
      /\ HasText(Text(p, "FACTORIO_RCON_PASSWORD"))
      /\ OverSFTP(a) /\ ~a.useKey => HasText(Text(p, "SFTP_PASSWORD"))
  BY <1>1, WizardVariables
<1>3. Validate(c) /\ c.poll > 0
  BY <1>1, <1>2, WizardConfiguration
<1>4. yaml # NoFile /\ yaml # Unreadable
  <2>1. \A t \in Unquoted(a) : ~Breaks(t) BY DEF Complete, Breaks
  <2>2. RenderBridgeYAML(a).kind = "yaml" BY <2>1 DEF RenderBridgeYAML, FileOf
  <2> QED BY <1>1, <2>2 DEF NoFile, Unreadable
<1>5. ~EnvMode(p, yaml) BY <1>2, <1>4 DEF EnvMode
<1>6. Load
  BY DEF Next, Start, Exit, SetVariable, EditFile, EditEnvFile, Ask, Loading, WriteConfig,
         WriteEnv, Abandon, bridgeVars, Stopped
<1>7. LoadFile BY <1>4, <1>5, <1>6 DEF Load, LoadFails, LoadEnv
<1>8. PICK mode : bridge' = Accepted(c, mode)
  BY <1>3, <1>7 DEF LoadFile, Finish
<1> QED BY <1>3, <1>8, GivenFields

\* What the wizard wrote from complete answers starts a bridge (render.go:52), unless
\* the environment or the host's edits put something else in its place.
THEOREM WizardSetupStarts == Spec => SetupStarts
<1>1. Init => SetupInv BY InitSetup
<1>2. SetupInv /\ [Next]_vars => SetupInv' BY StepKeepsSetup
<1>3. SetupInv /\ [Next]_vars =>
        [/\ bridge.at = "loading" /\ bridge'.at \notin {"loading", "stopped"}
         /\ bridge.setup = {"yaml", "env"} /\ fresh = {"yaml", "env"}
         /\ Complete(wizard.answers)
         /\ LeavesSetupInForce(bridge.given)
         => bridge'.at = "running"]_vars
  BY SetupStartsStep DEF Both
<1> QED BY <1>1, <1>2, <1>3, PTL DEF Spec, SetupStarts


-----------------------------------------------------------------------------
(* Sequences that are built entry by entry.                                 *)

\* Induction up to a number, on a set.
LEMMA Induct ==
    ASSUME NEW n \in Nat, NEW T,
           \A i \in 1 .. n : (\A j \in 1 .. i - 1 : j \in T) => i \in T
    PROVE  1 .. n \subseteq T
<1> SUFFICES ASSUME (1 .. n) \ T # {} PROVE FALSE
  OBVIOUS
<1> DEFINE R == (1 .. n) \ T
<1>1. R \subseteq Nat /\ R # {} OBVIOUS
<1>2. PICK i \in R : \A j \in R : ~(<<j, i>> \in OpToRel(<, Nat))
  <2> HIDE DEF R
  <2> QED BY <1>1, NatLessThanWellFounded, WFMin
<1>3. \A j \in R : ~(j < i)
  <2> HIDE DEF R
  <2> QED BY <1>1, <1>2 DEF OpToRel
<1>4. \A j \in 1 .. i - 1 : j \in T BY <1>3
<1> QED BY <1>4

LEMMA LeastExists ==
    ASSUME NEW S \in SUBSET Nat, S # {}
    PROVE  \E i \in S : \A j \in S : i <= j
<1>1. PICK i \in S : \A j \in S : ~(<<j, i>> \in OpToRel(<, Nat))
  BY NatLessThanWellFounded, WFMin
<1>2. \A j \in S : ~(j < i) BY <1>1 DEF OpToRel
<1> QED BY <1>2

LEMMA GreatestExists ==
    ASSUME NEW n \in Nat, NEW S \in SUBSET (1 .. n), S # {}
    PROVE  \E i \in S : \A j \in S : j <= i
<1> DEFINE T == {n - i : i \in S}
<1>1. T \in SUBSET Nat /\ T # {}
  <2>1. \A i \in S : n - i \in Nat OBVIOUS
  <2> QED BY <2>1
<1>2. PICK x \in T : \A y \in T : x <= y
  <2> HIDE DEF T
  <2> QED BY <1>1, LeastExists
<1>3. PICK i \in S : x = n - i OBVIOUS
<1>4. ASSUME NEW j \in S PROVE j <= i
  <2>1. n - i <= n - j BY <1>2, <1>3
  <2> QED BY <2>1
<1> QED BY <1>4

\* FlattenSeq appends one part after the other.
LEMMA FlattenIs ==
    ASSUME NEW S, NEW s \in Seq(Seq(S)), s # <<>>
    PROVE  \E f \in [1 .. Len(s) -> Seq(S)] :
              /\ \A i \in 1 .. Len(s) : f[i] = IF i = 1 THEN s[i] ELSE f[i - 1] \o s[i]
              /\ FlattenSeq(s) = f[Len(s)]
<1> DEFINE n == Len(s)
           Def(f) == [i \in 1 .. n |-> IF i = 1 THEN s[i] ELSE f[i - 1] \o s[i]]
           Good(f, k) == \A i \in 1 .. k : f[i] = IF i = 1 THEN s[i] ELSE f[i - 1] \o s[i]
           T == {k \in 1 .. n : \E f \in [1 .. k -> Seq(S)] : Good(f, k)}
           flatten == CHOOSE f : f = Def(f)
<1>1. n \in Nat /\ n # 0 /\ \A i \in 1 .. n : s[i] \in Seq(S)
  BY EmptySeq, LenProperties
<1>2. ASSUME NEW k \in 1 .. n, \A j \in 1 .. k - 1 : j \in T PROVE k \in T
  <2>1. CASE k = 1
    <3> DEFINE f == [i \in 1 .. k |-> s[1]]
    <3>1. f \in [1 .. k -> Seq(S)] BY <1>1
    <3>2. Good(f, k) BY <2>1
    <3> HIDE DEF f, Good
    <3> QED BY <3>1, <3>2
  <2>2. CASE k # 1
    <3>1. k - 1 \in 1 .. n /\ k - 1 \in 1 .. k - 1 BY <2>2, <1>1
    <3>2. PICK g \in [1 .. k - 1 -> Seq(S)] : Good(g, k - 1)
      <4> HIDE DEF Good
      <4> QED BY <3>1, <1>2
    <3> DEFINE f == [i \in 1 .. k |-> IF i = k THEN g[k - 1] \o s[k] ELSE g[i]]
    <3>3. g[k - 1] \o s[k] \in Seq(S) BY <1>1, <3>1, ConcatProperties
    <3>4. f \in [1 .. k -> Seq(S)] BY <3>3
    <3>5. Good(f, k)
      <4> SUFFICES ASSUME NEW i \in 1 .. k
                   PROVE f[i] = IF i = 1 THEN s[i] ELSE f[i - 1] \o s[i]
        OBVIOUS
      <4>1. CASE i = k
        <5>a. k \in 1 .. k /\ k - 1 \in 1 .. k /\ k - 1 # k BY <3>1
        <5>1. f[k] = g[k - 1] \o s[k] /\ f[k - 1] = g[k - 1] BY <5>a
        <5> HIDE DEF f
        <5> QED BY <4>1, <5>1, <2>2
      <4>2. CASE i # k
        <5>1. i \in 1 .. k - 1 /\ f[i] = g[i] BY <4>2
        <5>2. i # 1 => f[i - 1] = g[i - 1] BY <5>1
        <5>3. g[i] = IF i = 1 THEN s[i] ELSE g[i - 1] \o s[i] BY <3>2, <5>1
        <5> HIDE DEF f
        <5> QED BY <5>1, <5>2, <5>3
      <4> QED BY <4>1, <4>2
    <3> HIDE DEF f, Good
    <3> QED BY <3>4, <3>5
  <2> QED BY <2>1, <2>2
<1>3. PICK f \in [1 .. n -> Seq(S)] : Good(f, n)
  <2> HIDE DEF T
  <2>1. 1 .. n \subseteq T BY <1>1, <1>2, Induct
  <2>2. n \in T BY <1>1, <2>1
  <2> HIDE DEF Good
  <2> QED BY <2>2 DEF T
<1>4. f = Def(f)
  <2>1. DOMAIN f = 1 .. n /\ \A i \in 1 .. n : f[i] = Def(f)[i] BY <1>3
  <2> HIDE DEF n
  <2> QED BY <2>1
<1>5. flatten = Def(flatten)
  <2> HIDE DEF Def
  <2> QED BY <1>4
<1>6. FlattenSeq(s) = flatten[n]
  BY <1>1 DEF FlattenSeq
<1>7. ASSUME NEW k \in 1 .. n PROVE flatten[k] = f[k]
  <2> DEFINE U == {i \in 1 .. n : flatten[i] = f[i]}
  <2>1. ASSUME NEW i \in 1 .. n, \A j \in 1 .. i - 1 : j \in U PROVE i \in U
    <3>1. flatten[i] = IF i = 1 THEN s[i] ELSE flatten[i - 1] \o s[i]
      <4> HIDE DEF flatten, n
      <4> QED BY <1>5
    <3>2. f[i] = IF i = 1 THEN s[i] ELSE f[i - 1] \o s[i] BY <1>3
    <3>3. i # 1 => flatten[i - 1] = f[i - 1]
      <4>1. i # 1 => i - 1 \in 1 .. i - 1 OBVIOUS
      <4>2. i # 1 => i - 1 \in U
        <5> HIDE DEF U
        <5> QED BY <2>1, <4>1
      <4> HIDE DEF flatten
      <4> QED BY <4>2
    <3> HIDE DEF flatten, n
    <3> QED BY <3>1, <3>2, <3>3
  <2> HIDE DEF U
  <2>2. 1 .. n \subseteq U BY <1>1, <2>1, Induct
  <2> QED BY <2>2 DEF U
<1>8. n \in 1 .. n BY <1>1
<1> HIDE DEF flatten
<1> QED BY <1>3, <1>6, <1>7, <1>8

Elements(q) == {q[j] : j \in DOMAIN q}

LEMMA ConcatElements ==
    ASSUME NEW S, NEW p \in Seq(S), NEW q \in Seq(S)
    PROVE  Elements(p \o q) = Elements(p) \cup Elements(q)
<1> DEFINE m == Len(p)
           n == Len(q)
           r == p \o q
<1>1. m \in Nat /\ n \in Nat /\ DOMAIN p = 1 .. m /\ DOMAIN q = 1 .. n
  BY LenProperties
<1>2. /\ Len(r) = m + n
      /\ \A i \in 1 .. m + n : r[i] = IF i <= m THEN p[i] ELSE q[i - m]
      /\ r \in Seq(S)
  BY ConcatProperties
<1>3. DOMAIN r = 1 .. m + n BY <1>2, LenProperties
<1> HIDE DEF m, n, r
<1>4. ASSUME NEW i \in DOMAIN r PROVE r[i] \in Elements(p) \cup Elements(q)
  <2>1. CASE i <= m
    <3>1. i \in DOMAIN p /\ r[i] = p[i] BY <1>1, <1>2, <1>3, <2>1
    <3> QED BY <3>1 DEF Elements
  <2>2. CASE ~(i <= m)
    <3>1. i - m \in DOMAIN q /\ r[i] = q[i - m] BY <1>1, <1>2, <1>3, <2>2
    <3> QED BY <3>1 DEF Elements
  <2> QED BY <2>1, <2>2
<1>5. ASSUME NEW i \in DOMAIN p PROVE p[i] \in Elements(r)
  <2>1. i \in DOMAIN r /\ r[i] = p[i] BY <1>1, <1>2, <1>3
  <2> QED BY <2>1 DEF Elements
<1>6. ASSUME NEW i \in DOMAIN q PROVE q[i] \in Elements(r)
  <2>1. i + m \in 1 .. m + n /\ ~(i + m <= m) /\ (i + m) - m = i BY <1>1
  <2>2. i + m \in DOMAIN r /\ r[i + m] = q[i] BY <1>2, <1>3, <2>1
  <2> QED BY <2>2 DEF Elements
<1>7. Elements(r) \subseteq Elements(p) \cup Elements(q) BY <1>4 DEF Elements
<1>8. Elements(p) \subseteq Elements(r) BY <1>5 DEF Elements
<1>9. Elements(q) \subseteq Elements(r) BY <1>6 DEF Elements
<1> QED BY <1>7, <1>8, <1>9 DEF r

\* FlattenSeq has the elements of the parts, and no others.
LEMMA FlattenElements ==
    ASSUME NEW S, NEW s \in Seq(Seq(S))
    PROVE  /\ FlattenSeq(s) \in Seq(S)
           /\ Elements(FlattenSeq(s)) = UNION {Elements(s[i]) : i \in DOMAIN s}
<1>1. CASE s = <<>>
  <2>1. FlattenSeq(s) = <<>> BY <1>1 DEF FlattenSeq
  <2>2. <<>> \in Seq(S) /\ Elements(<<>>) = {} BY EmptySeq DEF Elements
  <2>3. UNION {Elements(s[i]) : i \in DOMAIN s} = {} BY <1>1
  <2> QED BY <2>1, <2>2, <2>3
<1>2. CASE s # <<>>
  <2> DEFINE n == Len(s)
  <2>1. n \in Nat /\ n # 0 /\ DOMAIN s = 1 .. n /\ \A i \in 1 .. n : s[i] \in Seq(S)
    BY <1>2, EmptySeq, LenProperties
  <2>2. PICK f \in [1 .. n -> Seq(S)] :
            /\ \A i \in 1 .. n : f[i] = IF i = 1 THEN s[i] ELSE f[i - 1] \o s[i]
            /\ FlattenSeq(s) = f[n]
    BY <1>2, FlattenIs
  <2> DEFINE Upto(k) == UNION {Elements(s[i]) : i \in 1 .. k}
             T == {k \in 1 .. n : Elements(f[k]) = Upto(k)}
  <2> HIDE DEF n
  <2>3. ASSUME NEW k \in 1 .. n, \A j \in 1 .. k - 1 : j \in T PROVE k \in T
    <3>1. CASE k = 1
      <4>1. f[k] = s[1] BY <2>2, <3>1
      <4>2. 1 .. k = {1} BY <3>1
      <4>3. Upto(k) = Elements(s[1])
        BY <4>2
      <4> QED BY <4>1, <4>3
    <3>2. CASE k # 1
      <4>1. k - 1 \in 1 .. n /\ k - 1 \in 1 .. k - 1 BY <2>1, <3>2
      <4>2. f[k] = f[k - 1] \o s[k] BY <2>2, <3>2
      <4>3. Elements(f[k - 1]) = Upto(k - 1)
        <5> HIDE DEF Upto
        <5> QED BY <2>3, <4>1
      <4>4. Elements(f[k]) = Elements(f[k - 1]) \cup Elements(s[k])
        BY <2>1, <4>1, <4>2, ConcatElements
      <4>5. 1 .. k = (1 .. k - 1) \cup {k} BY <4>1
      <4>6. Upto(k) = Upto(k - 1) \cup Elements(s[k]) BY <4>5
      <4> HIDE DEF Upto
      <4> QED BY <4>3, <4>4, <4>6
    <3> QED BY <3>1, <3>2
  <2>4. Elements(f[n]) = Upto(n)
    <3> HIDE DEF T
    <3>1. 1 .. n \subseteq T BY <2>1, <2>3, Induct
    <3> HIDE DEF Upto
    <3>2. n \in T BY <2>1, <3>1
    <3> QED BY <3>2 DEF T
  <2>5. f[n] \in Seq(S) BY <2>1
  <2> QED BY <2>1, <2>2, <2>4, <2>5
<1> QED BY <1>1, <1>2

\* Part i is entry i if that is kept, or nothing.
Parts(q, n, K, E, S) ==
    /\ n \in Nat /\ \A i \in 1 .. n : E[i] \in S
    /\ q \in [1 .. n -> Seq(S)]
    /\ \A i \in 1 .. n : q[i] = IF i \in K THEN <<E[i]>> ELSE <<>>

LEMMA KeptElements ==
    ASSUME NEW n, NEW K, NEW S, NEW E, NEW q, Parts(q, n, K, E, S)
    PROVE  /\ FlattenSeq(q) \in Seq(S)
           /\ Elements(FlattenSeq(q)) = {E[i] : i \in K \cap 1 .. n}
<1> USE DEF Parts
<1>1. ASSUME NEW i \in 1 .. n PROVE Elements(q[i]) = IF i \in K THEN {E[i]} ELSE {}
  <2>1. CASE i \in K
    <3>1. q[i] = <<E[i]>> BY <2>1
    <3>2. DOMAIN <<E[i]>> = {1} /\ <<E[i]>>[1] = E[i] OBVIOUS
    <3> QED BY <2>1, <3>1, <3>2 DEF Elements
  <2>2. CASE i \notin K
    <3>1. q[i] = <<>> BY <2>2
    <3> QED BY <2>2, <3>1, EmptySeq DEF Elements
  <2> QED BY <2>1, <2>2
<1>2. q \in Seq(Seq(S)) /\ DOMAIN q = 1 .. n
  <2>1. \A i \in 1 .. n : q[i] \in Seq(S) OBVIOUS
  <2>2. [i \in 1 .. n |-> q[i]] \in Seq(Seq(S)) BY <2>1, IsASeq
  <2>3. q = [i \in 1 .. n |-> q[i]] OBVIOUS
  <2> QED BY <2>2, <2>3
<1>3. /\ FlattenSeq(q) \in Seq(S)
      /\ Elements(FlattenSeq(q)) = UNION {Elements(q[i]) : i \in 1 .. n}
  BY <1>2, FlattenElements
<1>4. UNION {Elements(q[i]) : i \in 1 .. n} = {E[i] : i \in K \cap 1 .. n}
  <2> DEFINE X == {E[i] : i \in K \cap 1 .. n}
  <2>1. \A i \in 1 .. n : Elements(q[i]) \subseteq X BY <1>1
  <2>2. \A i \in K \cap 1 .. n : E[i] \in Elements(q[i]) BY <1>1
  <2> QED BY <2>1, <2>2
<1> QED BY <1>3, <1>4

LEMMA EmptyDomain == DOMAIN <<>> = {}
<1>1. ASSUME NEW s \in Seq(Nat), s = <<>> PROVE DOMAIN s = {}
  <2>1. Len(s) = 0 /\ DOMAIN s = 1 .. Len(s) BY <1>1, EmptySeq, LenProperties
  <2> QED BY <2>1
<1>2. <<>> \in Seq(Nat) BY EmptySeq
<1> QED BY <1>1, <1>2

\* A part of a list is an entry of it or nothing.
LEMMA PartIsASeq ==
    ASSUME NEW S, NEW x \in S, NEW keep
    PROVE  (IF keep THEN <<x>> ELSE <<>>) \in Seq(S)
  OBVIOUS

-----------------------------------------------------------------------------
(* The commands in force.                                                   *)

Triggers(c) == {c[i].trigger : i \in DOMAIN c}

IsLast(c, t, k) ==
    /\ k \in DOMAIN c /\ c[k].trigger = t
    /\ \A j \in DOMAIN c : c[j].trigger = t => j <= k

\* The last command of a trigger is the one of the map.
LEMMA LastIsInForce ==
    ASSUME NEW S, NEW c \in Seq(S), NEW t, NEW k, IsLast(c, t, k)
    PROVE  CmdMap(c)[t] = c[k]
<1> DEFINE P(i) == i \in DOMAIN c /\ c[i].trigger = t
                   /\ \A j \in DOMAIN c : c[j].trigger = t => j <= i
           x == CHOOSE i \in DOMAIN c : /\ c[i].trigger = t
                                        /\ \A j \in DOMAIN c : c[j].trigger = t => j <= i
<1>1. DOMAIN c \subseteq Nat
  <2>1. Len(c) \in Nat /\ DOMAIN c = 1 .. Len(c) BY LenProperties
  <2> QED BY <2>1
<1>2. t \in Triggers(c) /\ k \in DOMAIN c BY DEF IsLast, Triggers
<1>3. CmdMap(c)[t] = c[x] BY <1>2 DEF CmdMap, Triggers
<1>4. x \in DOMAIN c /\ c[x].trigger = t /\ \A j \in DOMAIN c : c[j].trigger = t => j <= x
  <2>1. \E i \in DOMAIN c : /\ c[i].trigger = t
                            /\ \A j \in DOMAIN c : c[j].trigger = t => j <= i
    BY DEF IsLast
  <2> QED BY <2>1
<1> HIDE DEF x
<1>5. x <= k /\ k <= x BY <1>4, <1>2 DEF IsLast
<1>6. x = k
  <2>1. x \in Nat /\ k \in Nat BY <1>1, <1>2, <1>4
  <2> QED BY <1>5, <2>1
<1> QED BY <1>3, <1>6

LEMMA LastExists ==
    ASSUME NEW S, NEW c \in Seq(S), NEW t \in Triggers(c)
    PROVE  \E k : IsLast(c, t, k)
<1> DEFINE T == {i \in 1 .. Len(c) : c[i].trigger = t}
<1>1. Len(c) \in Nat /\ DOMAIN c = 1 .. Len(c) BY LenProperties
<1>2. T \in SUBSET (1 .. Len(c)) /\ T # {} BY <1>1 DEF Triggers
<1>3. PICK k \in T : \A j \in T : j <= k
  <2> HIDE DEF T
  <2> QED BY <1>1, <1>2, GreatestExists
<1>4. IsLast(c, t, k) BY <1>1, <1>3 DEF IsLast
<1> QED BY <1>4

\* A command in force is of the list, and of its trigger.
LEMMA InForceIsListed ==
    ASSUME NEW S, NEW c \in Seq(S), NEW t \in Triggers(c)
    PROVE  CmdMap(c)[t] \in Elements(c) /\ CmdMap(c)[t].trigger = t
<1>1. PICK k : IsLast(c, t, k) BY LastExists
<1>2. CmdMap(c)[t] = c[k] BY <1>1, LastIsInForce
<1> QED BY <1>1, <1>2 DEF IsLast, Elements

LEMMA TriggersOfElements ==
    ASSUME NEW c
    PROVE  Triggers(c) = {x.trigger : x \in Elements(c)} /\ DOMAIN CmdMap(c) = Triggers(c)
BY DEF Triggers, Elements, CmdMap

LEMMA MapIsFunction ==
    ASSUME NEW c
    PROVE  CmdMap(c) = [t \in DOMAIN CmdMap(c) |-> CmdMap(c)[t]]
<1> DEFINE T == Triggers(c)
           k == [t \in T |-> CHOOSE i \in DOMAIN c :
                    /\ c[i].trigger = t
                    /\ \A j \in DOMAIN c : c[j].trigger = t => j <= i]
           f == [t \in T |-> c[k[t]]]
<1>1. CmdMap(c) = f BY DEF CmdMap, Triggers
<1> HIDE DEF T, k
<1>2. f = [t \in DOMAIN f |-> f[t]] OBVIOUS
<1> HIDE DEF f
<1> QED BY <1>1, <1>2

\* Commands appended under other triggers leave those before in force.
LEMMA AppendedElsewhere ==
    ASSUME NEW S, NEW c \in Seq(S), NEW d \in Seq(S), Triggers(c) \cap Triggers(d) = {}
    PROVE  /\ Triggers(c \o d) = Triggers(c) \cup Triggers(d)
           /\ \A t \in Triggers(c) : CmdMap(c \o d)[t] = CmdMap(c)[t]
           /\ \A t \in Triggers(d) : CmdMap(c \o d)[t] = CmdMap(d)[t]
<1> DEFINE m == Len(c)
           n == Len(d)
           r == c \o d
<1>1. m \in Nat /\ n \in Nat /\ DOMAIN c = 1 .. m /\ DOMAIN d = 1 .. n
  BY LenProperties
<1>2. /\ Len(r) = m + n /\ r \in Seq(S)
      /\ \A i \in 1 .. m + n : r[i] = IF i <= m THEN c[i] ELSE d[i - m]
  BY ConcatProperties
<1>3. DOMAIN r = 1 .. m + n BY <1>2, LenProperties
<1>4. Elements(r) = Elements(c) \cup Elements(d) BY ConcatElements
<1> HIDE DEF m, n, r
<1>5. Triggers(r) = Triggers(c) \cup Triggers(d)
  <2>1. {x.trigger : x \in Elements(r)}
        = {x.trigger : x \in Elements(c)} \cup {x.trigger : x \in Elements(d)}
    BY <1>4
  <2> QED BY <2>1, TriggersOfElements
<1>6. ASSUME NEW i \in DOMAIN r
      PROVE  \/ i \in DOMAIN c /\ r[i] = c[i] /\ r[i].trigger \in Triggers(c)
             \/ i > m /\ i - m \in DOMAIN d /\ r[i] = d[i - m] /\ r[i].trigger \in Triggers(d)
  <2>1. i \in 1 .. m + n BY <1>3
  <2>2. CASE i <= m
    <3>1. i \in DOMAIN c /\ r[i] = c[i] BY <1>1, <1>2, <2>1, <2>2
    <3> QED BY <3>1 DEF Triggers
  <2>3. CASE ~(i <= m)
    <3>1. i > m /\ i - m \in DOMAIN d /\ r[i] = d[i - m] BY <1>1, <1>2, <2>1, <2>3
    <3> QED BY <3>1 DEF Triggers
  <2> QED BY <2>2, <2>3
<1>7. ASSUME NEW t \in Triggers(c) PROVE CmdMap(r)[t] = CmdMap(c)[t]
  <2>1. PICK k : IsLast(c, t, k) BY LastExists
  <2>2. k \in 1 .. m /\ c[k].trigger = t BY <1>1, <2>1 DEF IsLast
  <2>3. k \in DOMAIN r /\ r[k] = c[k] BY <1>1, <1>2, <1>3, <2>2
  <2>4. ASSUME NEW j \in DOMAIN r, r[j].trigger = t PROVE j <= k
    <3>1. j \in DOMAIN c /\ r[j] = c[j] BY <1>6, <1>7, <2>4
    <3> QED BY <2>1, <2>4, <3>1 DEF IsLast
  <2>5. IsLast(r, t, k) BY <2>2, <2>3, <2>4 DEF IsLast
  <2>6. CmdMap(c)[t] = c[k] BY <2>1, LastIsInForce
  <2>7. CmdMap(r)[t] = r[k] BY <1>2, <2>5, LastIsInForce
  <2> QED BY <2>3, <2>6, <2>7
<1>8. ASSUME NEW t \in Triggers(d) PROVE CmdMap(r)[t] = CmdMap(d)[t]
  <2>1. PICK k : IsLast(d, t, k) BY LastExists
  <2>2. k \in 1 .. n /\ d[k].trigger = t BY <1>1, <2>1 DEF IsLast
  <2>3. k + m \in 1 .. m + n /\ ~(k + m <= m) /\ (k + m) - m = k BY <1>1, <2>2
  <2>4. k + m \in DOMAIN r /\ r[k + m] = d[k] BY <1>2, <1>3, <2>3
  <2>5. ASSUME NEW j \in DOMAIN r, r[j].trigger = t PROVE j <= k + m
    <3>1. j - m \in DOMAIN d /\ r[j] = d[j - m] BY <1>6, <1>8, <2>5
    <3>2. j - m <= k BY <2>1, <2>5, <3>1 DEF IsLast
    <3>3. j \in Int BY <1>1, <1>3
    <3> QED BY <1>1, <2>2, <3>2, <3>3
  <2>6. IsLast(r, t, k + m) BY <2>2, <2>4, <2>5 DEF IsLast
  <2>7. CmdMap(d)[t] = d[k] BY <2>1, LastIsInForce
  <2>8. CmdMap(r)[t] = r[k + m] BY <1>2, <2>6, LastIsInForce
  <2> QED BY <2>4, <2>7, <2>8
<1> QED BY <1>5, <1>7, <1>8 DEF r

\* Each built-in command has a trigger of its own.
LEMMA DefaultsDiffer ==
    /\ DefaultCommands \in Seq(Elements(DefaultCommands))
    /\ DOMAIN DefaultCommands = 1 .. 6
    /\ \A i, j \in 1 .. 6 :
          DefaultCommands[i].trigger = DefaultCommands[j].trigger => i = j
<1> DEFINE names == <<"!players", "!link", "!unlink", "!links", "!unlink-player", "!unlink-all">>
<1>1. DOMAIN DefaultCommands = 1 .. 6 BY DEF DefaultCommands
<1>2. \A i \in 1 .. 6 : DefaultCommands[i].trigger = names[i]
  <2>1. ASSUME NEW t, NEW x, NEW y, NEW z PROVE Command(t, x, y, z).trigger = t
    BY DEF Command
  <2> HIDE DEF names
  <2>2. /\ DefaultCommands[1].trigger = "!players" /\ DefaultCommands[2].trigger = "!link"
        /\ DefaultCommands[3].trigger = "!unlink" /\ DefaultCommands[4].trigger = "!links"
        /\ DefaultCommands[5].trigger = "!unlink-player"
        /\ DefaultCommands[6].trigger = "!unlink-all"
    BY <2>1 DEF DefaultCommands
  <2>3. /\ names[1] = "!players" /\ names[2] = "!link" /\ names[3] = "!unlink"
        /\ names[4] = "!links" /\ names[5] = "!unlink-player" /\ names[6] = "!unlink-all"
    BY DEF names
  <2>4. \A i \in 1 .. 6 : i \in {1, 2, 3, 4, 5, 6} OBVIOUS
  <2> QED BY <2>2, <2>3, <2>4
<1>3. \A i, j \in 1 .. 6 : names[i] = names[j] => i = j
  <2>1. \A i \in 1 .. 6 : i \in {1, 2, 3, 4, 5, 6} OBVIOUS
  <2> QED BY <2>1
<1>4. DefaultCommands \in Seq(Elements(DefaultCommands))
  <2> DEFINE D == DefaultCommands
  <2>1. D = [i \in 1 .. 6 |-> D[i]] BY DEF DefaultCommands
  <2>2. \A i \in 1 .. 6 : D[i] \in Elements(D) BY <1>1 DEF Elements
  <2> HIDE DEF D
  <2>3. [i \in 1 .. 6 |-> D[i]] \in Seq(Elements(D)) BY <2>2, IsASeq
  <2> QED BY <2>1, <2>3 DEF D
<1> HIDE DEF names
<1> QED BY <1>1, <1>2, <1>3, <1>4

\* mergeDefaultCommands adds the built-in commands whose triggers are free.
LEMMA MergedInForce ==
    ASSUME NEW S, NEW explicit \in Seq(S)
    PROVE  CmdMap(MergeDefaultCommands(explicit))
           = [t \in Triggers(explicit) \cup Triggers(DefaultCommands) |->
                IF t \in Triggers(explicit) THEN CmdMap(explicit)[t]
                ELSE CmdMap(DefaultCommands)[t]]
<1> DEFINE D == DefaultCommands
           free == {i \in 1 .. 6 : D[i].trigger \notin Triggers(explicit)}
           parts == [i \in 1 .. 6 |-> IF i \in free THEN <<D[i]>> ELSE <<>>]
           rest == FlattenSeq(parts)
           U == S \cup Elements(D)
           merged == explicit \o rest
<1>1. MergeDefaultCommands(explicit) = merged
  <2>1. parts = [i \in DOMAIN D |-> IF D[i].trigger \in Triggers(explicit) THEN <<>>
                                    ELSE <<D[i]>>]
    BY DefaultsDiffer
  <2> HIDE DEF parts
  <2> QED BY <2>1 DEF MergeDefaultCommands, Triggers
<1>2. rest \in Seq(Elements(D)) /\ Elements(rest) = {D[i] : i \in free \cap 1 .. 6}
  <2>1. 6 \in Nat /\ \A i \in 1 .. 6 : D[i] \in Elements(D) BY DefaultsDiffer DEF Elements
  <2>2. \A i \in 1 .. 6 : parts[i] = IF i \in free THEN <<D[i]>> ELSE <<>> OBVIOUS
  <2> HIDE DEF D, free
  <2>3. \A i \in 1 .. 6 : parts[i] \in Seq(Elements(D)) BY <2>1, PartIsASeq
  <2>4. parts \in [1 .. 6 -> Seq(Elements(D))] BY <2>3
  <2> HIDE DEF parts
  <2>5. Parts(parts, 6, free, D, Elements(D)) BY <2>1, <2>2, <2>4 DEF Parts
  <2> QED BY <2>5, KeptElements
<1> HIDE DEF D, free, parts, rest
<1>3. Elements(rest) = {D[i] : i \in free} BY <1>2 DEF free
<1>4. Elements(D) = {D[i] : i \in 1 .. 6} BY DefaultsDiffer DEF Elements, D
<1>5. explicit \in Seq(U) /\ rest \in Seq(U) /\ D \in Seq(U)
  BY <1>2, <1>4, DefaultsDiffer, SeqMonotonic DEF D
<1>6. Triggers(rest) = Triggers(D) \ Triggers(explicit)
  <2>1. Triggers(rest) = {x.trigger : x \in Elements(rest)} BY TriggersOfElements
  <2>2. Triggers(D) = {x.trigger : x \in Elements(D)} BY TriggersOfElements
  <2>3. Triggers(rest) = {D[i].trigger : i \in free} BY <1>3, <2>1
  <2>4. Triggers(D) = {D[i].trigger : i \in 1 .. 6} BY <1>4, <2>2
  <2> QED BY <2>3, <2>4 DEF free
<1>7. /\ Triggers(merged) = Triggers(explicit) \cup Triggers(rest)
      /\ \A t \in Triggers(explicit) : CmdMap(merged)[t] = CmdMap(explicit)[t]
      /\ \A t \in Triggers(rest) : CmdMap(merged)[t] = CmdMap(rest)[t]
  <2>1. Triggers(explicit) \cap Triggers(rest) = {} BY <1>6
  <2> HIDE DEF U
  <2> QED BY <1>5, <2>1, AppendedElsewhere
<1>8. ASSUME NEW t \in Triggers(rest) PROVE CmdMap(rest)[t] = CmdMap(D)[t]
  <2>1. CmdMap(rest)[t] \in Elements(rest) /\ CmdMap(rest)[t].trigger = t
    <3> HIDE DEF U
    <3> QED BY <1>5, InForceIsListed
  <2>2. CmdMap(D)[t] \in Elements(D) /\ CmdMap(D)[t].trigger = t
    <3>1. t \in Triggers(D) BY <1>6
    <3> HIDE DEF U
    <3> QED BY <1>5, <3>1, InForceIsListed
  <2>3. PICK i \in 1 .. 6 : CmdMap(rest)[t] = D[i] BY <1>3, <2>1 DEF free
  <2>4. PICK j \in 1 .. 6 : CmdMap(D)[t] = D[j] BY <1>4, <2>2
  <2>5. D[i].trigger = D[j].trigger BY <2>1, <2>2, <2>3, <2>4
  <2>6. i = j BY <2>5, DefaultsDiffer DEF D
  <2> QED BY <2>3, <2>4, <2>6
<1> DEFINE all == Triggers(explicit) \cup Triggers(D)
           F == [t \in all |-> IF t \in Triggers(explicit) THEN CmdMap(explicit)[t]
                               ELSE CmdMap(D)[t]]
<1>9. DOMAIN CmdMap(merged) = all BY <1>6, <1>7, TriggersOfElements
<1>10. \A t \in all : CmdMap(merged)[t] = F[t]
  <2> SUFFICES ASSUME NEW t \in all PROVE CmdMap(merged)[t] = F[t]
    OBVIOUS
  <2>1. CASE t \in Triggers(explicit) BY <1>7, <2>1
  <2>2. CASE t \notin Triggers(explicit)
    <3>1. t \in Triggers(rest) BY <1>6, <2>2
    <3> QED BY <1>7, <1>8, <2>2, <3>1
  <2> QED BY <2>1, <2>2
<1>11. CmdMap(merged) = F
  <2> HIDE DEF merged, all
  <2>1. CmdMap(merged) = [t \in all |-> CmdMap(merged)[t]]
    <3>1. CmdMap(merged) = [t \in DOMAIN CmdMap(merged) |-> CmdMap(merged)[t]]
      BY MapIsFunction
    <3> QED BY <1>9, <3>1
  <2>2. [t \in all |-> CmdMap(merged)[t]] = F BY <1>10
  <2> QED BY <2>1, <2>2
<1> QED BY <1>1, <1>11 DEF D

-----------------------------------------------------------------------------
(* The configuration of a bridge in env-var mode is that of its environment. *)

ListsIn(e) == \A v \in Lists : \A t \in e[v] : IsList(t)

DotEnvIsList ==
    IsList(dotenv) /\ \A i \in DOMAIN dotenv : dotenv[i].key \in Lists => IsList(dotenv[i].value)

FromItsEnvironment ==
    /\ bridge.at \in {"loading", "running"} => ListsIn(bridge.penv)
    /\ bridge.at = "running" /\ bridge.mode # "file mode" =>
           bridge.config = FromEnv(bridge.penv)

\* The invariant: what the environment and .env say of the two variables of
\* entries is a list of them, and so it is in the environment of the process.
ListsInv == TypeOK /\ DotEnvIsList /\ FromItsEnvironment

LEMMA ListsAreVariables == Lists \subseteq Vars
BY VariablesAssumption DEF Lists, Vars

\* loadDotEnv takes the value of a line, or leaves the variable as it is.
LEMMA LoadedLists ==
    ASSUME ListsInv
    PROVE  ListsIn(LoadDotEnv(dotenv, env))
<1> SUFFICES ASSUME NEW v \in Lists, NEW t \in LoadDotEnv(dotenv, env)[v] PROVE IsList(t)
  BY DEF ListsIn
<1> DEFINE found == {i \in DOMAIN dotenv : dotenv[i].key = v}
           first == CHOOSE i \in found : \A j \in found : i <= j
<1>1. v \in Vars /\ env[v] \in Settings[v] BY ListsAreVariables DEF ListsInv, TypeOK
<1>2. CASE env[v] # {} \/ found = {}
  <2>1. LoadDotEnv(dotenv, env)[v] = env[v] BY <1>1, <1>2 DEF LoadDotEnv
  <2> QED BY <1>1, <2>1, ListsAssumption
<1>3. CASE ~(env[v] # {} \/ found = {})
  <2>1. LoadDotEnv(dotenv, env)[v] = {Value(dotenv[first])} BY <1>1, <1>3 DEF LoadDotEnv
  <2>2. found \in SUBSET Nat
    <3>1. Len(dotenv) \in Nat /\ DOMAIN dotenv = 1 .. Len(dotenv)
      BY LenProperties DEF ListsInv, DotEnvIsList, IsList
    <3> QED BY <3>1
  <2>3. first \in found
    <3> HIDE DEF found
    <3>1. \E i \in found : \A j \in found : i <= j BY <1>3, <2>2, LeastExists
    <3> QED BY <3>1
  <2> HIDE DEF first
  <2> QED BY <2>1, <2>3 DEF ListsInv, DotEnvIsList, Value
<1> QED BY <1>2, <1>3

\* The wizard's .env names neither of them.
LEMMA WizardLines ==
    ASSUME NEW a
    PROVE  /\ IsList(EnvContent(a))
           /\ \A i \in DOMAIN EnvContent(a) : EnvContent(a)[i].key \notin Lists
<1> DEFINE c == EnvContent(a)
<1>1. DOMAIN c \in {1 .. 2, 1 .. 3} BY LinesOfWizard
<1>2. IsList(c)
  <2>1. c \in Seq(Elements(c))
    <3> DEFINE x == Line("DISCORD_BOT_TOKEN", a.token)
               y == Line("FACTORIO_RCON_PASSWORD", a.rconPassword)
               z == Line("SFTP_PASSWORD", a.sftpPassword)
    <3> HIDE DEF x, y, z
    <3>1. c = <<x, y>> \o <<z>> \/ c = <<x, y>> \o <<>> BY DEF EnvContent, x, y, z
    <3>2. \E S : c \in Seq(S)
      <4>1. <<x, y>> \in Seq({x, y, z}) /\ <<z>> \in Seq({x, y, z}) /\ <<>> \in Seq({x, y, z})
        OBVIOUS
      <4> QED BY <3>1, <4>1, ConcatProperties
    <3> HIDE DEF c
    <3>3. PICK S : c \in Seq(S) BY <3>2
    <3>4. Len(c) \in Nat /\ c \in [1 .. Len(c) -> S] BY <3>3, LenProperties
    <3>5. \A i \in 1 .. Len(c) : c[i] \in Elements(c) BY <3>4 DEF Elements
    <3>6. [i \in 1 .. Len(c) |-> c[i]] \in Seq(Elements(c)) BY <3>4, <3>5, IsASeq
    <3> QED BY <3>4, <3>6
  <2> QED BY <2>1 DEF IsList, Elements
<1>3. ASSUME NEW i \in DOMAIN c PROVE c[i].key \notin Lists
  <2>1. i \in {1, 2, 3} BY <1>1, <1>3
  <2>2. c[i].key \in {"DISCORD_BOT_TOKEN", "FACTORIO_RCON_PASSWORD", "SFTP_PASSWORD"}
    <3>1. i = 1 => c[i] = Line("DISCORD_BOT_TOKEN", a.token) BY LinesOfWizard
    <3>2. i = 2 => c[i] = Line("FACTORIO_RCON_PASSWORD", a.rconPassword) BY LinesOfWizard
    <3>3. i = 3 => c[i] = Line("SFTP_PASSWORD", a.sftpPassword) BY <1>3, LinesOfWizard
    <3> HIDE DEF c
    <3> QED BY <2>1, <3>1, <3>2, <3>3, LineFields
  <2> QED BY <2>2 DEF Lists
<1> QED BY <1>2, <1>3

LEMMA LoadingFields ==
    ASSUME NEW e, NEW p, NEW setup
    PROVE  Loading(e, p, setup).at = "loading" /\ Loading(e, p, setup).penv = p
BY DEF Loading

LEMMA RunningFields ==
    ASSUME NEW c, NEW mode
    PROVE  /\ Accepted(c, mode).at # "loading" /\ Accepted(c, mode).penv = bridge.penv
           /\ Accepted(c, mode).config = c /\ Accepted(c, mode).mode = mode
BY DEF Accepted

LEMMA LoadKeepsLists ==
    ASSUME ListsInv, bridge.at = "loading", NEW c, NEW mode, NEW warnings,
           Finish(c, mode, warnings), mode # "file mode" => c = FromEnv(bridge.penv)
    PROVE  FromItsEnvironment'
<1>1. ListsIn(bridge.penv) BY DEF ListsInv, FromItsEnvironment
<1>2. CASE bridge' = Refused
  BY <1>2 DEF FromItsEnvironment, Refused
<1>3. CASE bridge' = Accepted(c, mode)
  <2>1. bridge'.penv = bridge.penv /\ bridge'.config = c /\ bridge'.mode = mode
    <3>1. bridge'.penv = bridge.penv BY <1>3, RunningFields
    <3>2. bridge'.config = c BY <1>3, RunningFields
    <3>3. bridge'.mode = mode BY <1>3, RunningFields
    <3> QED BY <3>1, <3>2, <3>3
  <2>2. ListsIn(bridge.penv)' BY <1>1, <2>1 DEF ListsIn
  <2>3. FromEnv(bridge.penv)' = FromEnv(bridge'.penv)
    BY DEF FromEnv, RoutesFromEnv, CommandsFromEnv, Text, List, Expand
  <2>4. bridge'.mode # "file mode" => bridge'.config = FromEnv(bridge'.penv)
    BY <2>1, Zenon
  <2> QED BY <2>2, <2>3, <2>4 DEF FromItsEnvironment
<1> QED BY <1>2, <1>3 DEF Finish

LEMMA InitLists == Init => ListsInv
<1> SUFFICES ASSUME Init PROVE ListsInv
  OBVIOUS
<1>1. TypeOK BY InitTypes
<1>2. DotEnvIsList BY ListsAssumption DEF Init, DotEnvIsList
<1>3. FromItsEnvironment BY DEF Init, Stopped, FromItsEnvironment
<1> QED BY <1>1, <1>2, <1>3 DEF ListsInv

LEMMA StepKeepsLists ==
    ASSUME ListsInv, [Next]_vars
    PROVE  ListsInv'
<1>1. TypeOK' BY StepTypes DEF ListsInv
<1>2. UNCHANGED dotenv => DotEnvIsList'
  BY DEF ListsInv, DotEnvIsList, IsList
<1>3. UNCHANGED bridge => FromItsEnvironment'
  BY DEF ListsInv, FromItsEnvironment, ListsIn, IsList
<1>4. DotEnvIsList' /\ FromItsEnvironment'
  <2>1. CASE Start
    <3>1. bridge'.at = "loading" /\ bridge'.penv = LoadDotEnv(dotenv, env)
      BY <2>1, LoadingFields DEF Start
    <3>2. ListsIn(bridge.penv)' BY <3>1, LoadedLists DEF ListsIn
    <3>3. FromItsEnvironment' BY <3>1, <3>2 DEF FromItsEnvironment
    <3> QED BY <2>1, <1>2, <3>3 DEF Start, fileVars
  <2>2. CASE Load
    <3>1. UNCHANGED dotenv BY <2>2 DEF Load, fileVars
    <3>2. bridge.at = "loading" BY <2>2 DEF Load
    <3>3. CASE LoadFails
      BY <3>3, <1>2, <3>1 DEF LoadFails, FromItsEnvironment, Refused
    <3>4. CASE LoadFile
      <4>1. ModeLine(bridge.penv, yaml) = "file mode" BY <3>4 DEF LoadFile, ModeLine
      <4>2. FromItsEnvironment' BY <3>2, <3>4, <4>1, LoadKeepsLists DEF LoadFile
      <4> QED BY <1>2, <3>1, <4>2
    <3>5. CASE LoadEnv
      <4>1. FromItsEnvironment' BY <3>2, <3>5, LoadKeepsLists DEF LoadEnv
      <4> QED BY <1>2, <3>1, <4>1
    <3> QED BY <2>2, <3>3, <3>4, <3>5 DEF Load
  <2>3. CASE Exit
    BY <2>3, <1>2 DEF Exit, Stopped, FromItsEnvironment, fileVars
  <2>4. CASE SetVariable \/ EditFile \/ WriteConfig \/ Abandon \/ UNCHANGED vars
    BY <2>4, <1>2, <1>3
    DEF SetVariable, EditFile, WriteConfig, Abandon, vars, fileVars, bridgeVars
  <2>5. CASE EditEnvFile
    <3>1. dotenv' \in EnvFiles /\ UNCHANGED bridge BY <2>5 DEF EditEnvFile, bridgeVars
    <3>2. DotEnvIsList' BY <3>1, ListsAssumption DEF DotEnvIsList
    <3> QED BY <1>3, <3>1, <3>2
  <2>6. CASE Ask
    <3>1. UNCHANGED dotenv BY <2>6 DEF Ask
    <3>2. CASE bridge.at = "loading"
      <4>1. bridge'.at = "loading" /\ bridge'.penv = bridge.penv
        BY <2>6, <3>2, LoadingFields DEF Ask
      <4>2. ListsIn(bridge.penv)' BY <3>2, <4>1 DEF ListsInv, FromItsEnvironment, ListsIn
      <4> QED BY <1>2, <3>1, <4>1, <4>2 DEF FromItsEnvironment
    <3>3. CASE bridge.at # "loading"
      BY <2>6, <1>2, <1>3, <3>1, <3>3 DEF Ask
    <3> QED BY <3>2, <3>3
  <2>7. CASE WriteEnv
    <3>1. UNCHANGED bridge BY <2>7 DEF WriteEnv, bridgeVars
    <3>2. CASE dotenv' = EnvContent(wizard.answers)
      BY <1>3, <3>1, <3>2, WizardLines DEF DotEnvIsList
    <3>3. CASE UNCHANGED dotenv
      BY <1>2, <1>3, <3>1, <3>3
    <3> QED BY <2>7, <3>2, <3>3 DEF WriteEnv
  <2> QED BY <2>1, <2>2, <2>3, <2>4, <2>5, <2>6, <2>7 DEF Next
<1> QED BY <1>1, <1>4 DEF ListsInv

\* commandsFromEnv makes a list.
LEMMA OwnCommands ==
    ASSUME NEW e, ListsIn(e)
    PROVE  \E S : CommandsFromEnv(e) \in Seq(S)
<1> DEFINE raw == List(e, "ODB_COMMANDS")
           n == Len(raw)
           K == {i \in 1 .. n : ~Blank(raw[i])}
           E == [i \in 1 .. n |-> Command(raw[i][1], raw[i][2], FALSE, FALSE)]
           q == [i \in 1 .. n |-> IF i \in K THEN <<E[i]>> ELSE <<>>]
           S == {E[i] : i \in 1 .. n}
<1>1. n \in Nat /\ DOMAIN raw = 1 .. n
  <2>1. CASE e["ODB_COMMANDS"] = {}
    <3>1. raw = <<>> BY <2>1 DEF List
    <3> QED BY <3>1
  <2>2. CASE e["ODB_COMMANDS"] # {}
    <3>1. raw \in e["ODB_COMMANDS"] BY <2>2 DEF List
    <3> HIDE DEF raw
    <3>2. IsList(raw) BY <3>1 DEF ListsIn, Lists
    <3> QED BY <3>2, LenProperties DEF IsList
  <2> QED BY <2>1, <2>2
<1>2. CommandsFromEnv(e) = FlattenSeq(q)
  <2> HIDE DEF raw
  <2>1. q = [i \in DOMAIN raw |->
               IF Blank(raw[i]) THEN <<>>
               ELSE <<Command(raw[i][1], raw[i][2], FALSE, FALSE)>>]
    BY <1>1
  <2> HIDE DEF q
  <2> QED BY <2>1 DEF CommandsFromEnv, raw
<1>3. FlattenSeq(q) \in Seq(S)
  <2>1. \A i \in 1 .. n : E[i] \in S OBVIOUS
  <2>2. \A i \in 1 .. n : q[i] = IF i \in K THEN <<E[i]>> ELSE <<>> OBVIOUS
  <2> HIDE DEF raw, n, K, E, S
  <2>3. \A i \in 1 .. n : q[i] \in Seq(S) BY <2>1, PartIsASeq
  <2>4. q \in [1 .. n -> Seq(S)] BY <2>3
  <2> HIDE DEF q
  <2>5. Parts(q, n, K, E, S) BY <1>1, <2>1, <2>2, <2>4 DEF Parts
  <2> QED BY <2>5, KeptElements
<1> HIDE DEF raw, S, q
<1> QED BY <1>2, <1>3

LEMMA OverridesFollow == ListsInv => OverridesHold
<1> SUFFICES ASSUME ListsInv, bridge.at = "running", bridge.mode # "file mode"
             PROVE  OverridesHold
  BY DEF OverridesHold
<1> DEFINE e == bridge.penv
           explicit == CommandsFromEnv(e)
           own == CmdMap(explicit)
           optOut == Text(e, "ODB_DEFAULT_COMMANDS") = "false"
           builtIn == IF optOut THEN <<>> ELSE CmdMap(DefaultCommands)
           want == [t \in DOMAIN own \cup DOMAIN builtIn |->
                       IF t \in DOMAIN own THEN own[t] ELSE builtIn[t]]
<1>1. ListsIn(e) /\ bridge.config = FromEnv(e) BY DEF ListsInv, FromItsEnvironment
<1>2. PICK S : explicit \in Seq(S) BY <1>1, OwnCommands
<1>3. bridge.config.commands = IF optOut THEN explicit ELSE MergeDefaultCommands(explicit)
  <2> HIDE DEF optOut, explicit, e
  <2>1. FromEnv(e).commands = IF Text(e, "ODB_DEFAULT_COMMANDS") = "false"
                              THEN CommandsFromEnv(e)
                              ELSE MergeDefaultCommands(CommandsFromEnv(e))
    BY DEF FromEnv
  <2> QED BY <1>1, <2>1, Zenon DEF optOut, explicit
<1> HIDE DEF explicit, optOut, e
<1>4. DOMAIN own = Triggers(explicit) BY TriggersOfElements
<1>5. CmdMap(bridge.config.commands) = want
  <2>1. CASE optOut
    <3>a. DOMAIN <<>> = {} BY EmptyDomain
    <3>c. builtIn = <<>> BY <2>1, Zenon
    <3>b. bridge.config.commands = explicit BY <1>3, <2>1
    <3>1. bridge.config.commands = explicit /\ DOMAIN builtIn = {} BY <3>a, <3>b, <3>c, Zenon
    <3>2. own = [t \in DOMAIN own |-> own[t]] BY MapIsFunction
    <3>3. DOMAIN own \cup DOMAIN builtIn = DOMAIN own BY <3>1
    <3> HIDE DEF own, builtIn
    <3>4. want = [t \in DOMAIN own |-> own[t]] BY <3>3
    <3> QED BY <3>1, <3>2, <3>4 DEF own
  <2>2. CASE ~optOut
    <3>1. bridge.config.commands = MergeDefaultCommands(explicit)
          /\ builtIn = CmdMap(DefaultCommands)
      BY <1>3, <2>2
    <3>2. DOMAIN builtIn = Triggers(DefaultCommands) BY <3>1, TriggersOfElements
    <3>3. CmdMap(MergeDefaultCommands(explicit))
          = [t \in Triggers(explicit) \cup Triggers(DefaultCommands) |->
                IF t \in Triggers(explicit) THEN own[t] ELSE builtIn[t]]
      BY <1>2, <3>1, MergedInForce
    <3> HIDE DEF own, builtIn
    <3> QED BY <1>4, <3>1, <3>2, <3>3
  <2> QED BY <2>1, <2>2
<1> QED BY <1>5, Zenon DEF OverridesHold, own, builtIn, want, explicit, optOut, e

\* Whatever the host sets and writes, a bridge in env-var mode answers each trigger
\* of ODB_COMMANDS with the host's last command for it, and each other built-in
\* trigger with the built-in command and its gate (mergeDefaultCommands, config.go:354).
THEOREM HostsCommandsHold == Spec => []OverridesHold
<1>1. ListsInv /\ [Next]_vars => ListsInv' BY StepKeepsLists
<1> QED BY <1>1, InitLists, OverridesFollow, PTL DEF Spec
=============================================================================
