----------------------------- MODULE MCConfigLoad -----------------------------
(* ConfigLoad for TLC: hosts with a few contested variables and files. *)
EXTENDS ConfigLoad, TLC

\* A variable that is never set, and one that has one value
Never == {{}}
Sometimes(x) == {{}, {x}}

MCSettings ==
    [ODB_CONFIG |-> {{}, {""}, {"none"}},
     DISCORD_BOT_TOKEN |-> {{}, {"real"}, {""}},
     FACTORIO_RCON_PASSWORD |-> Sometimes("real"),
     SFTP_PASSWORD |-> Never,
     BRIDGE_CONTROL_TOKEN |-> Sometimes("real"),
     ODB_TRANSPORT |-> Sometimes("sftp"),
     ODB_RCON_ADDRESS |-> {{"game:27015"}},
     ODB_EVENTS_FILE |-> Sometimes("${DIR}"),
     DIR |-> {{"events"}},
     ODB_SFTP_HOST |-> Sometimes("panel:2022"),
     ODB_SFTP_USER |-> Sometimes("user"),
     ODB_SFTP_KEY_PATH |-> Sometimes("key"),
     ODB_POLL_INTERVAL |-> {{}, {"0s"}, {"2s"}, {"2"}},
     ODB_ROUTES |-> {{}, {<<<<>>>>}, {<<<<"mts.*", "c2">>, <<>>>>}, {<<<<"mts.*">>>>}},
     ODB_DISCORD_CHANNEL_ID |-> Sometimes("c1"),
     ODB_COMMANDS |-> {{}, {<<<<"!kick">>>>},
                       {<<<<"!unlink-all", "/odb-links">>, <<>>, <<"!unlink-all", "/kick">>>>}},
     ODB_DEFAULT_COMMANDS |-> Sometimes("false"),
     ODB_CONTROL_API_ENABLED |-> Sometimes("true"),
     ODB_CONTROL_API_LISTEN |-> Never]

Bare == [v \in DOMAIN MCSettings |-> IF {} \in MCSettings[v] THEN {} ELSE CHOOSE x \in MCSettings[v] : TRUE]

\* A panel that sets everything the bridge needs
Panel ==
    [Bare EXCEPT !["DISCORD_BOT_TOKEN"] = {"real"}, !["FACTORIO_RCON_PASSWORD"] = {"real"},
                 !["ODB_EVENTS_FILE"] = {"${DIR}"}, !["ODB_DISCORD_CHANNEL_ID"] = {"c1"},
                 !["BRIDGE_CONTROL_TOKEN"] = {"real"}]

\* ... and reaches the files over SFTP
PanelSFTP ==
    [Panel EXCEPT !["ODB_TRANSPORT"] = {"sftp"}, !["ODB_SFTP_HOST"] = {"panel:2022"},
                  !["ODB_SFTP_USER"] = {"user"}, !["ODB_SFTP_KEY_PATH"] = {"key"},
                  !["ODB_CONTROL_API_ENABLED"] = {"true"}]

MCEnvironments == {Bare, Panel, PanelSFTP}

NoAnswers ==
    [guild |-> "g", channel |-> "c1", token |-> "typed", transport |-> "", address |-> "",
     host |-> "", user |-> "", useKey |-> FALSE, key |-> "", sftpPassword |-> "",
     knownHosts |-> "",
     events |-> "", rconPassword |-> "typed"]

MCAnswers ==
    {NoAnswers,
     [NoAnswers EXCEPT !.rconPassword = "''"],
     [NoAnswers EXCEPT !.address = "[::1]:27015"],
     [NoAnswers EXCEPT !.transport = "sftp", !.host = "panel:2022", !.user = "user",
                       !.sftpPassword = "typed"],
     [NoAnswers EXCEPT !.transport = "sftp", !.host = "panel:2022", !.user = "user",
                       !.useKey = TRUE],
     [NoAnswers EXCEPT !.transport = "sftp", !.host = "panel:2022", !.user = "user",
                       !.useKey = TRUE, !.key = "key"],
     [NoAnswers EXCEPT !.transport = "sftp", !.host = "panel:2022", !.user = "# user",
                       !.useKey = TRUE, !.key = "key"]}

MCTextChannels == [g |-> {"c1"}]

\* A file with a control API and a key that is not the bridge's
HandWritten ==
    [RenderBridgeYAML(NoAnswers) EXCEPT !.control = TRUE, !.controlEnv = "BRIDGE_CONTROL_TOKEN",
                                        !.poll = 0, !.stray = {"rcon"}]

MCFiles == {NoFile, Unreadable, HandWritten}

MCEnvFiles ==
    {<<>>,
     <<Line("DISCORD_BOT_TOKEN", "file"), Line("FACTORIO_RCON_PASSWORD", "file"),
       Line("DISCORD_BOT_TOKEN", "again"), Line("ODB_CONFIG", "'none'")>>}

MCReferences == [x \in {"${DIR}"} |-> "DIR"]

\* A text that YAML takes for a list and more, and one that it takes for a comment
MCScalars == ("[::1]:27015" :> {}) @@ ("# user" :> {""})
MCQuoted == ("''" :> "") @@ ("'none'" :> "none")
MCSeconds == ("0s" :> 0) @@ ("2s" :> 2)

=============================================================================
