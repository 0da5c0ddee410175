------------------------------ MODULE MCLinkCodes ------------------------------
(* LinkCodes for TLC: an admin and a member, and the commands of the docs. *)
EXTENDS LinkCodes, TLC

CONSTANTS alice, bob

Configured(trigger, op, params, admin, link) ==
    [trigger |-> trigger, op |-> op, params |-> params, admin |-> admin, link |-> link]

MCCommands ==
    <<Configured("!link", "confirm", <<"1", "userid">>, FALSE, TRUE),
      Configured("!unlink", "unlink-discord", <<"userid">>, FALSE, FALSE),
      Configured("!unlink-player", "unlink-player", <<"args">>, TRUE, FALSE),
      Configured("!unlink-all", "unlink-all", <<>>, TRUE, FALSE)>>

MCSlashName ==
    ("!link" :> "link") @@ ("!unlink" :> "unlink")
    @@ ("!unlink-player" :> "unlink-player") @@ ("!unlink-all" :> "unlink-all")

\* Alice is an admin by a role; the permission is not looked at.
MCRolesOf == (alice :> {"admins"}) @@ (bob :> {})

CodeSymmetry == Permutations(Codes) \cup Permutations(Handlers)
=============================================================================
