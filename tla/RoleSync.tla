------------------------------- MODULE RoleSync -------------------------------
(***************************************************************************)
(* The Discord role and nickname of linked players: syncLinkedMembers       *)
(* (cmd/bridge/main.go) polls /odb-status and reconciles the members of the  *)
(* guild with the links of the game.  What it applied is remembered in       *)
(* memory only.                                                              *)
(*                                                                           *)
(* A step is one call: of the game, which answers with its links, with text  *)
(* that is not the mod's, or not at all (no step); or of Discord, which may  *)
(* refuse, and may refuse although it did what was asked.  Links change in   *)
(* between.  Which player's name a nickname shows is left out.               *)
(*                                                                           *)
(* Init and its like bear a prefix, because GuildProofs extends this module  *)
(* and Permissions.                                                          *)
(***************************************************************************)

CONSTANTS
    Players, Users, None,
    Owner           \* the guild's owner, whom nobody may rename, or None

ASSUME NoneAssumption == None \notin Users
ASSUME OwnerAssumption == Owner \in Users \cup {None}

VARIABLES
    links,          \* storage.odb.links: each player's user, or None
    config,         \* which of linked_role_id and linked_nickname are set
    ownerID,        \* what GuildOwnerID answered, None after an error
    pc,             \* where reconcile is
    cur,            \* reconcile: the users /odb-status reported
    todo,           \* the users the present loop of reconcile has still to visit
    visiting,       \* the user whose role is done and whose nickname is not, or None
    seen,           \* the users the role and nickname were applied to
    role, nick,     \* at Discord: who has the role, and a nickname of the bridge
    garbled,        \* history: the last answer of the game was not the mod's
    unsure,         \* history: users whose role changed behind the bridge's back
    steady          \* history: users linked at the last answer and ever since

discord  == <<role, nick>>
loop     == <<pc, cur, todo, visiting>>
history  == <<garbled, unsure, steady>>
syncVars == <<links, config, ownerID, loop, seen, discord, history>>

Linked(u) == \E p \in Players : links[p] = u

SyncInit ==
    /\ links = [p \in Players |-> None]
    /\ config \in (SUBSET {"role", "nick"}) \ {{}}
    /\ ownerID = None
    /\ pc = "down" /\ cur = {} /\ todo = {} /\ visiting = None /\ seen = {}
    /\ role = {} /\ nick = {}
    /\ garbled = FALSE /\ unsure = {} /\ steady = {}

-----------------------------------------------------------------------------
(* The game.                                                                *)

ChangeLink(p, u) ==
    /\ links[p] # u
    /\ links' = [links EXCEPT ![p] = u]
    /\ steady' = {v \in steady : \E q \in Players : links'[q] = v}
    /\ UNCHANGED <<config, ownerID, loop, seen, discord, garbled, unsure>>

-----------------------------------------------------------------------------
(* The bridge.                                                              *)

BridgeStarts ==
    /\ pc = "down"
    /\ pc' = "idle"
    /\ ownerID' \in {Owner, None}
    /\ UNCHANGED <<links, config, cur, todo, visiting, seen, discord, history>>

\* Who has the role is forgotten.
BridgeStops ==
    /\ pc # "down"
    /\ pc' = "down" /\ cur' = {} /\ todo' = {} /\ visiting' = None /\ seen' = {}
    /\ ownerID' = None
    /\ garbled' = FALSE /\ steady' = {}
    /\ unsure' = unsure \cup role
    /\ UNCHANGED <<links, config, discord>>

\* reconcile begins with the users in the answer.
Reported(users) ==
    /\ pc = "idle"
    /\ pc' = "apply"
    /\ cur' = users
    /\ todo' = users \ seen
    /\ steady' = {u \in Users : Linked(u)}
    /\ UNCHANGED <<links, config, ownerID, visiting, seen, discord, unsure>>

\* queryLinks: the mod answers.
Query ==
    /\ Reported({u \in Users : Linked(u)})
    /\ garbled' = FALSE

\* queryLinks: something else answers, which parseLinks takes for no links.
QueryGarbled ==
    /\ Reported({})
    /\ garbled' = TRUE

\* The first loop: AddRole.  Without a role configured it is skipped.
AddRole(u) ==
    /\ pc = "apply" /\ visiting = None /\ u \in todo
    /\ role' = IF "role" \in config THEN role \cup {u} ELSE role
    /\ visiting' = u
    /\ UNCHANGED <<links, config, ownerID, pc, cur, todo, seen, nick, history>>

\* Faulty variant: the user counts as seen although the call failed.
AddRoleFailsGoesOn(u) ==
    /\ "role" \in config
    /\ pc = "apply" /\ visiting = None /\ u \in todo
    /\ visiting' = u
    /\ UNCHANGED <<links, config, ownerID, pc, cur, todo, seen, discord, history>>

\* It fails: the user is left for the next poll.
AddRoleFails(u) ==
    /\ "role" \in config
    /\ pc = "apply" /\ visiting = None /\ u \in todo
    /\ todo' = todo \ {u}
    /\ \/ UNCHANGED <<role, unsure>>
       \/ u \notin role /\ role' = role \cup {u} /\ unsure' = unsure \cup {u}
    /\ UNCHANGED <<links, config, ownerID, pc, cur, visiting, seen, nick, garbled, steady>>

\* Both loops are done with the user: applied or reverted.
Visited(u, applied) ==
    /\ visiting' = None
    /\ todo' = todo \ {u}
    /\ seen' = IF applied THEN seen \cup {u} ELSE seen \ {u}
    /\ unsure' = unsure \ {u}
    /\ UNCHANGED <<links, config, ownerID, pc, cur, role, garbled, steady>>

\* SetNickname, then the user is remembered.
SetNick(u) ==
    /\ pc = "apply" /\ visiting = u
    /\ "nick" \in config /\ u # Owner
    /\ nick' = nick \cup {u}
    /\ Visited(u, TRUE)

\* It fails or is skipped: the user is remembered all the same.
NoNick(u) ==
    /\ pc = "apply" /\ visiting = u
    /\ Visited(u, TRUE)
    /\ UNCHANGED nick

\* Faulty variants of BeginRevert: members that are still linked are reverted as
\* well; nobody is.
BeginRevertAll ==
    /\ pc = "apply" /\ todo = {}
    /\ pc' = "revert"
    /\ todo' = seen
    /\ UNCHANGED <<links, config, ownerID, cur, visiting, seen, discord, history>>

BeginRevertNone ==
    /\ pc = "apply" /\ todo = {}
    /\ pc' = "revert"
    /\ UNCHANGED <<links, config, ownerID, cur, todo, visiting, seen, discord, history>>

\* The second loop visits whoever was seen and is not linked any more.
BeginRevert ==
    /\ pc = "apply" /\ todo = {}
    /\ pc' = "revert"
    /\ todo' = seen \ cur
    /\ UNCHANGED <<links, config, ownerID, cur, visiting, seen, discord, history>>

RemoveRole(u) ==
    /\ pc = "revert" /\ visiting = None /\ u \in todo
    /\ role' = IF "role" \in config THEN role \ {u} ELSE role
    /\ visiting' = u
    /\ UNCHANGED <<links, config, ownerID, pc, cur, todo, seen, nick, history>>

\* Faulty variant: the user is forgotten although the call failed.
RemoveRoleFailsForgets(u) ==
    /\ "role" \in config
    /\ pc = "revert" /\ visiting = None /\ u \in todo
    /\ todo' = todo \ {u}
    /\ seen' = seen \ {u}
    /\ UNCHANGED <<links, config, ownerID, pc, cur, visiting, discord, history>>

RemoveRoleFails(u) ==
    /\ "role" \in config
    /\ pc = "revert" /\ visiting = None /\ u \in todo
    /\ todo' = todo \ {u}
    /\ \/ UNCHANGED <<role, unsure>>
       \/ u \in role /\ role' = role \ {u} /\ unsure' = unsure \cup {u}
    /\ UNCHANGED <<links, config, ownerID, pc, cur, visiting, seen, nick, garbled, steady>>

\* SetNickname with an empty name; its error is ignored, and it is skipped for the
\* owner.
ClearNick(u) ==
    /\ pc = "revert" /\ visiting = u
    /\ nick' \in {nick} \cup (IF "nick" \in config /\ u \notin {Owner, ownerID}
                              THEN {nick \ {u}} ELSE {})
    /\ Visited(u, FALSE)

EndReconcile ==
    /\ pc = "revert" /\ todo = {}
    /\ pc' = "idle" /\ cur' = {}
    /\ UNCHANGED <<links, config, ownerID, todo, visiting, seen, discord, history>>

-----------------------------------------------------------------------------
Call(u) == \/ AddRole(u) \/ AddRoleFails(u) \/ SetNick(u) \/ NoNick(u)
           \/ RemoveRole(u) \/ RemoveRoleFails(u) \/ ClearNick(u)

Reconcile == \/ Query \/ QueryGarbled \/ BeginRevert \/ EndReconcile
             \/ \E u \in Users : Call(u)

SyncNext == \/ \E p \in Players, u \in Users \cup {None} : ChangeLink(p, u)
            \/ BridgeStarts \/ BridgeStops \/ Reconcile

SyncSpec == SyncInit /\ [][SyncNext]_syncVars

\* The ticker ticks and calls return; of endlessly many calls for a user one
\* succeeds.
SyncFairSpec ==
    /\ SyncSpec
    /\ WF_syncVars(Reconcile)
    /\ \A u \in Users : /\ SF_syncVars(AddRole(u))
                       /\ SF_syncVars(SetNick(u))
                       /\ SF_syncVars(RemoveRole(u))

-----------------------------------------------------------------------------
\* Types; the loops visit only the newly linked and the newly unlinked.
SyncTypeOK ==
    /\ links \in [Players -> Users \cup {None}]
    /\ config \subseteq {"role", "nick"}
    /\ ownerID \in {Owner, None}
    /\ pc \in {"down", "idle", "apply", "revert"}
    /\ cur \subseteq Users /\ seen \subseteq Users
    /\ todo \subseteq (IF pc = "apply" THEN cur \ seen ELSE seen \ cur)
    /\ pc \in {"down", "idle"} => todo = {}
    /\ visiting \in todo \cup {None}
    /\ role \subseteq Users /\ nick \subseteq Users
    /\ garbled \in BOOLEAN /\ unsure \subseteq Users /\ steady \subseteq Users

\* Whoever the bridge believes to have the role has it, or the belief would keep
\* the bridge from ever giving it (main.go:571, 588).  A call that failed after it
\* took effect is the exception.
SeenHaveRole ==
    "role" \in config => seen \ (unsure \cup {visiting}) \subseteq role

\* No role is forgotten: whoever has it is remembered, or being visited, and so
\* loses it after an unlink; except over a restart of the bridge and for a call
\* that failed after it took effect (main.go:590-604).
RolesAreRemembered == role \subseteq seen \cup unsure \cup {visiting}

\* A member who was linked at the last poll and has been since does not lose the
\* role, however long the calls take and whatever fails, as long as it is the mod
\* that answers (main.go:590-593).
LinkedKeepRole ==
    [][\A u \in steady \cap role : u \in role' \/ garbled]_syncVars

\* main.go:515-516: while the mod is unreachable, nothing is changed at Discord.
NoChurn ==
    [][garbled => UNCHANGED discord]_syncVars

Running(u) == pc # "down" /\ ~garbled /\ u \notin unsure

\* main.go:277, 546-549: the role of a member whose link stays follows it, and so
\* does that of a member who stays unlinked.
RoleFollowsLink ==
    "role" \in config => \A u \in Users :
        /\ <>[](Running(u) /\ Linked(u)) => <>[](u \in role)
        /\ <>[](Running(u) /\ ~Linked(u)) => <>[](u \notin role)

\* main.go:548-549: errors, of nicknames too, are logged and retried.
NickFollowsLink ==
    "nick" \in config => \A u \in Users \ {Owner} :
        <>[](Running(u) /\ Linked(u)) => <>[](u \in nick)
=============================================================================
