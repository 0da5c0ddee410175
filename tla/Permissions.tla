----------------------------- MODULE Permissions -----------------------------
(***************************************************************************)
(* The permission monitor of the bridge (main.go) and CheckPermissions      *)
(* (discord.go).                                                            *)
(*                                                                          *)
(* A check is a sequence of REST calls: the guild and its roles, the bot's  *)
(* member, each bridged channel, the channel of the topic.  Each call shows *)
(* the guild as it is at that moment, and admins edit roles and channels    *)
(* between any two of them.  Calls may fail.  The monitor checks at once,   *)
(* warns, and checks again until nothing is missing.                        *)
(*                                                                          *)
(* A permission set is a set of names.  Nothing here is persisted: a bridge *)
(* that is restarted begins in Init, with the guild as it is.               *)
(***************************************************************************)
EXTENDS Integers, FiniteSets

CONSTANTS
    Channels,       \* pc.ChannelIDs, captured when the monitor starts
    TopicChannel,   \* the channel of the first route
    Roles,          \* the guild's roles but @everyone
    Everyone, Bot,  \* the targets of overwrites that are no roles
    Position,       \* the position of every role
    LinkedRole,     \* linked_role_id; it may name no role
    Needs,          \* which of "roles", "nicks", "topic" are configured
    Grants,         \* the permission sets @everyone and each role may have
    Overwrites,     \* the overwrites, [allow, deny], of channels
    Editable,       \* bound: the <<channel, target>> pairs admins overwrite
    MaxEdits,       \* bound: how often admins edit while the monitor runs
    HasWarnRoute    \* is bridge.warning routed (hasWarnCh)?

Holders == Roles \cup {Everyone}
Targets == Holders \cup {Bot}
Neutral == [allow |-> {}, deny |-> {}]
Messaging == {"ViewChannel", "SendMessages", "ReadMessageHistory"}
Permissions == Messaging \cup {"ManageRoles", "ManageNicknames", "ManageChannels",
                               "Administrator"}

ASSUME ChannelsAssumption == TopicChannel \in Channels
ASSUME TargetsAssumption == Everyone \notin Roles /\ Bot \notin Holders
ASSUME PositionAssumption == Position \in [Roles -> Nat \ {0}]
ASSUME NeedsAssumption == Needs \subseteq {"roles", "nicks", "topic"}
ASSUME GrantsAssumption == Grants \in [Holders -> SUBSET SUBSET Permissions]
ASSUME OverwritesAssumption ==
    /\ Overwrites \subseteq [allow : SUBSET Permissions, deny : SUBSET Permissions]
    /\ Neutral \in Overwrites
    /\ Editable \subseteq Channels \X Targets
ASSUME BoundsAssumption == MaxEdits \in Nat /\ HasWarnRoute \in BOOLEAN

GrantTables == {g \in [Holders -> SUBSET Permissions] : \A h \in Holders : g[h] \in Grants[h]}

VARIABLES
    hasID,          \* is guild_id configured?  (pc.GuildID # "")
    owner,          \* does the bot own the guild?
    grants,         \* the permissions of @everyone and of every role
    held,           \* the roles of the bot's member
    over,           \* the overwrites of every channel
    at,             \* CheckPermissions: the call it makes next
    grantsRead,     \* CheckPermissions: byID
    heldRead,       \* CheckPermissions: member.Roles
    chansRead,      \* CheckPermissions: channels, those that could be read
    left,           \* CheckPermissions: the channels not asked for yet
    report,         \* what CheckPermissions returned last
    mon,            \* the monitor: "first" check, "loop" or "done"
    warned, confirmed,      \* the monitor has posted its warning, its confirmation
    edits,          \* history: counter for the bound
    changed,        \* history: the guild was edited during this check
    skipped         \* history: a channel could not be read in this check

guild   == <<hasID, owner, grants, held, over>>
locals  == <<grantsRead, heldRead, chansRead, left>>
monitor == <<mon, warned, confirmed>>
vars    == <<guild, at, locals, report, monitor, edits, changed, skipped>>

-----------------------------------------------------------------------------
(* PermissionReport.                                                        *)

Report(missing, hierarchy) == [err |-> FALSE, missing |-> missing, hierarchy |-> hierarchy]
Nothing == Report({}, FALSE)
CannotCheck == [err |-> TRUE, missing |-> {}, hierarchy |-> FALSE]

\* Faulty variant: an error is not looked at.
NothingReported(r) == r.missing = {} /\ ~r.hierarchy

IsOK(r) == r.missing = {} /\ ~r.hierarchy /\ ~r.err

-----------------------------------------------------------------------------
(* What CheckPermissions computes from what it has read.                    *)

NoGrants == [h \in Holders |-> {}]
NoChannels == [c \in {} |-> {}]

Base(g, h) == g[Everyone] \cup UNION {g[r] : r \in h}

Apply(perms, o, targets) ==
    (perms \ UNION {o[t].deny : t \in targets}) \cup UNION {o[t].allow : t \in targets}

\* Faulty variant: the overwrite for the bot itself comes before those of its roles.
EffectiveMemberFirst(perms, o, h) ==
    Apply(Apply(Apply(perms, o, {Everyone}), o, {Bot}), o, h)

\* First the overwrite of @everyone, then those of the bot's roles, then the bot's own.
Effective(perms, o, h) ==
    Apply(Apply(Apply(perms, o, {Everyone}), o, h), o, {Bot})

\* needMsg: in every channel that was read, or in the guild if none was.
LacksMessaging(perms, p) ==
    IF DOMAIN chansRead = {} THEN p \notin perms
    ELSE \E c \in DOMAIN chansRead : p \notin Effective(perms, chansRead[c], heldRead)

\* The bot's highest role is not above the linked role.
NotAbove(h) == /\ "roles" \in Needs /\ LinkedRole \in Roles
               /\ \A r \in h : Position[r] <= Position[LinkedRole]

Findings(topicRead) ==
    LET perms == Base(grantsRead, heldRead)
        Lacks(need, p) == need \in Needs /\ p \notin perms
    IN Report({p \in Messaging : LacksMessaging(perms, p)}
              \cup {p \in {"ManageRoles"} : Lacks("roles", p)}
              \cup {p \in {"ManageNicknames"} : Lacks("nicks", p)}
              \cup {p \in {"ManageChannels"} : topicRead
                    /\ p \notin Effective(perms, over[TopicChannel], heldRead)},
              NotAbove(heldRead))

-----------------------------------------------------------------------------
Init ==
    /\ hasID \in BOOLEAN /\ owner \in BOOLEAN
    /\ grants \in GrantTables /\ held \in SUBSET Roles
    /\ over \in {o \in [Channels -> [Targets -> Overwrites]] :
                   \A c \in Channels, t \in Targets : <<c, t>> \notin Editable => o[c][t] = Neutral}
    /\ at = "guild"
    /\ grantsRead = NoGrants /\ heldRead = {} /\ chansRead = NoChannels /\ left = {}
    /\ report = CannotCheck
    /\ mon = "first" /\ warned = FALSE /\ confirmed = FALSE
    /\ edits = 0 /\ changed = FALSE /\ skipped = FALSE

(* Admins.                                                                  *)

Edit ==
    /\ edits < MaxEdits
    /\ edits' = edits + 1
    /\ changed' = (at # "guild")
    /\ UNCHANGED <<hasID, owner, at, locals, report, monitor, skipped>>

EditRole(h, g) ==
    /\ Edit
    /\ grants' = [grants EXCEPT ![h] = g]
    /\ UNCHANGED <<held, over>>

GiveRole(r) ==
    /\ Edit
    /\ held' \in {held \cup {r}, held \ {r}} /\ held' # held
    /\ UNCHANGED <<grants, over>>

EditChannel(c, t, o) ==
    /\ Edit
    /\ over' = [over EXCEPT ![c][t] = o]
    /\ UNCHANGED <<grants, held>>

-----------------------------------------------------------------------------
(* CheckPermissions, a call at a time.                                      *)

Return(r) ==
    /\ at' = "report" /\ report' = r
    /\ grantsRead' = NoGrants /\ heldRead' = {} /\ chansRead' = NoChannels /\ left' = {}

Step == UNCHANGED <<guild, monitor, edits, changed>>

\* The guild and its roles.  Without guild_id there is no call, and nothing is
\* reported; so it is for the owner of the guild.
ReadGuild ==
    /\ at = "guild" /\ mon # "done"
    /\ IF ~hasID \/ owner
       THEN Return(Nothing)
       ELSE /\ grantsRead' = grants /\ at' = "member"
            /\ UNCHANGED <<heldRead, chansRead, left, report>>
    /\ UNCHANGED skipped /\ Step

\* One of the two calls fails.
ReadGuildFails ==
    /\ at = "guild" /\ mon # "done" /\ hasID
    /\ Return(CannotCheck)
    /\ UNCHANGED skipped /\ Step

\* The bot's member; an administrator is not looked at further.
ReadMember ==
    /\ at = "member"
    /\ IF "Administrator" \in Base(grantsRead, held)
       THEN Return(Nothing)
       ELSE /\ heldRead' = held /\ left' = Channels /\ at' = "channels"
            /\ UNCHANGED <<grantsRead, chansRead, report>>
    /\ UNCHANGED skipped /\ Step

ReadMemberFails ==
    /\ at = "member"
    /\ Return(CannotCheck)
    /\ UNCHANGED skipped /\ Step

ReadChannel(c) ==
    /\ at = "channels" /\ c \in left
    /\ chansRead' = [d \in DOMAIN chansRead \cup {c} |->
                        IF d = c THEN over[c] ELSE chansRead[d]]
    /\ left' = left \ {c}
    /\ UNCHANGED <<at, grantsRead, heldRead, report, skipped>> /\ Step

\* A channel that cannot be read is left out.
ReadChannelFails(c) ==
    /\ at = "channels" /\ c \in left
    /\ left' = left \ {c} /\ skipped' = TRUE
    /\ UNCHANGED <<at, grantsRead, heldRead, chansRead, report>> /\ Step

\* The channel of the topic, if the topic is kept, and the report.
Conclude ==
    /\ at = "channels" /\ left = {}
    /\ \/ Return(Findings("topic" \in Needs)) /\ UNCHANGED skipped
       \/ "topic" \in Needs /\ Return(Findings(FALSE)) /\ skipped' = TRUE
    /\ Step

-----------------------------------------------------------------------------
(* The monitor, given a report.                                             *)

Handled ==
    /\ at = "report" /\ at' = "guild"
    /\ changed' = FALSE /\ skipped' = FALSE
    /\ UNCHANGED <<guild, locals, report, edits>>

\* At startup: an error is only logged, anything missing is posted.
HandleFirst ==
    /\ mon = "first"
    /\ mon' = IF IsOK(report) THEN "done" ELSE "loop"
    /\ warned' = (HasWarnRoute /\ ~report.err /\ ~IsOK(report))
    /\ UNCHANGED confirmed /\ Handled

\* Faulty variant: only who was warned is told.
HandleAfterWarning ==
    /\ mon = "loop"
    /\ IF ~report.err /\ IsOK(report) /\ warned
       THEN mon' = "done" /\ confirmed' = HasWarnRoute
       ELSE UNCHANGED <<mon, confirmed>>
    /\ UNCHANGED warned /\ Handled

\* In the loop: only a report without fault is posted, and ends the monitor.
HandleLater ==
    /\ mon = "loop"
    /\ IF ~report.err /\ IsOK(report)
       THEN mon' = "done" /\ confirmed' = HasWarnRoute
       ELSE UNCHANGED <<mon, confirmed>>
    /\ UNCHANGED warned /\ Handled

-----------------------------------------------------------------------------
Admins == \/ \E h \in Holders : \E g \in Grants[h] : EditRole(h, g)
          \/ \E r \in Roles : GiveRole(r)
          \/ \E e \in Editable, o \in Overwrites : EditChannel(e[1], e[2], o)

Monitor == \/ ReadGuild \/ ReadGuildFails \/ ReadMember \/ ReadMemberFails
           \/ \E c \in Channels : ReadChannel(c) \/ ReadChannelFails(c)
           \/ Conclude \/ HandleFirst \/ HandleLater

Next == Admins \/ Monitor

Spec == Init /\ [][Next]_vars

\* The ticker ticks and calls return; of endlessly many calls of a kind one succeeds.
FairSpec == Spec /\ WF_vars(Monitor) /\ SF_vars(ReadGuild) /\ SF_vars(ReadMember)
                 /\ \A c \in Channels : SF_vars(ReadChannel(c))

-----------------------------------------------------------------------------
(* What Discord allows the bot, permission by permission.                   *)

Privileged == owner \/ "Administrator" \in Base(grants, held)

HasInGuild(p) == Privileged \/ \E h \in held \cup {Everyone} : p \in grants[h]

\* The bot's own overwrite decides, else those of its roles, of which one that
\* allows is enough, else that of @everyone, else the guild.
CanIn(c, p) ==
    LET Allows(t) == p \in over[c][t].allow
        Denies(t) == p \in over[c][t].deny /\ ~Allows(t)
        RoleAllows == \E r \in held : Allows(r)
        RoleDenies == \E r \in held : Denies(r)
        Undecided == HasInGuild(p)
    IN \/ Privileged
       \/ Allows(Bot)
       \/ ~Denies(Bot) /\ RoleAllows
       \/ ~Denies(Bot) /\ ~RoleDenies /\ Allows(Everyone)
       \/ ~Denies(Bot) /\ ~RoleDenies /\ ~Denies(Everyone) /\ Undecided

Lacking == {p \in Messaging : \E c \in Channels : ~CanIn(c, p)}
           \cup {p \in {"ManageRoles"} : "roles" \in Needs /\ ~HasInGuild(p)}
           \cup {p \in {"ManageNicknames"} : "nicks" \in Needs /\ ~HasInGuild(p)}
           \cup {p \in {"ManageChannels"} : "topic" \in Needs /\ ~CanIn(TopicChannel, p)}

\* The bot may do all it is configured to do.  The code does not ask for the
\* place of an administrator's role.
Granted == Lacking = {} /\ (NotAbove(held) => Privileged)

-----------------------------------------------------------------------------
\* Types; a channel is read or still to be asked for, never both, and the copies
\* of what was read are gone when the check is over.
TypeOK ==
    /\ hasID \in BOOLEAN /\ owner \in BOOLEAN
    /\ grants \in GrantTables /\ held \subseteq Roles
    /\ over \in [Channels -> [Targets -> Overwrites]]
    /\ at \in {"guild", "member", "channels", "report"}
    /\ grantsRead \in [Holders -> SUBSET Permissions] /\ heldRead \subseteq Roles
    /\ left \subseteq Channels /\ DOMAIN chansRead \subseteq Channels \ left
    /\ \A c \in DOMAIN chansRead : chansRead[c] \in [Targets -> Overwrites]
    /\ at \in {"guild", "report"} => grantsRead = NoGrants
    /\ at # "channels" => heldRead = {} /\ chansRead = NoChannels /\ left = {}
    /\ report \in [err : BOOLEAN, missing : SUBSET Permissions, hierarchy : BOOLEAN]
    /\ mon \in {"first", "loop", "done"} /\ warned \in BOOLEAN /\ confirmed \in BOOLEAN
    /\ edits \in 0 .. MaxEdits /\ changed \in BOOLEAN /\ skipped \in BOOLEAN

\* With guild_id configured, a report names exactly the permissions the bot lacks, and
\* the linked role if it is out of reach: the three layers of overwrites are applied in
\* Discord's order, whatever they allow and deny (discord.go:310-338).  The guild was
\* not edited during the check, and every channel could be read.
ReportIsTrue ==
    hasID /\ at = "report" /\ ~report.err /\ ~changed /\ ~skipped =>
        /\ report.missing = Lacking
        /\ report.hierarchy <=> (NotAbove(held) /\ ~Privileged)

\* A check that ends the monitor, during which the guild stood still and answered.
CleanEnd == mon' = "done" /\ mon # "done" /\ ~changed /\ ~skipped

\* With guild_id configured, the monitor ends, with or without its "all permissions
\* granted", only at a moment when they are: it is never misled by a check that failed
\* (main.go:257-269).  The guild was not edited during the last check, and every channel
\* could be read.
StopsWhenGranted == [][CleanEnd /\ hasID => Granted]_vars

\* main.go:213-214, "retry every 20s until all permissions are granted": once they
\* are, the monitor finds out, although calls fail.
EventuallyDone == <>[]Granted => <>(mon = "done")

\* main.go:213-214, "Posts a warning when something is missing": after a check that
\* found something missing the warning has been posted.
WarnedWhenMissing ==
    HasWarnRoute /\ at = "guild" /\ mon = "loop" /\ ~report.err => warned
=============================================================================
