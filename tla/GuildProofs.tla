----------------------------- MODULE GuildProofs -----------------------------
(***************************************************************************)
(* Theorems about what the bridge finds and does in a Discord guild: about  *)
(* Permissions, for every set of channels, roles and overwrites, and about  *)
(* RoleSync, for any number of players and users.  The two share no state.  *)
(***************************************************************************)
EXTENDS Permissions, RoleSync, TLAPS

USE DEF Holders, Targets

-----------------------------------------------------------------------------
(* Operators.                                                               *)

\* What a layer of overwrites makes of a permission.
LEMMA ApplyLayer ==
    ASSUME NEW perms, NEW o, NEW targets, NEW p
    PROVE  p \in Apply(perms, o, targets) <=>
             \/ \E t \in targets : p \in o[t].allow
             \/ p \in perms /\ \A t \in targets : p \notin o[t].deny
BY DEF Apply

\* The three layers decide as Discord does: the code's set operations and the
\* decision by permission agree for a bot without privileges.
LEMMA EffectiveIsAllowed ==
    ASSUME NEW c \in Channels, NEW p, ~Privileged
    PROVE  p \in Effective(Base(grants, held), over[c], held) <=> CanIn(c, p)
<1> DEFINE o == over[c]
           perms == Base(grants, held)
           first == Apply(perms, o, {Everyone})
           second == Apply(first, o, held)
<1>1. p \in first <=> p \in o[Everyone].allow \/ (p \in perms /\ p \notin o[Everyone].deny)
  BY ApplyLayer
<1>2. p \in second <=>
        \/ \E r \in held : p \in o[r].allow
        \/ p \in first /\ \A r \in held : p \notin o[r].deny
  BY ApplyLayer
<1>3. p \in Effective(perms, o, held) <=>
        p \in o[Bot].allow \/ (p \in second /\ p \notin o[Bot].deny)
  BY ApplyLayer DEF Effective
<1>4. p \in perms <=> HasInGuild(p)
  BY DEF Base, HasInGuild
<1> QED
  BY <1>1, <1>2, <1>3, <1>4, Zenon DEF CanIn

-----------------------------------------------------------------------------
(* Types.                                                                   *)

LEMMA FindingsType ==
    ASSUME NEW topicRead
    PROVE  Findings(topicRead) \in [err : {FALSE}, missing : SUBSET Permissions, hierarchy : BOOLEAN]
BY DEF Findings, Report, NotAbove, Permissions, Messaging

LEMMA ReturnType ==
    ASSUME TypeOK, NEW r \in [err : BOOLEAN, missing : SUBSET Permissions, hierarchy : BOOLEAN],
           Return(r), Step, skipped' \in BOOLEAN
    PROVE  TypeOK'
BY DEF TypeOK, Return, Step, guild, monitor, NoGrants, NoChannels

LEMMA EditType ==
    ASSUME TypeOK, Admins
    PROVE  TypeOK'
<1>1. ASSUME Edit
      PROVE  edits' \in 0 .. MaxEdits /\ changed' \in BOOLEAN
  BY <1>1, BoundsAssumption DEF Edit, TypeOK
<1>2. ASSUME Edit, grants' \in GrantTables, held' \subseteq Roles,
             over' \in [Channels -> [Targets -> Overwrites]]
      PROVE  TypeOK'
  <2>1. UNCHANGED <<hasID, owner, at, grantsRead, heldRead, chansRead, left, report, mon, warned,
                    confirmed, skipped>>
    BY <1>2 DEF Edit, locals, monitor
  <2> QED BY <1>1, <1>2, <2>1 DEF TypeOK
<1>3. ASSUME NEW h \in Holders, NEW g \in Grants[h], EditRole(h, g)
      PROVE  TypeOK'
  <2>1. grants' \in GrantTables
    BY <1>3, GrantsAssumption DEF EditRole, GrantTables, TypeOK
  <2> QED BY <1>2, <1>3, <2>1 DEF EditRole, TypeOK
<1>4. ASSUME NEW r \in Roles, GiveRole(r)
      PROVE  TypeOK'
  BY <1>2, <1>4 DEF GiveRole, TypeOK
<1>5. ASSUME NEW e \in Editable, NEW o \in Overwrites, EditChannel(e[1], e[2], o)
      PROVE  TypeOK'
  <2>1. over' \in [Channels -> [Targets -> Overwrites]]
    BY <1>5 DEF EditChannel, TypeOK
  <2> QED BY <1>2, <1>5, <2>1 DEF EditChannel, TypeOK
<1> QED
  BY <1>3, <1>4, <1>5 DEF Admins

LEMMA MonitorType ==
    ASSUME TypeOK, Monitor
    PROVE  TypeOK'
<1> DEFINE Reports == [err : BOOLEAN, missing : SUBSET Permissions, hierarchy : BOOLEAN]
<1>a. Nothing \in Reports /\ CannotCheck \in Reports
  BY DEF Nothing, Report, CannotCheck
<1>b. skipped \in BOOLEAN
  BY DEF TypeOK
<1>1. CASE ReadGuild
  <2>1. CASE ~hasID \/ owner
    BY <1>1, <2>1, <1>a, <1>b, ReturnType DEF ReadGuild
  <2>2. CASE hasID /\ ~owner
    <3>1. grants \in [Holders -> SUBSET Permissions]
      BY DEF TypeOK, GrantTables
    <3> QED
      BY <1>1, <2>2, <3>1 DEF ReadGuild, TypeOK, Step, guild, monitor
  <2> QED BY <2>1, <2>2
<1>2. CASE ReadGuildFails
  BY <1>2, <1>a, <1>b, ReturnType DEF ReadGuildFails
<1>3. CASE ReadMember
  <2>1. CASE "Administrator" \in Base(grantsRead, held)
    BY <1>3, <2>1, <1>a, <1>b, ReturnType DEF ReadMember
  <2>2. CASE "Administrator" \notin Base(grantsRead, held)
    BY <1>3, <2>2 DEF ReadMember, TypeOK, Step, guild, monitor, NoChannels
  <2> QED BY <2>1, <2>2
<1>4. CASE ReadMemberFails
  BY <1>4, <1>a, <1>b, ReturnType DEF ReadMemberFails
<1>5. ASSUME NEW c \in Channels, ReadChannel(c)
      PROVE  TypeOK'
  <2>1. over[c] \in [Targets -> Overwrites]
    BY DEF TypeOK
  <2>2. DOMAIN chansRead' = DOMAIN chansRead \cup {c}
    BY <1>5 DEF ReadChannel
  <2>3. \A d \in DOMAIN chansRead' : chansRead'[d] \in [Targets -> Overwrites]
    BY <1>5, <2>1 DEF ReadChannel, TypeOK
  <2> QED
    BY <1>5, <2>2, <2>3 DEF ReadChannel, TypeOK, Step, guild, monitor
<1>6. ASSUME NEW c \in Channels, ReadChannelFails(c)
      PROVE  TypeOK'
  BY <1>6 DEF ReadChannelFails, TypeOK, Step, guild, monitor
<1>7. CASE Conclude
  <2>1. Findings("topic" \in Needs) \in Reports /\ Findings(FALSE) \in Reports
    BY FindingsType
  <2> QED
    BY <1>7, <1>b, <2>1, ReturnType DEF Conclude
<1>8. CASE HandleFirst \/ HandleLater
  BY <1>8, BoundsAssumption
  DEF HandleFirst, HandleLater, Handled, TypeOK, guild, locals
<1> QED
  BY <1>1, <1>2, <1>3, <1>4, <1>5, <1>6, <1>7, <1>8 DEF Monitor

-----------------------------------------------------------------------------
(* What a check has read is the guild as it is, unless it was edited.       *)

RolesAreCurrent ==
    at \in {"member", "channels"} => ~owner /\ (~changed => grantsRead = grants)

MemberIsCurrent ==
    at = "channels" /\ ~changed =>
        heldRead = held /\ "Administrator" \notin Base(grants, held)

ChannelsAreCurrent ==
    at = "channels" =>
        /\ ~changed => \A c \in DOMAIN chansRead : chansRead[c] = over[c]
        /\ ~skipped => DOMAIN chansRead = Channels \ left

IInv == TypeOK /\ RolesAreCurrent /\ MemberIsCurrent /\ ChannelsAreCurrent /\ ReportIsTrue

\* A check starts from nothing.
LEMMA InitInv == Init => IInv
<1> SUFFICES ASSUME Init PROVE IInv
  OBVIOUS
<1>1. NoGrants \in [Holders -> SUBSET Permissions] /\ DOMAIN NoChannels = {}
  BY DEF NoGrants, NoChannels
<1>2. CannotCheck \in [err : BOOLEAN, missing : SUBSET Permissions, hierarchy : BOOLEAN]
  BY DEF CannotCheck
<1>3. over \in [Channels -> [Targets -> Overwrites]] /\ edits \in 0 .. MaxEdits
  <2>1. over \in [Channels -> [Targets -> Overwrites]] BY DEF Init
  <2>2. edits \in 0 .. MaxEdits BY BoundsAssumption DEF Init
  <2> QED BY <2>1, <2>2
<1>4. TypeOK
  BY <1>1, <1>2, <1>3 DEF Init, TypeOK
<1> QED
  BY <1>4 DEF Init, IInv, RolesAreCurrent, MemberIsCurrent, ChannelsAreCurrent, ReportIsTrue

\* A bot with privileges lacks nothing.
LEMMA PrivilegedLacksNothing == Privileged => Lacking = {}
BY DEF Lacking, CanIn, HasInGuild

\* What Conclude reports when everything could be read.
LEMMA FindingsAreTrue ==
    ASSUME IInv, at = "channels", left = {}, ~changed, ~skipped
    PROVE  LET r == Findings("topic" \in Needs)
           IN r.missing = Lacking /\ (r.hierarchy <=> (NotAbove(held) /\ ~Privileged))
<1> DEFINE r == Findings("topic" \in Needs)
           perms == Base(grants, held)
<1>1. grantsRead = grants /\ heldRead = held /\ ~Privileged
  BY DEF IInv, RolesAreCurrent, MemberIsCurrent, Privileged
<1>2. /\ DOMAIN chansRead = Channels /\ Channels # {}
      /\ \A c \in Channels : chansRead[c] = over[c]
  BY ChannelsAssumption DEF IInv, ChannelsAreCurrent
<1>3. ASSUME NEW p
      PROVE  LacksMessaging(perms, p) <=> \E c \in Channels : ~CanIn(c, p)
  <2>1. LacksMessaging(perms, p) <=>
          \E c \in Channels : p \notin Effective(perms, over[c], held)
    BY <1>1, <1>2 DEF LacksMessaging
  <2> QED BY <1>1, <2>1, EffectiveIsAllowed
<1>4. ASSUME NEW p
      PROVE  /\ p \in perms <=> HasInGuild(p)
             /\ p \in Effective(perms, over[TopicChannel], held) <=> CanIn(TopicChannel, p)
  <2>1. p \in perms <=> HasInGuild(p)
    BY <1>1 DEF Base, HasInGuild
  <2> QED BY <1>1, <2>1, ChannelsAssumption, EffectiveIsAllowed
<1>5. r.missing = {p \in Messaging : LacksMessaging(perms, p)}
              \cup {p \in {"ManageRoles"} : "roles" \in Needs /\ p \notin perms}
              \cup {p \in {"ManageNicknames"} : "nicks" \in Needs /\ p \notin perms}
              \cup {p \in {"ManageChannels"} : "topic" \in Needs
                    /\ p \notin Effective(perms, over[TopicChannel], held)}
  BY <1>1 DEF Findings, Report
<1>6. r.hierarchy = NotAbove(held)
  BY <1>1 DEF Findings, Report
<1>7. r.missing = Lacking
  BY <1>3, <1>4, <1>5 DEF Lacking
<1> QED BY <1>1, <1>6, <1>7

LEMMA EditInv ==
    ASSUME IInv, Admins
    PROVE  IInv'
<1>1. TypeOK'
  BY EditType DEF IInv
<1>2. UNCHANGED <<hasID, owner, at, grantsRead, heldRead, chansRead, left, skipped>>
  BY DEF Admins, EditRole, GiveRole, EditChannel, Edit, locals
<1>3. changed' <=> at # "guild"
  BY DEF Admins, EditRole, GiveRole, EditChannel, Edit
<1> QED
  BY <1>1, <1>2, <1>3
  DEF IInv, RolesAreCurrent, MemberIsCurrent, ChannelsAreCurrent, ReportIsTrue

LEMMA MonitorInv ==
    ASSUME IInv, Monitor
    PROVE  IInv'
<1> DEFINE Current == RolesAreCurrent /\ MemberIsCurrent /\ ChannelsAreCurrent
<1>a. TypeOK'
  BY MonitorType DEF IInv
\* A check that ends: only its report matters.
<1>b. ASSUME at' = "report", ReportIsTrue'
      PROVE  IInv'
  BY <1>a, <1>b DEF IInv, RolesAreCurrent, MemberIsCurrent, ChannelsAreCurrent
<1>c. ASSUME Step
      PROVE  /\ Lacking' = Lacking /\ NotAbove(held)' = NotAbove(held)
             /\ Privileged' = Privileged /\ changed' = changed /\ hasID' = hasID
  BY <1>c DEF Step, guild, Lacking, CanIn, HasInGuild, NotAbove, Privileged, Base
<1>d. ASSUME Return(CannotCheck)
      PROVE  IInv'
  BY <1>b, <1>d DEF Return, CannotCheck, ReportIsTrue
<1>e. ASSUME Return(Nothing), Step, hasID /\ ~changed => Privileged
      PROVE  IInv'
  <2>1. hasID /\ ~changed => Lacking = {}
    BY <1>e, PrivilegedLacksNothing
  <2>2. report'.missing = {} /\ ~report'.hierarchy
    BY <1>e DEF Return, Nothing, Report
  <2> QED BY <1>b, <1>c, <1>e, <2>1, <2>2 DEF Return, ReportIsTrue
\* A check that goes on.
<1>f. ASSUME at' # "report", Current'
      PROVE  IInv'
  BY <1>a, <1>f DEF IInv, ReportIsTrue
<1>1. CASE ReadGuild
  <2>1. CASE ~hasID \/ owner
    BY <1>1, <2>1, <1>e DEF ReadGuild, Privileged
  <2>2. CASE hasID /\ ~owner
    BY <1>1, <2>2, <1>f
    DEF ReadGuild, Step, guild, RolesAreCurrent, MemberIsCurrent, ChannelsAreCurrent
  <2> QED BY <2>1, <2>2
<1>2. CASE ReadGuildFails
  BY <1>2, <1>d DEF ReadGuildFails
<1>3. CASE ReadMember
  <2>1. ~owner /\ (~changed => grantsRead = grants)
    BY <1>3 DEF ReadMember, IInv, RolesAreCurrent
  <2>2. CASE "Administrator" \in Base(grantsRead, held)
    BY <1>3, <2>1, <2>2, <1>e DEF ReadMember, Privileged
  <2>3. CASE "Administrator" \notin Base(grantsRead, held)
    <3>1. /\ at' = "channels" /\ heldRead' = held /\ left' = Channels
          /\ UNCHANGED <<owner, grants, held, over, changed, skipped, grantsRead, chansRead>>
      BY <1>3, <2>3 DEF ReadMember, Step, guild
    <3>2. DOMAIN chansRead' = {}
      BY <1>3, <3>1 DEF ReadMember, IInv, TypeOK, NoChannels
    <3>3. ~changed => "Administrator" \notin Base(grants, held)'
      BY <2>1, <2>3, <3>1 DEF Base
    <3> QED
      BY <1>f, <2>1, <3>1, <3>2, <3>3
      DEF RolesAreCurrent, MemberIsCurrent, ChannelsAreCurrent
  <2> QED BY <2>2, <2>3
<1>4. CASE ReadMemberFails
  BY <1>4, <1>d DEF ReadMemberFails
<1>5. ASSUME NEW c \in Channels, ReadChannel(c)
      PROVE  IInv'
  <2>1. /\ at = "channels" /\ at' = "channels" /\ c \in left /\ left' = left \ {c}
        /\ UNCHANGED <<owner, grants, held, over, changed, skipped, grantsRead, heldRead>>
    BY <1>5 DEF ReadChannel, Step, guild
  <2>2. /\ DOMAIN chansRead' = DOMAIN chansRead \cup {c} /\ chansRead'[c] = over[c]
        /\ \A d \in DOMAIN chansRead \ {c} : chansRead'[d] = chansRead[d]
    BY <1>5 DEF ReadChannel
  <2>3. left \subseteq Channels
    BY DEF IInv, TypeOK
  <2>4. RolesAreCurrent' /\ MemberIsCurrent'
    BY <2>1 DEF IInv, RolesAreCurrent, MemberIsCurrent, Base
  <2>5. ChannelsAreCurrent'
    BY <2>1, <2>2, <2>3 DEF IInv, ChannelsAreCurrent
  <2> QED BY <1>f, <2>1, <2>4, <2>5
<1>6. ASSUME NEW c \in Channels, ReadChannelFails(c)
      PROVE  IInv'
  <2>1. /\ at = "channels" /\ at' = "channels" /\ skipped'
        /\ UNCHANGED <<owner, grants, held, over, changed, grantsRead, heldRead, chansRead>>
    BY <1>6 DEF ReadChannelFails, Step, guild
  <2> QED
    BY <1>f, <2>1 DEF IInv, RolesAreCurrent, MemberIsCurrent, ChannelsAreCurrent, Base
<1>7. CASE Conclude
  <2>1. at = "channels" /\ left = {} /\ at' = "report" /\ Step
    BY <1>7 DEF Conclude, Return
  <2>2. CASE skipped' \/ changed'
    BY <1>b, <2>1, <2>2 DEF ReportIsTrue
  <2>3. CASE ~skipped' /\ ~changed'
    <3>1. Return(Findings("topic" \in Needs)) /\ skipped' = skipped
      BY <1>7, <2>3, Zenon DEF Conclude
    <3>2. report' = Findings("topic" \in Needs)
      BY <3>1, Zenon DEF Return
    <3>3. ~skipped
      <4>1. skipped' = skipped
        BY <3>1
      <4> QED BY <2>3, <4>1
    <3>4. ~changed
      BY <1>c, <2>1, <2>3
    <3>5. /\ report'.missing = Lacking
          /\ report'.hierarchy <=> (NotAbove(held) /\ ~Privileged)
      BY <2>1, <3>2, <3>3, <3>4, FindingsAreTrue
    <3> QED BY <1>b, <1>c, <2>1, <3>5 DEF ReportIsTrue
  <2> QED BY <2>2, <2>3
<1>8. CASE HandleFirst \/ HandleLater
  BY <1>8, <1>f
  DEF HandleFirst, HandleLater, Handled, RolesAreCurrent, MemberIsCurrent, ChannelsAreCurrent
<1> QED
  BY <1>1, <1>2, <1>3, <1>4, <1>5, <1>6, <1>7, <1>8 DEF Monitor

LEMMA StutterInv ==
    ASSUME IInv, UNCHANGED vars
    PROVE  IInv'
<1> USE DEF vars, guild, locals, monitor
<1>1. TypeOK'
  BY DEF IInv, TypeOK
<1>2. RolesAreCurrent' /\ MemberIsCurrent' /\ ChannelsAreCurrent'
  BY DEF IInv, RolesAreCurrent, MemberIsCurrent, ChannelsAreCurrent, Base
<1>3. Lacking' = Lacking /\ NotAbove(held)' = NotAbove(held) /\ Privileged' = Privileged
  BY DEF Lacking, CanIn, HasInGuild, NotAbove, Privileged, Base
<1>4. ReportIsTrue'
  BY <1>3 DEF IInv, ReportIsTrue
<1> QED BY <1>1, <1>2, <1>4 DEF IInv

LEMMA InvHolds == Spec => []IInv
<1>1. Init => IInv
  BY InitInv
<1>2. IInv /\ [Next]_vars => IInv'
  BY EditInv, MonitorInv, StutterInv DEF Next
<1> QED BY <1>1, <1>2, PTL DEF Spec

-----------------------------------------------------------------------------
\* The types of the monitor hold for any guild.
THEOREM TypeCorrect == Spec => []TypeOK
<1>1. IInv => TypeOK
  BY DEF IInv
<1> QED BY <1>1, InvHolds, PTL

\* For any channels, roles and overwrites, a report names exactly what the bot lacks, if
\* guild_id is configured and if the guild stood still and answered during the check.
THEOREM ReportsAreTrue == Spec => []ReportIsTrue
<1>1. IInv => ReportIsTrue
  BY DEF IInv
<1> QED BY <1>1, InvHolds, PTL

\* The monitor of a bridge with guild_id ends, after such a check, only when everything
\* is granted.
THEOREM StopsOnlyWhenGranted == Spec => StopsWhenGranted
<1> USE DEF CleanEnd
<1>1. ASSUME IInv, [Next]_vars, CleanEnd, hasID
      PROVE  Granted
  <2>1. HandleFirst \/ HandleLater
    BY <1>1 DEF vars, monitor, Next, Admins, Monitor, EditRole, GiveRole, EditChannel, Edit,
                ReadGuild, ReadGuildFails, ReadMember, ReadMemberFails, ReadChannel,
                ReadChannelFails, Conclude, Step
  <2>2. at = "report" /\ IsOK(report)
    BY <1>1, <2>1 DEF HandleFirst, HandleLater, Handled
  <2> QED
    BY <1>1, <2>2 DEF IInv, ReportIsTrue, IsOK, Granted
<1>2. IInv /\ [Next]_vars =>
        [CleanEnd /\ hasID => Granted]_vars
  BY <1>1
<1> QED BY <1>2, InvHolds, PTL DEF Spec, StopsWhenGranted

-----------------------------------------------------------------------------
(* RoleSync.                                                                *)

\* How far the bridge has come with the user it is visiting; without a role
\* configured there is none; and what the answer said of those linked ever since.
VisitedRole ==
    /\ visiting # None /\ pc = "apply" /\ "role" \in config => visiting \in role
    /\ visiting # None /\ pc = "revert" => visiting \notin role
NoRoleSet == "role" \notin config => role = {}
SteadyReported == pc \in {"apply", "revert"} /\ ~garbled => steady \subseteq cur

SyncInv == /\ SyncTypeOK /\ SeenHaveRole /\ RolesAreRemembered
           /\ VisitedRole /\ NoRoleSet /\ SteadyReported

\* The invariant holds when the bridge has not been started yet.
LEMMA SyncInitInv ==
  SyncInit => SyncInv
  BY NoneAssumption DEF SyncInit, SyncInv, SyncTypeOK, SeenHaveRole, RolesAreRemembered,
      VisitedRole, NoRoleSet, SteadyReported

\* A change of the links in the game.
LEMMA ChangeLinkInv ==
  ASSUME SyncInv, NEW p \in Players, NEW u \in Users \cup {None}, ChangeLink(p, u)
  PROVE  SyncInv'
  BY DEF SyncInv, SyncTypeOK, SeenHaveRole, RolesAreRemembered,
         VisitedRole, NoRoleSet, SteadyReported, ChangeLink, loop, discord

\* The bridge's process starts and stops.
LEMMA ProcessInv ==
  ASSUME SyncInv, BridgeStarts \/ BridgeStops
  PROVE  SyncInv'
<1>1. CASE BridgeStarts
  BY <1>1, NoneAssumption
  DEF SyncInv, SyncTypeOK, SeenHaveRole, RolesAreRemembered,
      VisitedRole, NoRoleSet, SteadyReported, BridgeStarts, discord, history
<1>2. CASE BridgeStops
  BY <1>2, NoneAssumption
  DEF SyncInv, SyncTypeOK, SeenHaveRole, RolesAreRemembered,
      VisitedRole, NoRoleSet, SteadyReported, BridgeStops, discord
<1> QED BY <1>1, <1>2

\* The steps of reconcile that call no user's role or nickname.
LEMMA LoopInv ==
  ASSUME SyncInv, Query \/ QueryGarbled \/ BeginRevert \/ EndReconcile
  PROVE  SyncInv'
<1>1. CASE Query
  BY <1>1, NoneAssumption
  DEF SyncInv, SyncTypeOK, SeenHaveRole, RolesAreRemembered,
      VisitedRole, NoRoleSet, SteadyReported, Query, Reported, discord
<1>2. CASE QueryGarbled
  BY <1>2, NoneAssumption
  DEF SyncInv, SyncTypeOK, SeenHaveRole, RolesAreRemembered,
      VisitedRole, NoRoleSet, SteadyReported, QueryGarbled, Reported, discord
<1>3. CASE BeginRevert
  BY <1>3, NoneAssumption
  DEF SyncInv, SyncTypeOK, SeenHaveRole, RolesAreRemembered,
      VisitedRole, NoRoleSet, SteadyReported, BeginRevert, discord, history
<1>4. CASE EndReconcile
  BY <1>4, NoneAssumption
  DEF SyncInv, SyncTypeOK, SeenHaveRole, RolesAreRemembered,
      VisitedRole, NoRoleSet, SteadyReported, EndReconcile, discord, history
<1> QED BY <1>1, <1>2, <1>3, <1>4

\* A call to Discord that adds or removes a role, and succeeds or fails.
LEMMA RoleCallInv ==
  ASSUME SyncInv, NEW u \in Users,
         AddRole(u) \/ AddRoleFails(u) \/ RemoveRole(u) \/ RemoveRoleFails(u)
  PROVE  SyncInv'
<1>1. CASE AddRole(u)
  BY <1>1, NoneAssumption
  DEF SyncInv, SyncTypeOK, SeenHaveRole, RolesAreRemembered,
      VisitedRole, NoRoleSet, SteadyReported, AddRole, history
<1>2. CASE AddRoleFails(u)
  BY <1>2, NoneAssumption
  DEF SyncInv, SyncTypeOK, SeenHaveRole, RolesAreRemembered,
      VisitedRole, NoRoleSet, SteadyReported, AddRoleFails
<1>3. CASE RemoveRole(u)
  BY <1>3, NoneAssumption
  DEF SyncInv, SyncTypeOK, SeenHaveRole, RolesAreRemembered,
      VisitedRole, NoRoleSet, SteadyReported, RemoveRole, history
<1>4. CASE RemoveRoleFails(u)
  BY <1>4, NoneAssumption
  DEF SyncInv, SyncTypeOK, SeenHaveRole, RolesAreRemembered,
      VisitedRole, NoRoleSet, SteadyReported, RemoveRoleFails
<1> QED BY <1>1, <1>2, <1>3, <1>4

\* The nickname of the visited user, after which the user is remembered or forgotten.
LEMMA NickCallInv ==
  ASSUME SyncInv, NEW u \in Users, SetNick(u) \/ NoNick(u) \/ ClearNick(u)
  PROVE  SyncInv'
<1>1. CASE SetNick(u)
  BY <1>1, NoneAssumption
  DEF SyncInv, SyncTypeOK, SeenHaveRole, RolesAreRemembered,
      VisitedRole, NoRoleSet, SteadyReported, SetNick, Visited
<1>2. CASE NoNick(u)
  BY <1>2, NoneAssumption
  DEF SyncInv, SyncTypeOK, SeenHaveRole, RolesAreRemembered,
      VisitedRole, NoRoleSet, SteadyReported, NoNick, Visited
<1>3. CASE ClearNick(u)
  BY <1>3, NoneAssumption
  DEF SyncInv, SyncTypeOK, SeenHaveRole, RolesAreRemembered,
      VisitedRole, NoRoleSet, SteadyReported, ClearNick, Visited
<1> QED BY <1>1, <1>2, <1>3

\* Every step keeps the invariant.
LEMMA SyncNextInv ==
  ASSUME SyncInv, [SyncNext]_syncVars
  PROVE  SyncInv'
<1>1. CASE SyncNext
  BY <1>1, ChangeLinkInv, ProcessInv, LoopInv, RoleCallInv, NickCallInv
  DEF SyncNext, Reconcile, Call
<1>2. CASE UNCHANGED syncVars
  BY <1>2, NoneAssumption
  DEF SyncInv, SyncTypeOK, SeenHaveRole, RolesAreRemembered,
      VisitedRole, NoRoleSet, SteadyReported, syncVars, loop, discord, history
<1> QED BY <1>1, <1>2

\* The invariant of reconcile: SyncInv holds in every reachable state.
THEOREM SyncHolds == SyncSpec => []SyncInv
  BY SyncInitInv, SyncNextInv, PTL DEF SyncSpec

\* Types, and that the loops visit only the newly linked and the newly unlinked.
THEOREM SyncTypes == SyncSpec => []SyncTypeOK
<1>1. SyncInv => SyncTypeOK
  BY DEF SyncInv
<1> QED BY <1>1, SyncHolds, PTL

\* Whoever is remembered as having the role has it, except after a call that failed
\* although it took effect (SeenHaveRole).
THEOREM SeenAreRight == SyncSpec => []SeenHaveRole
<1>1. SyncInv => SeenHaveRole
  BY DEF SyncInv
<1> QED BY <1>1, SyncHolds, PTL

\* No role is forgotten while the bridge runs (RolesAreRemembered).
THEOREM NoRoleIsForgotten == SyncSpec => []RolesAreRemembered
<1>1. SyncInv => RolesAreRemembered
  BY DEF SyncInv
<1> QED BY <1>1, SyncHolds, PTL

\* One step never takes the role from a member who stays linked (LinkedKeepRole),
\* because only users the answer did not report are visited in order to revert.
LEMMA KeepsRole ==
  ASSUME SyncInv, [SyncNext]_syncVars
  PROVE  [\A u \in steady \cap role : u \in role' \/ garbled]_syncVars
<1> SUFFICES ASSUME SyncNext, NEW u \in steady \cap role, ~garbled
             PROVE  u \in role'
  OBVIOUS
<1>1. CASE \E v \in Users : Call(v)
  <2> PICK v \in Users : Call(v)
    BY <1>1
  <2>1. CASE AddRole(v) \/ AddRoleFails(v)
    BY <2>1 DEF AddRole, AddRoleFails
  <2>2. CASE RemoveRole(v) \/ RemoveRoleFails(v)
    <3>1. v \in seen \ cur /\ pc = "revert"
      BY <2>2 DEF RemoveRole, RemoveRoleFails, SyncInv, SyncTypeOK
    <3>2. u # v
      BY <3>1 DEF SyncInv, SteadyReported
    <3> QED BY <2>2, <3>2 DEF RemoveRole, RemoveRoleFails
  <2>3. CASE SetNick(v) \/ NoNick(v) \/ ClearNick(v)
    BY <2>3 DEF SetNick, NoNick, ClearNick, Visited
  <2> QED BY <2>1, <2>2, <2>3 DEF Call
<1>2. CASE ~ \E v \in Users : Call(v)
  BY <1>2 DEF SyncNext, Reconcile, ChangeLink, BridgeStarts, BridgeStops, Query,
              QueryGarbled, Reported, BeginRevert, EndReconcile, discord
<1> QED BY <1>1, <1>2

\* A member who was linked at the last poll and has been since keeps the role,
\* however the calls and the changes of links interleave, as long as the mod answers.
THEOREM LinkedMembersKeepRole == SyncSpec => LinkedKeepRole
  BY SyncHolds, KeepsRole, PTL DEF SyncSpec, LinkedKeepRole
=============================================================================
