---------------------------- MODULE LinkSyncProofs ----------------------------
(***************************************************************************)
(* The store is the log of what users asked for, a restore holds, and the   *)
(* list of players is right: for any players, users and bounds.             *)
(***************************************************************************)
EXTENDS LinkSync, FiniteSetTheorems, SequenceTheorems, WellFoundedInduction, TLAPS

-----------------------------------------------------------------------------
(* The events that wait, and the last one of some kinds about a player.      *)

Those(es, p, kinds) == {i \in DOMAIN es : es[i].player = p /\ es[i].what \in kinds}
IsLatest(i, S) == i \in S /\ \A j \in S : j <= i
Latest(es, p, kinds) == es[CHOOSE i \in Those(es, p, kinds) :
                               \A j \in Those(es, p, kinds) : j <= i]
Visiting == {"joined", "left"}

-----------------------------------------------------------------------------
(* The invariant.                                                           *)

LifeInv ==
    /\ restored => bridgeUp
    /\ restoring \/ last = "up" => bridgeUp
    /\ ~FastReset /\ (restoring \/ last = "up") => restored

RestoreInv ==
    /\ restoring /\ ~disturbed => ~LinksWait /\ snapshot = store
    /\ restored /\ newSession /\ ~disturbed => ~LinksWait
    /\ ~restoring => toRestore = {}

\* The list that joins and leaves are counted from.
Base == IF restoring THEN reply ELSE listed

PresenceInv ==
    /\ newSession \/ ~serverUp => present = {}
    /\ serverUp /\ ~newSession =>
          \A p \in Players : Those(events, p, Visiting) # {} =>
              (Latest(events, p, Visiting).what = "joined" <=> p \in present)
    /\ ~FastReset /\ serverUp /\ ~misled /\ (restoring \/ last = "up") =>
          \A p \in Players :
              newSession \/ Those(events, p, Visiting) = {} =>
                  (p \in Base <=> p \in present)

IInv == TypeOK /\ LifeInv /\ RestoreInv /\ PresenceInv /\ StoreIsTheLog /\ RestoredLinksHold

-----------------------------------------------------------------------------
(* Sequences of events.                                                     *)

\* A bounded set of numbers that is not empty has a greatest element.
LEMMA GreatestExists ==
    ASSUME NEW S \in SUBSET Nat, NEW n \in Nat, \A i \in S : i <= n, S # {}
    PROVE  \E i \in S : IsLatest(i, S)
<1> DEFINE T == {n - i : i \in S}
<1>1. T \subseteq Nat /\ T # {}
  <2>1. \A i \in S : n - i \in Nat OBVIOUS
  <2> QED BY <2>1
<1>2. PICK x \in T : \A y \in T : ~(<<y, x>> \in OpToRel(<, Nat))
  BY <1>1, NatLessThanWellFounded, WFMin
<1>3. \A y \in T : ~(y < x) BY <1>1, <1>2 DEF OpToRel
<1>4. PICK i \in S : x = n - i OBVIOUS
<1>5. ASSUME NEW j \in S PROVE j <= i
  <2>1. ~(n - j < n - i) BY <1>3, <1>4
  <2> QED BY <2>1
<1> QED BY <1>5 DEF IsLatest

\* Latest is the last of the events it looks at.
LEMMA LatestIs ==
    ASSUME NEW es \in Seq(Events), NEW p, NEW kinds, NEW i \in Those(es, p, kinds),
           IsLatest(i, Those(es, p, kinds))
    PROVE  Latest(es, p, kinds) = es[i]
<1> DEFINE S == Those(es, p, kinds)
           c == CHOOSE k \in S : \A j \in S : j <= k
<1>1. S \subseteq Nat BY LenProperties DEF Those
<1>2. c \in S /\ \A j \in S : j <= c BY DEF IsLatest
<1>3. c <= i /\ i <= c BY <1>2 DEF IsLatest
<1>4. c = i BY <1>1, <1>2, <1>3
<1> QED BY <1>4 DEF Latest

LEMMA LatestExists ==
    ASSUME NEW es \in Seq(Events), NEW p, NEW kinds, Those(es, p, kinds) # {}
    PROVE  \E i \in Those(es, p, kinds) :
              IsLatest(i, Those(es, p, kinds)) /\ Latest(es, p, kinds) = es[i]
<1> DEFINE S == Those(es, p, kinds)
<1>1. Len(es) \in Nat /\ DOMAIN es = 1..Len(es) BY LenProperties
<1>2. S \in SUBSET Nat /\ \A i \in S : i <= Len(es) BY <1>1 DEF Those
<1>3. PICK i \in S : IsLatest(i, S) BY <1>1, <1>2, GreatestExists
<1> QED BY <1>3, LatestIs

\* The first event is handled: what is last stays last.
LEMMA LatestOfTail ==
    ASSUME NEW es \in Seq(Events), es # <<>>, NEW p, NEW kinds
    PROVE  /\ Those(Tail(es), p, kinds) # {} =>
                 /\ Those(es, p, kinds) # {}
                 /\ Latest(Tail(es), p, kinds) = Latest(es, p, kinds)
           /\ Those(Tail(es), p, kinds) = {} /\ Those(es, p, kinds) # {} =>
                 /\ 1 \in Those(es, p, kinds)
                 /\ Latest(es, p, kinds) = Head(es)
           /\ Those(Tail(es), p, kinds) = {} /\ Those(es, p, kinds) = {} =>
                 ~(Head(es).player = p /\ Head(es).what \in kinds)
<1> DEFINE t == Tail(es)
<1>1. /\ t \in Seq(Events) /\ Len(es) \in Nat \ {0} /\ Len(t) = Len(es) - 1
      /\ \A i \in 1..Len(t) : t[i] = es[i + 1]
      /\ DOMAIN es = 1..Len(es) /\ DOMAIN t = 1..Len(t)
      /\ Head(es) = es[1]
  BY HeadTailProperties, LenProperties, EmptySeq
<1> HIDE DEF t
<1>2. ASSUME NEW i PROVE i \in Those(t, p, kinds) => i + 1 \in Those(es, p, kinds) /\ i \in Nat
  BY <1>1 DEF Those
<1>3. ASSUME NEW i \in Those(es, p, kinds), i # 1 PROVE i - 1 \in Those(t, p, kinds) /\ i \in Nat
  <2>1. i \in 1..Len(es) /\ es[i].player = p /\ es[i].what \in kinds BY <1>1 DEF Those
  <2>2. i - 1 \in 1..Len(t) /\ t[i - 1] = es[i] BY <1>1, <1>3, <2>1
  <2> QED BY <1>1, <2>1, <2>2 DEF Those
<1>4. ASSUME Those(t, p, kinds) # {}
      PROVE  Those(es, p, kinds) # {} /\ Latest(t, p, kinds) = Latest(es, p, kinds)
  <2>1. PICK i \in Those(t, p, kinds) :
            IsLatest(i, Those(t, p, kinds)) /\ Latest(t, p, kinds) = t[i]
    BY <1>1, <1>4, LatestExists
  <2>2. i + 1 \in Those(es, p, kinds) /\ i \in Nat /\ i \in 1..Len(t) BY <1>1, <1>2, <2>1 DEF Those
  <2>3. ASSUME NEW j \in Those(es, p, kinds) PROVE j <= i + 1
    <3>1. CASE j = 1 BY <2>2, <3>1
    <3>2. CASE j # 1
      <4>1. j - 1 \in Those(t, p, kinds) /\ j \in Nat BY <1>3, <3>2
      <4>2. j - 1 <= i BY <2>1, <4>1 DEF IsLatest
      <4> QED BY <2>2, <4>1, <4>2
    <3> QED BY <3>1, <3>2
  <2>4. IsLatest(i + 1, Those(es, p, kinds)) BY <2>2, <2>3 DEF IsLatest
  <2>5. Latest(es, p, kinds) = es[i + 1] BY <2>2, <2>4, LatestIs
  <2> QED BY <1>1, <2>1, <2>2, <2>5
<1>5. ASSUME Those(t, p, kinds) = {}, Those(es, p, kinds) # {}
      PROVE  1 \in Those(es, p, kinds) /\ Latest(es, p, kinds) = Head(es)
  <2>1. PICK i \in Those(es, p, kinds) : Latest(es, p, kinds) = es[i]
    BY <1>5, LatestExists
  <2>2. i = 1 BY <1>3, <1>5
  <2> QED BY <1>1, <2>1, <2>2
<1>6. ASSUME Those(es, p, kinds) = {} PROVE ~(Head(es).player = p /\ Head(es).what \in kinds)
  <2>1. 1 \in DOMAIN es BY <1>1
  <2> QED BY <1>1, <1>6, <2>1 DEF Those
<1> QED BY <1>4, <1>5, <1>6 DEF t

\* Events are appended: the last of them counts, if there is one.
LEMMA LatestOfConcat ==
    ASSUME NEW es \in Seq(Events), NEW t \in Seq(Events), NEW p, NEW kinds
    PROVE  /\ Those(t, p, kinds) # {} =>
                 /\ Those(es \o t, p, kinds) # {}
                 /\ Latest(es \o t, p, kinds) = Latest(t, p, kinds)
           /\ Those(t, p, kinds) = {} =>
                 /\ Those(es \o t, p, kinds) = Those(es, p, kinds)
                 /\ Those(es, p, kinds) # {} =>
                       Latest(es \o t, p, kinds) = Latest(es, p, kinds)
<1> DEFINE u == es \o t
<1>1. /\ u \in Seq(Events) /\ Len(u) = Len(es) + Len(t)
      /\ Len(es) \in Nat /\ Len(t) \in Nat
      /\ DOMAIN es = 1..Len(es) /\ DOMAIN t = 1..Len(t) /\ DOMAIN u = 1..Len(u)
      /\ \A i \in 1..Len(es) : u[i] = es[i]
      /\ \A i \in 1..Len(t) : u[Len(es) + i] = t[i]
  <2>1. u \in Seq(Events) /\ Len(u) = Len(es) + Len(t) BY ConcatProperties
  <2>2. Len(es) \in Nat /\ Len(t) \in Nat BY LenProperties
  <2>3. \A i \in 1..Len(es) : u[i] = es[i] BY <2>2, ConcatProperties
  <2>4. ASSUME NEW i \in 1..Len(t) PROVE u[Len(es) + i] = t[i]
    <3>1. Len(es) + i \in 1..(Len(es) + Len(t)) /\ ~(Len(es) + i <= Len(es)) BY <2>2
    <3>2. u[Len(es) + i] = t[Len(es) + i - Len(es)] BY <3>1, ConcatProperties
    <3>3. Len(es) + i - Len(es) = i BY <2>2
    <3> QED BY <3>2, <3>3
  <2> QED BY <2>1, <2>2, <2>3, <2>4, LenProperties
<1> HIDE DEF u
<1>2. ASSUME NEW i \in Those(t, p, kinds) PROVE Len(es) + i \in Those(u, p, kinds)
  BY <1>1 DEF Those
<1>3. ASSUME NEW i \in Those(es, p, kinds) PROVE i \in Those(u, p, kinds)
  BY <1>1 DEF Those
<1>4. ASSUME NEW i \in Those(u, p, kinds)
      PROVE  i \in Those(es, p, kinds) \/ (i - Len(es) \in Those(t, p, kinds) /\ i \in Nat)
  <2>1. i \in 1..Len(u) /\ u[i].player = p /\ u[i].what \in kinds BY <1>1 DEF Those
  <2>2. CASE i <= Len(es)
    <3>1. i \in 1..Len(es) /\ u[i] = es[i] BY <1>1, <2>1, <2>2
    <3> QED BY <1>1, <2>1, <3>1 DEF Those
  <2>3. CASE i > Len(es)
    <3>1. i - Len(es) \in 1..Len(t) /\ Len(es) + (i - Len(es)) = i BY <1>1, <2>1, <2>3
    <3>2. u[i] = t[i - Len(es)] BY <1>1, <3>1
    <3> QED BY <1>1, <2>1, <3>1, <3>2 DEF Those
  <2> QED BY <1>1, <2>1, <2>2, <2>3
<1>5. ASSUME Those(t, p, kinds) # {}
      PROVE  Those(u, p, kinds) # {} /\ Latest(u, p, kinds) = Latest(t, p, kinds)
  <2>1. PICK i \in Those(t, p, kinds) :
            IsLatest(i, Those(t, p, kinds)) /\ Latest(t, p, kinds) = t[i]
    BY <1>5, LatestExists
  <2>2. i \in 1..Len(t) BY <1>1 DEF Those
  <2>3. ASSUME NEW j \in Those(u, p, kinds) PROVE j <= Len(es) + i
    <3>1. CASE j \in Those(es, p, kinds)
      <4>1. j \in 1..Len(es) BY <1>1, <3>1 DEF Those
      <4> QED BY <1>1, <2>2, <4>1
    <3>2. CASE j - Len(es) \in Those(t, p, kinds) /\ j \in Nat
      <4>1. j - Len(es) <= i BY <2>1, <3>2 DEF IsLatest
      <4> QED BY <1>1, <2>2, <3>2, <4>1
    <3> QED BY <1>4, <3>1, <3>2
  <2>4. Len(es) + i \in Those(u, p, kinds) BY <1>2, <2>1
  <2>5. IsLatest(Len(es) + i, Those(u, p, kinds)) BY <2>3, <2>4 DEF IsLatest
  <2>6. Latest(u, p, kinds) = u[Len(es) + i] BY <1>1, <2>4, <2>5, LatestIs
  <2> QED BY <1>1, <2>1, <2>2, <2>4, <2>6
<1>6. ASSUME Those(t, p, kinds) = {}
      PROVE  /\ Those(u, p, kinds) = Those(es, p, kinds)
             /\ Those(es, p, kinds) # {} => Latest(u, p, kinds) = Latest(es, p, kinds)
  <2>1. Those(u, p, kinds) = Those(es, p, kinds) BY <1>3, <1>4, <1>6
  <2>2. ASSUME Those(es, p, kinds) # {} PROVE Latest(u, p, kinds) = Latest(es, p, kinds)
    <3>1. PICK i \in Those(es, p, kinds) :
              IsLatest(i, Those(es, p, kinds)) /\ Latest(es, p, kinds) = es[i]
      BY <2>2, LatestExists
    <3>2. i \in 1..Len(es) BY <1>1 DEF Those
    <3>3. Latest(u, p, kinds) = u[i] BY <1>1, <2>1, <3>1, LatestIs
    <3> QED BY <1>1, <3>1, <3>2, <3>3
  <2> QED BY <2>1, <2>2
<1> QED BY <1>5, <1>6 DEF u

\* The links of a list of events over those of a store, as Final has them.
Applied(es, st, p) ==
    IF Those(es, p, {"link"}) = {} THEN st[p] ELSE Latest(es, p, {"link"}).user
Waiting(es) == \E i \in DOMAIN es : es[i].what = "link"

LEMMA FinalIsApplied ==
    ASSUME NEW p
    PROVE  /\ Final(p) = Applied(events, store, p)
           /\ Final(p)' = Applied(events', store', p)
<1>1. About(p) = Those(events, p, {"link"}) BY DEF About, Those
<1>2. About(p)' = Those(events', p, {"link"}) BY DEF About, Those
<1> QED BY <1>1, <1>2 DEF Final, Applied, Latest

LEMMA WaitingIs == LinksWait = Waiting(events) /\ LinksWait' = Waiting(events')
BY DEF LinksWait, Waiting

LEMMA NothingWaits ==
    ASSUME NEW es, ~Waiting(es), NEW p, NEW st
    PROVE  Those(es, p, {"link"}) = {} /\ Applied(es, st, p) = st[p]
BY DEF Waiting, Those, Applied

\* A waiting link event is about some player.
LEMMA SomethingWaits ==
    ASSUME NEW es \in Seq(Events), Waiting(es)
    PROVE  \E p \in Players : Those(es, p, {"link"}) # {}
<1>1. PICK i \in DOMAIN es : es[i].what = "link" BY DEF Waiting
<1>2. es[i] \in Events BY <1>1, ElementOfSeq, LenProperties
<1>3. es[i].player \in Players BY <1>2 DEF Events
<1>4. i \in Those(es, es[i].player, {"link"}) BY <1>1 DEF Those
<1> QED BY <1>3, <1>4

\* The user of the last link event is a user or None.
LEMMA AppliedType ==
    ASSUME NEW es \in Seq(Events), NEW st \in Links, NEW p \in Players
    PROVE  Applied(es, st, p) \in Users \cup {None}
<1>1. CASE Those(es, p, {"link"}) = {} BY <1>1 DEF Applied, Links
<1>2. CASE Those(es, p, {"link"}) # {}
  <2>1. PICK i \in Those(es, p, {"link"}) : Latest(es, p, {"link"}) = es[i]
    BY <1>2, LatestExists
  <2>2. es[i] \in Events BY <2>1, ElementOfSeq, LenProperties DEF Those
  <2> QED BY <1>2, <2>1, <2>2 DEF Applied, Events
<1> QED BY <1>1, <1>2

-----------------------------------------------------------------------------
(* What the commands write.                                                 *)

\* SetToSeq lists a finite set.
LEMMA Listed ==
    ASSUME NEW S, IsFiniteSet(S)
    PROVE  /\ SetToSeq(S) \in Seq(S)
           /\ \A x \in S : \E i \in DOMAIN SetToSeq(S) : SetToSeq(S)[i] = x
<1> DEFINE n == Cardinality(S)
           t == SetToSeq(S)
<1>1. n \in Nat /\ ExistsBijection(1..n, S) BY FS_CardinalityType
<1>2. PICK f : f \in Bijection(1..n, S) BY <1>1 DEF ExistsBijection
<1>3. f \in [1..n -> S] /\ IsInjective(f)
  BY <1>2 DEF Bijection, Injection, IsInjective
<1>4. t \in [1..n -> S] /\ IsInjective(t) BY <1>3 DEF SetToSeq
<1> HIDE DEF t
<1>5. t \in Injection(1..n, S) BY <1>4 DEF Injection, IsInjective
<1>6. Cardinality(1..n) = n BY <1>1, FS_Interval
<1>7. t \in Surjection(1..n, S) BY <1>5, <1>6, FS_Injection
<1>8. \A x \in S : \E i \in 1..n : t[i] = x BY <1>7 DEF Surjection
<1>9. t \in Seq(S) /\ DOMAIN t = 1..n BY <1>1, <1>4
<1> QED BY <1>8, <1>9 DEF t

Written(changed, user) == SetToSeq({Linked(p, user) : p \in changed})

\* The events of a command: one for each changed player, and no other.
LEMMA CommandEvents ==
    ASSUME NEW changed \in SUBSET Players, NEW user \in Users \cup {None}
    PROVE  /\ Written(changed, user) \in Seq(Events)
           /\ \A p \in changed :
                 /\ Those(Written(changed, user), p, {"link"}) # {}
                 /\ Latest(Written(changed, user), p, {"link"}).user = user
           /\ \A p \in Players \ changed : Those(Written(changed, user), p, {"link"}) = {}
           /\ \A p \in Players : Those(Written(changed, user), p, Visiting) = {}
<1> DEFINE S == {Linked(p, user) : p \in changed}
           t == Written(changed, user)
           f == [p \in changed |-> Linked(p, user)]
<1>1. IsFiniteSet(changed) BY PlayersAssumption, FS_Subset
<1>2. f \in Surjection(changed, S) BY DEF Surjection
<1>3. IsFiniteSet(S) BY <1>1, <1>2, FS_Surjection
<1>4. S \subseteq Events BY DEF Events, Linked
<1>5. /\ t \in Seq(S)
      /\ \A x \in S : \E i \in DOMAIN t : t[i] = x
  BY <1>3, Listed DEF Written
<1> HIDE DEF t
<1>6. t \in Seq(Events) BY <1>4, <1>5, SeqMonotonic
<1>7. ASSUME NEW i \in DOMAIN t
      PROVE  t[i].what = "link" /\ t[i].user = user /\ t[i].player \in changed
  <2>1. t[i] \in S BY <1>5, ElementOfSeq, LenProperties
  <2> QED BY <2>1 DEF Linked
<1>8. ASSUME NEW p \in changed
      PROVE  Those(t, p, {"link"}) # {} /\ Latest(t, p, {"link"}).user = user
  <2>1. PICK i \in DOMAIN t : t[i] = Linked(p, user) BY <1>5
  <2>2. i \in Those(t, p, {"link"}) BY <2>1 DEF Those, Linked
  <2>3. PICK j \in Those(t, p, {"link"}) : Latest(t, p, {"link"}) = t[j]
    BY <1>6, <2>2, LatestExists
  <2> QED BY <1>7, <2>2, <2>3 DEF Those
<1>9. \A p \in Players \ changed : Those(t, p, {"link"}) = {} BY <1>7 DEF Those
<1>10. \A p \in Players : Those(t, p, Visiting) = {} BY <1>7 DEF Those, Visiting
<1> QED BY <1>6, <1>8, <1>9, <1>10 DEF t

\* The event of a join or leave.
LEMMA VisitEvents ==
    ASSUME NEW q \in Players, NEW e \in {Joined(q), Left(q)}
    PROVE  /\ <<e>> \in Seq(Events)
           /\ Those(<<e>>, q, Visiting) # {} /\ Latest(<<e>>, q, Visiting) = e
           /\ \A p \in Players \ {q} : Those(<<e>>, p, Visiting) = {}
           /\ \A p \in Players : Those(<<e>>, p, {"link"}) = {}
<1>1. e \in Events /\ e.player = q /\ e.what \in Visiting /\ e.what # "link"
  BY DEF Events, Joined, Left, Visiting
<1>2. <<e>> \in Seq(Events) /\ DOMAIN <<e>> = {1} /\ <<e>>[1] = e BY <1>1
<1>3. Those(<<e>>, q, Visiting) = {1} BY <1>1, <1>2 DEF Those
<1>4. Latest(<<e>>, q, Visiting) = <<e>>[1]
  <2>1. IsLatest(1, Those(<<e>>, q, Visiting)) BY <1>3 DEF IsLatest
  <2> QED BY <1>2, <1>3, <2>1, LatestIs
<1> QED BY <1>1, <1>2, <1>3, <1>4 DEF Those

\* What Emit does to the waiting events, player by player.
LEMMA EmitEffect ==
    ASSUME events \in Seq(Events), NEW evs \in Seq(Events), Emit(evs)
    PROVE  /\ events' \in Seq(Events)
           /\ \A p, kinds :
                 /\ Those(evs, p, kinds) # {} =>
                       /\ Those(events', p, kinds) # {}
                       /\ Latest(events', p, kinds) = Latest(evs, p, kinds)
                 /\ Those(evs, p, kinds) = {} /\ newSession => Those(events', p, kinds) = {}
                 /\ Those(evs, p, kinds) = {} /\ ~newSession =>
                       /\ Those(events', p, kinds) = Those(events, p, kinds)
                       /\ Those(events, p, kinds) # {} =>
                             Latest(events', p, kinds) = Latest(events, p, kinds)
<1>1. CASE newSession
  BY <1>1 DEF Emit
<1>2. CASE ~newSession
  <2>1. events' = events \o evs BY <1>2 DEF Emit
  <2>2. events' \in Seq(Events) BY <2>1, ConcatProperties
  <2> QED BY <1>2, <2>1, <2>2, LatestOfConcat
<1> QED BY <1>1, <1>2

-----------------------------------------------------------------------------
(* What the steps do to the waiting events.                                 *)

\* Nobody's waiting visits change, except that a new session drops them.
VisitsKept(p) ==
    /\ newSession => Those(events', p, Visiting) = {}
    /\ ~newSession =>
          /\ Those(events', p, Visiting) = Those(events, p, Visiting)
          /\ Those(events, p, Visiting) # {} =>
                Latest(events', p, Visiting) = Latest(events, p, Visiting)

\* A player's link is as before, but a new session drops the events of links.
FinalKept(p) == Final(p)' = IF newSession THEN store[p] ELSE Final(p)

\* Every command that changes links is a Command.
LEMMA UserCommandIs ==
    ASSUME UserCommand
    PROVE  \E changed \in SUBSET Players, user \in Users \cup {None} : Command(changed, user)
<1>1. CASE \E p \in Players, u \in Users : ConfirmLink(p, u) BY <1>1 DEF ConfirmLink
<1>2. CASE \E p \in Players : Unlink(p) BY <1>2 DEF Unlink
<1>3. CASE \E u \in Users : UnlinkDiscord(u)
  <2>1. PICK u \in Users : Command({p \in Players : links[p] = u}, None)
    BY <1>3 DEF UnlinkDiscord
  <2>2. {p \in Players : links[p] = u} \in SUBSET Players OBVIOUS
  <2> QED BY <2>1, <2>2
<1>4. CASE UnlinkAll
  <2>1. Command({p \in Players : links[p] # None}, None) BY <1>4 DEF UnlinkAll
  <2>2. {p \in Players : links[p] # None} \in SUBSET Players OBVIOUS
  <2> QED BY <2>1, <2>2
<1> QED BY <1>1, <1>2, <1>3, <1>4 DEF UserCommand

LEMMA CommandEffect ==
    ASSUME events \in Seq(Events), NEW changed \in SUBSET Players,
           NEW user \in Users \cup {None}, Command(changed, user)
    PROVE  /\ events' \in Seq(Events)
           /\ \A p \in changed : Final(p)' = user
           /\ \A p \in Players \ changed : FinalKept(p)
           /\ \A p \in Players : VisitsKept(p)
<1> DEFINE t == Written(changed, user)
<1>1. Emit(t) /\ store' = store BY DEF Command, Written, bridge
<1>2. /\ t \in Seq(Events)
      /\ \A p \in changed : Those(t, p, {"link"}) # {} /\ Latest(t, p, {"link"}).user = user
      /\ \A p \in Players \ changed : Those(t, p, {"link"}) = {}
      /\ \A p \in Players : Those(t, p, Visiting) = {}
  BY CommandEvents
<1> HIDE DEF t
<1>3. /\ events' \in Seq(Events)
      /\ \A p, kinds :
            /\ Those(t, p, kinds) # {} =>
                  /\ Those(events', p, kinds) # {}
                  /\ Latest(events', p, kinds) = Latest(t, p, kinds)
            /\ Those(t, p, kinds) = {} /\ newSession => Those(events', p, kinds) = {}
            /\ Those(t, p, kinds) = {} /\ ~newSession =>
                  /\ Those(events', p, kinds) = Those(events, p, kinds)
                  /\ Those(events, p, kinds) # {} =>
                        Latest(events', p, kinds) = Latest(events, p, kinds)
  BY <1>1, <1>2, EmitEffect
<1>4. ASSUME NEW p \in changed PROVE Final(p)' = user
  BY <1>2, <1>3, FinalIsApplied DEF Applied
<1>5. ASSUME NEW p \in Players \ changed PROVE FinalKept(p)
  BY <1>1, <1>2, <1>3, FinalIsApplied DEF Applied, FinalKept
<1>6. ASSUME NEW p \in Players PROVE VisitsKept(p)
  BY <1>2, <1>3 DEF VisitsKept
<1> QED BY <1>3, <1>4, <1>5, <1>6

LEMMA VisitEffect ==
    ASSUME events \in Seq(Events), NEW q \in Players, NEW e \in {Joined(q), Left(q)},
           Emit(<<e>>), store' = store
    PROVE  /\ events' \in Seq(Events)
           /\ \A p \in Players : FinalKept(p)
           /\ Waiting(events') => Waiting(events) /\ ~newSession
           /\ Those(events', q, Visiting) # {} /\ Latest(events', q, Visiting) = e
           /\ \A p \in Players \ {q} : VisitsKept(p)
<1> DEFINE t == <<e>>
<1>1. /\ t \in Seq(Events)
      /\ Those(t, q, Visiting) # {} /\ Latest(t, q, Visiting) = e
      /\ \A p \in Players \ {q} : Those(t, p, Visiting) = {}
      /\ \A p \in Players : Those(t, p, {"link"}) = {}
  BY VisitEvents
<1> HIDE DEF t
<1>2. /\ events' \in Seq(Events)
      /\ \A p, kinds :
            /\ Those(t, p, kinds) # {} =>
                  /\ Those(events', p, kinds) # {}
                  /\ Latest(events', p, kinds) = Latest(t, p, kinds)
            /\ Those(t, p, kinds) = {} /\ newSession => Those(events', p, kinds) = {}
            /\ Those(t, p, kinds) = {} /\ ~newSession =>
                  /\ Those(events', p, kinds) = Those(events, p, kinds)
                  /\ Those(events, p, kinds) # {} =>
                        Latest(events', p, kinds) = Latest(events, p, kinds)
  BY <1>1, EmitEffect DEF t
<1>3. ASSUME NEW p \in Players PROVE FinalKept(p)
  BY <1>1, <1>2, FinalIsApplied DEF Applied, FinalKept
<1>4. ASSUME NEW p \in Players \ {q} PROVE VisitsKept(p)
  BY <1>1, <1>2 DEF VisitsKept
<1>5. ASSUME Waiting(events') PROVE Waiting(events) /\ ~newSession
  <2>1. PICK p \in Players : Those(events', p, {"link"}) # {} BY <1>2, <1>5, SomethingWaits
  <2>2. ~newSession /\ Those(events, p, {"link"}) # {} BY <1>1, <1>2, <2>1
  <2> QED BY <2>2, NothingWaits
<1> QED BY <1>1, <1>2, <1>3, <1>4, <1>5

LEMMA HandleEffect ==
    ASSUME TypeOK, HandleEvent
    PROVE  /\ events' \in Seq(Events)
           /\ \A p \in Players : Final(p)' = Final(p)
           /\ Waiting(events') => Waiting(events)
           /\ Head(events).what = "link" => Waiting(events)
           /\ Head(events) \in Events
<1> DEFINE e == Head(events)
<1>1. /\ events \in Seq(Events) /\ events # <<>> /\ events' = Tail(events) /\ store \in Links
  BY DEF TypeOK, HandleEvent
<1>2. /\ events' \in Seq(Events) /\ e \in Events /\ e = events[1] /\ 1 \in DOMAIN events
  BY <1>1, HeadTailProperties, LenProperties, EmptySeq
<1>3. e.what = "link" => store' = [store EXCEPT ![e.player] = e.user]
  <2>1. e.what = "link" => HandleLinkEvent(e) BY DEF HandleEvent
  <2> QED BY <2>1 DEF HandleLinkEvent, Upsert, RemoveByPlayer
<1>4. e.what # "link" => store' = store BY DEF HandleEvent
<1> HIDE DEF e
<1>5. e.what = "link" => Waiting(events) BY <1>2 DEF Waiting
<1>6. ASSUME NEW p \in Players PROVE Final(p)' = Final(p)
  <2>1. CASE Those(events', p, {"link"}) # {}
    <3>1. Those(events, p, {"link"}) # {} /\ Latest(events', p, {"link"}) = Latest(events, p, {"link"})
      BY <1>1, <2>1, LatestOfTail
    <3> QED BY <2>1, <3>1, FinalIsApplied DEF Applied
  <2>2. CASE Those(events', p, {"link"}) = {} /\ Those(events, p, {"link"}) # {}
    <3>1. 1 \in Those(events, p, {"link"}) /\ Latest(events, p, {"link"}) = e
      BY <1>1, <2>2, LatestOfTail DEF e
    <3>2. e.what = "link" /\ e.player = p BY <1>2, <3>1 DEF Those
    <3>3. store'[p] = e.user BY <1>1, <1>3, <3>2 DEF Links
    <3> QED BY <2>2, <3>1, <3>3, FinalIsApplied DEF Applied
  <2>3. CASE Those(events', p, {"link"}) = {} /\ Those(events, p, {"link"}) = {}
    <3>1. ~(e.player = p /\ e.what = "link") BY <1>1, <2>3, LatestOfTail DEF e
    <3>2. store'[p] = store[p] BY <1>1, <1>3, <1>4, <3>1 DEF Links
    <3> QED BY <2>3, <3>2, FinalIsApplied DEF Applied
  <2> QED BY <2>1, <2>2, <2>3
<1>7. ASSUME Waiting(events') PROVE Waiting(events)
  <2>1. PICK p \in Players : Those(events', p, {"link"}) # {} BY <1>2, <1>7, SomethingWaits
  <2>2. Those(events, p, {"link"}) # {} BY <1>1, <2>1, LatestOfTail
  <2> QED BY <2>2, NothingWaits
<1> QED BY <1>2, <1>5, <1>6, <1>7 DEF e

-----------------------------------------------------------------------------
(* Types.                                                                   *)

LEMMA TypeInit == Init => TypeOK
<1> SUFFICES ASSUME Init PROVE TypeOK OBVIOUS
<1>1. events \in Seq(Events) BY EmptySeq DEF Init
<1>2. 0 \in 0..MaxCommands /\ 0 \in 0..MaxSessions /\ 0 \in 0..MaxStarts
  BY BoundsAssumption
<1> QED BY <1>1, <1>2 DEF Init, TypeOK, Links, NoLinks

LEMMA TypeKept == TypeOK /\ [Next]_vars => TypeOK'
<1> SUFFICES ASSUME TypeOK, [Next]_vars PROVE TypeOK' OBVIOUS
<1> USE BoundsAssumption
<1>1. ASSUME UserCommand PROVE TypeOK'
  <2>1. PICK changed \in SUBSET Players, user \in Users \cup {None} : Command(changed, user)
    BY <1>1, UserCommandIs
  <2>2. events' \in Seq(Events) BY <2>1, CommandEffect DEF TypeOK
  <2>3. lost' \in BOOLEAN /\ newSession' \in BOOLEAN
    BY <2>1, Zenon DEF Command, Emit, TypeOK, LinksWait
  <2>4. disturbed' \in BOOLEAN BY <2>1, Zenon DEF Command, TypeOK
  <2>5. links' \in Links /\ wish' \in Links BY <2>1 DEF Command, TypeOK, Links
  <2>6. commands' \in 0..MaxCommands BY <2>1 DEF Command, TypeOK
  <2> QED BY <2>1, <2>2, <2>3, <2>4, <2>5, <2>6
          DEF Command, TypeOK, bridge, monitor
<1>2. ASSUME NEW p \in Players, PlayerJoined(p) \/ PlayerLeft(p) PROVE TypeOK'
  <2>1. PICK e \in {Joined(p), Left(p)} : Emit(<<e>>)
    BY <1>2 DEF PlayerJoined, PlayerLeft
  <2>2. Visit BY <1>2 DEF PlayerJoined, PlayerLeft
  <2>3. events' \in Seq(Events) BY <2>1, <2>2, VisitEffect DEF TypeOK, Visit, bridge
  <2>4. lost' \in BOOLEAN /\ newSession' \in BOOLEAN
    BY <2>1, Zenon DEF Emit, TypeOK, LinksWait
  <2>5. present' \subseteq Players BY <1>2 DEF PlayerJoined, PlayerLeft, TypeOK
  <2>6. commands' \in 0..MaxCommands BY <1>2 DEF PlayerJoined, PlayerLeft, TypeOK
  <2> QED BY <2>2, <2>3, <2>4, <2>5, <2>6 DEF Visit, TypeOK, bridge, monitor
<1>3. ASSUME Autosave PROVE TypeOK'
  BY <1>3 DEF Autosave, TypeOK, bridge, monitor, counts, history
<1>4. ASSUME ServerStops PROVE TypeOK'
  BY <1>4 DEF ServerStops, TypeOK, bridge, monitor, counts, history
<1>5. ASSUME ServerStarts PROVE TypeOK'
  <2>1. NoLinks \in Links BY DEF NoLinks, Links
  <2>2. links' \in Links /\ saved' \in Links BY <1>5, <2>1 DEF ServerStarts, TypeOK
  <2>3. sessions' \in 0..MaxSessions BY <1>5 DEF ServerStarts, TypeOK
  <2> QED BY <1>5, <2>2, <2>3 DEF ServerStarts, TypeOK, bridge, monitor
<1>6. ASSUME BridgeStarts PROVE TypeOK'
  <2>1. lost' \in BOOLEAN BY <1>6, Zenon DEF BridgeStarts, TypeOK, LinksWait
  <2> QED BY <1>6, <2>1 DEF BridgeStarts, TypeOK, game, monitor
<1>7. ASSUME BridgeStops PROVE TypeOK'
  BY <1>7 DEF BridgeStops, TypeOK, game, counts, Links, NoLinks
<1>8. ASSUME HandleEvent PROVE TypeOK'
  <2>1. events' \in Seq(Events) /\ Head(events) \in Events BY <1>8, HandleEffect
  <2>2. store' \in Links
    BY <1>8, <2>1 DEF HandleEvent, HandleLinkEvent, Upsert, RemoveByPlayer, TypeOK, Links, Events
  <2>3. listed' \subseteq Players
    BY <1>8, <2>1 DEF HandleEvent, HandleStatusEvent, TypeOK, Events
  <2>4. misled' \in BOOLEAN BY <1>8, Zenon DEF HandleEvent, HandleStatusEvent, TypeOK
  <2> QED BY <1>8, <2>1, <2>2, <2>3, <2>4 DEF HandleEvent, TypeOK, game, monitor, counts
<1>9. ASSUME CheckConnected PROVE TypeOK'
  <2>1. disturbed' \in BOOLEAN BY <1>9, Zenon DEF CheckConnected, TypeOK, LinksWait
  <2> QED BY <1>9, <2>1 DEF CheckConnected, TypeOK, game, counts
<1>10. ASSUME CheckDisconnected PROVE TypeOK'
  BY <1>10 DEF CheckDisconnected, TypeOK, game, counts, history
<1>11. ASSUME NEW p \in Players, RestoreOne(p) PROVE TypeOK'
  BY <1>11 DEF RestoreOne, SetLink, TypeOK, Links, counts, history
<1>12. ASSUME NEW p \in Players, RestoreOneFails(p) PROVE TypeOK'
  BY <1>12 DEF RestoreOneFails, TypeOK, game, counts
<1>13. ASSUME RestoreDone PROVE TypeOK'
  BY <1>13 DEF RestoreDone, TypeOK, game, counts, history, Links, NoLinks
<1>14. ASSUME UNCHANGED vars PROVE TypeOK'
  BY <1>14 DEF vars, TypeOK, game, bridge, monitor, counts, history
<1> QED BY <1>1, <1>2, <1>3, <1>4, <1>5, <1>6, <1>7, <1>8, <1>9, <1>10, <1>11, <1>12,
           <1>13, <1>14 DEF Next, Restore

-----------------------------------------------------------------------------
(* The parts of the invariant, kept by every step.                          *)

\* The connection of this run of the bridge was made in this session.
LEMMA LifeKept == TypeOK /\ LifeInv /\ [Next]_vars => LifeInv'
<1> SUFFICES ASSUME TypeOK, LifeInv, [Next]_vars PROVE LifeInv' OBVIOUS
<1>1. ASSUME UserCommand PROVE LifeInv'
  <2>1. PICK changed \in SUBSET Players, user \in Users \cup {None} : Command(changed, user)
    BY <1>1, UserCommandIs
  <2> QED BY <2>1 DEF Command, LifeInv, bridge, monitor
<1>2. ASSUME NEW p \in Players, PlayerJoined(p) \/ PlayerLeft(p) PROVE LifeInv'
  BY <1>2 DEF PlayerJoined, PlayerLeft, Visit, LifeInv, bridge, monitor
<1>3. ASSUME Autosave PROVE LifeInv'
  BY <1>3 DEF Autosave, LifeInv, bridge, monitor, history
<1>4. ASSUME ServerStops PROVE LifeInv'
  BY <1>4 DEF ServerStops, LifeInv, bridge, monitor, history
<1>5. ASSUME ServerStarts PROVE LifeInv'
  BY <1>5 DEF ServerStarts, OutageSeen, LifeInv, bridge, monitor
<1>6. ASSUME BridgeStarts PROVE LifeInv'
  BY <1>6 DEF BridgeStarts, LifeInv, monitor
<1>7. ASSUME BridgeStops PROVE LifeInv'
  BY <1>7 DEF BridgeStops, LifeInv
<1>8. ASSUME HandleEvent PROVE LifeInv'
  BY <1>8 DEF HandleEvent, LifeInv, monitor
<1>9. ASSUME CheckConnected PROVE LifeInv'
  BY <1>9 DEF CheckConnected, LifeInv
<1>10. ASSUME CheckDisconnected PROVE LifeInv'
  BY <1>10 DEF CheckDisconnected, LifeInv, history
<1>11. ASSUME NEW p \in Players, RestoreOne(p) PROVE LifeInv'
  BY <1>11 DEF RestoreOne, LifeInv, history
<1>12. ASSUME NEW p \in Players, RestoreOneFails(p) PROVE LifeInv'
  BY <1>12 DEF RestoreOneFails, LifeInv
<1>13. ASSUME RestoreDone PROVE LifeInv'
  BY <1>13 DEF RestoreDone, LifeInv, history
<1>14. ASSUME UNCHANGED vars PROVE LifeInv'
  BY <1>14 DEF vars, LifeInv, bridge, monitor, history
<1> QED BY <1>1, <1>2, <1>3, <1>4, <1>5, <1>6, <1>7, <1>8, <1>9, <1>10, <1>11, <1>12,
           <1>13, <1>14 DEF Next, Restore

\* While nothing disturbs a restore no link event waits, and its snapshot is the store.
LEMMA RestoreKept == TypeOK /\ LifeInv /\ RestoreInv /\ [Next]_vars => RestoreInv'
<1> SUFFICES ASSUME TypeOK, LifeInv, RestoreInv, [Next]_vars PROVE RestoreInv' OBVIOUS
<1> USE WaitingIs
<1>1. ASSUME UserCommand PROVE RestoreInv'
  <2>1. PICK changed \in SUBSET Players, user \in Users \cup {None} : Command(changed, user)
    BY <1>1, UserCommandIs
  <2> QED BY <2>1 DEF Command, Emit, RestoreInv, bridge, monitor
<1>2. ASSUME NEW p \in Players, PlayerJoined(p) \/ PlayerLeft(p) PROVE RestoreInv'
  <2>1. PICK e \in {Joined(p), Left(p)} : Emit(<<e>>)
    BY <1>2 DEF PlayerJoined, PlayerLeft
  <2>2. Visit BY <1>2 DEF PlayerJoined, PlayerLeft
  <2>3. LinksWait' => LinksWait
    BY <2>1, <2>2, VisitEffect DEF TypeOK, Visit, bridge
  <2> QED BY <2>1, <2>2, <2>3 DEF Visit, Emit, RestoreInv, bridge, monitor
<1>3. ASSUME Autosave PROVE RestoreInv'
  BY <1>3 DEF Autosave, RestoreInv, LinksWait, bridge, monitor, history
<1>4. ASSUME ServerStops PROVE RestoreInv'
  BY <1>4 DEF ServerStops, RestoreInv, LinksWait, bridge, monitor, history
<1>5. ASSUME ServerStarts PROVE RestoreInv'
  BY <1>5 DEF ServerStarts, RestoreInv, LinksWait, bridge, monitor
<1>6. ASSUME BridgeStarts PROVE RestoreInv'
  <2>1. ~LinksWait' BY <1>6 DEF BridgeStarts, Waiting
  <2> QED BY <1>6, <2>1 DEF BridgeStarts, LifeInv, RestoreInv, game, monitor
<1>7. ASSUME BridgeStops PROVE RestoreInv'
  BY <1>7 DEF BridgeStops, RestoreInv
<1>8. ASSUME HandleEvent PROVE RestoreInv'
  <2>1. /\ Waiting(events') => Waiting(events)
        /\ Head(events).what = "link" => Waiting(events)
    BY <1>8, HandleEffect
  <2>2. ~LinksWait => store' = store BY <1>8, <2>1 DEF HandleEvent
  <2> QED BY <1>8, <2>1, <2>2 DEF HandleEvent, RestoreInv, game, monitor
<1>9. ASSUME CheckConnected PROVE RestoreInv'
  BY <1>9 DEF CheckConnected, RestoreInv, LinksWait, game
<1>10. ASSUME CheckDisconnected PROVE RestoreInv'
  BY <1>10 DEF CheckDisconnected, RestoreInv, LinksWait, game, history
<1>11. ASSUME NEW p \in Players, RestoreOne(p) PROVE RestoreInv'
  BY <1>11 DEF RestoreOne, RestoreInv, LinksWait, history
<1>12. ASSUME NEW p \in Players, RestoreOneFails(p) PROVE RestoreInv'
  BY <1>12 DEF RestoreOneFails, RestoreInv, LinksWait, game
<1>13. ASSUME RestoreDone PROVE RestoreInv'
  BY <1>13 DEF RestoreDone, RestoreInv, LinksWait, game, history
<1>14. ASSUME UNCHANGED vars PROVE RestoreInv'
  BY <1>14 DEF vars, RestoreInv, LinksWait, game, bridge, monitor, history
<1> QED BY <1>1, <1>2, <1>3, <1>4, <1>5, <1>6, <1>7, <1>8, <1>9, <1>10, <1>11, <1>12,
           <1>13, <1>14 DEF Next, Restore

\* Steps that touch neither the waiting events nor the store keep every final link.
LEMMA FinalUntouched ==
    ASSUME events' = events, store' = store
    PROVE  \A p \in Players : Final(p)' = Final(p)
BY FinalIsApplied

\* The waiting events over the store are what users asked for.
LEMMA StoreKept == TypeOK /\ StoreIsTheLog /\ [Next]_vars => StoreIsTheLog'
<1> SUFFICES ASSUME TypeOK, StoreIsTheLog, [Next]_vars PROVE StoreIsTheLog' OBVIOUS
<1> USE WaitingIs
<1>1. ASSUME UserCommand PROVE StoreIsTheLog'
  <2>1. PICK changed \in SUBSET Players, user \in Users \cup {None} : Command(changed, user)
    BY <1>1, UserCommandIs
  <2>2. /\ \A p \in changed : Final(p)' = user
        /\ \A p \in Players \ changed : FinalKept(p)
    BY <2>1, CommandEffect DEF TypeOK
  <2>3. SUFFICES ASSUME ~lost', NEW p \in Players PROVE Final(p)' = wish'[p]
    BY DEF StoreIsTheLog
  <2>4. ~lost /\ (newSession => ~Waiting(events)) BY <2>1, <2>3 DEF Command, Emit
  <2>5. CASE p \in changed BY <2>1, <2>2, <2>5 DEF Command
  <2>6. CASE p \notin changed
    <3>1. wish'[p] = wish[p] BY <2>1, <2>6 DEF Command
    <3>2. newSession => Final(p) = store[p] BY <2>4, NothingWaits, FinalIsApplied
    <3>3. Final(p)' = Final(p) BY <2>2, <2>6, <3>2 DEF FinalKept
    <3> QED BY <2>4, <3>1, <3>3 DEF StoreIsTheLog
  <2> QED BY <2>5, <2>6
<1>2. ASSUME NEW q \in Players, PlayerJoined(q) \/ PlayerLeft(q) PROVE StoreIsTheLog'
  <2>1. PICK e \in {Joined(q), Left(q)} : Emit(<<e>>)
    BY <1>2 DEF PlayerJoined, PlayerLeft
  <2>2. Visit BY <1>2 DEF PlayerJoined, PlayerLeft
  <2>3. \A p \in Players : FinalKept(p)
    BY <2>1, <2>2, VisitEffect DEF TypeOK, Visit, bridge
  <2>4. SUFFICES ASSUME ~lost', NEW p \in Players PROVE Final(p)' = wish'[p]
    BY DEF StoreIsTheLog
  <2>5. ~lost /\ (newSession => ~Waiting(events)) BY <2>1, <2>4 DEF Emit
  <2>6. newSession => Final(p) = store[p] BY <2>5, NothingWaits, FinalIsApplied
  <2>7. Final(p)' = Final(p) BY <2>3, <2>6 DEF FinalKept
  <2> QED BY <2>2, <2>5, <2>7 DEF Visit, StoreIsTheLog
<1>3. ASSUME BridgeStarts PROVE StoreIsTheLog'
  <2>1. SUFFICES ASSUME ~lost', NEW p \in Players PROVE Final(p)' = wish'[p]
    BY DEF StoreIsTheLog
  <2>2. ~lost /\ ~Waiting(events) /\ store' = store /\ wish' = wish
    BY <1>3, <2>1 DEF BridgeStarts
  <2>3. ~Waiting(events') BY <1>3 DEF BridgeStarts, Waiting
  <2>4. Final(p)' = store[p] /\ Final(p) = store[p]
    BY <2>2, <2>3, NothingWaits, FinalIsApplied
  <2> QED BY <2>2, <2>4 DEF StoreIsTheLog
<1>4. ASSUME HandleEvent PROVE StoreIsTheLog'
  <2>1. \A p \in Players : Final(p)' = Final(p) BY <1>4, HandleEffect
  <2> QED BY <1>4, <2>1 DEF HandleEvent, StoreIsTheLog
<1>5. ASSUME UNCHANGED <<events, store, wish, lost>> PROVE StoreIsTheLog'
  BY <1>5, FinalUntouched DEF StoreIsTheLog
<1>6. ASSUME Autosave \/ ServerStops \/ ServerStarts \/ BridgeStops
      PROVE  UNCHANGED <<events, store, wish, lost>>
  BY <1>6 DEF Autosave, ServerStops, ServerStarts, BridgeStops, bridge, history
<1>7. ASSUME CheckConnected \/ CheckDisconnected \/ RestoreDone
      PROVE  UNCHANGED <<events, store, wish, lost>>
  BY <1>7 DEF CheckConnected, CheckDisconnected, RestoreDone, history
<1>8. ASSUME NEW p \in Players, RestoreOne(p) \/ RestoreOneFails(p)
      PROVE  UNCHANGED <<events, store, wish, lost>>
  BY <1>8 DEF RestoreOne, RestoreOneFails, history
<1>9. ASSUME UNCHANGED vars PROVE UNCHANGED <<events, store, wish, lost>>
  BY <1>9 DEF vars, bridge, history
<1> QED BY <1>1, <1>2, <1>3, <1>4, <1>5, <1>6, <1>7, <1>8, <1>9 DEF Next, Restore

\* What was pushed stays in the mod.
LEMMA RestoredKept ==
    TypeOK /\ LifeInv /\ RestoreInv /\ RestoredLinksHold /\ [Next]_vars => RestoredLinksHold'
<1> SUFFICES ASSUME TypeOK, LifeInv, RestoreInv, RestoredLinksHold, [Next]_vars
             PROVE  RestoredLinksHold'
  OBVIOUS
<1> USE WaitingIs
<1>1. ASSUME UserCommand PROVE RestoredLinksHold'
  <2>1. PICK changed \in SUBSET Players, user \in Users \cup {None} : Command(changed, user)
    BY <1>1, UserCommandIs
  <2>2. /\ \A p \in changed : Final(p)' = user
        /\ \A p \in Players \ changed : FinalKept(p)
    BY <2>1, CommandEffect DEF TypeOK
  <2>3. SUFFICES ASSUME restored', ~disturbed', NEW p \in Players, p \notin toRestore',
                        Final(p)' # None
                 PROVE  links'[p] = Final(p)'
    BY DEF RestoredLinksHold
  <2>4. restored /\ ~disturbed /\ p \notin toRestore
    BY <2>1, <2>3 DEF Command, bridge, monitor
  <2>5. CASE p \in changed BY <2>1, <2>2, <2>5 DEF Command
  <2>6. CASE p \notin changed
    <3>1. links'[p] = links[p] BY <2>1, <2>6 DEF Command
    <3>2. newSession => ~Waiting(events) BY <2>4 DEF RestoreInv
    <3>3. newSession => Final(p) = store[p] BY <3>2, NothingWaits, FinalIsApplied
    <3>4. Final(p)' = Final(p) BY <2>2, <2>6, <3>3 DEF FinalKept
    <3> QED BY <2>3, <2>4, <3>1, <3>4 DEF RestoredLinksHold
  <2> QED BY <2>5, <2>6
<1>2. ASSUME NEW q \in Players, PlayerJoined(q) \/ PlayerLeft(q) PROVE RestoredLinksHold'
  <2>1. PICK e \in {Joined(q), Left(q)} : Emit(<<e>>)
    BY <1>2 DEF PlayerJoined, PlayerLeft
  <2>2. Visit BY <1>2 DEF PlayerJoined, PlayerLeft
  <2>3. \A p \in Players : FinalKept(p)
    BY <2>1, <2>2, VisitEffect DEF TypeOK, Visit, bridge
  <2>4. SUFFICES ASSUME restored', ~disturbed', NEW p \in Players, p \notin toRestore',
                        Final(p)' # None
                 PROVE  links'[p] = Final(p)'
    BY DEF RestoredLinksHold
  <2>5. restored /\ ~disturbed /\ p \notin toRestore /\ links' = links
    BY <2>2, <2>4 DEF Visit, bridge, monitor
  <2>6. newSession => ~Waiting(events) BY <2>5 DEF RestoreInv
  <2>7. newSession => Final(p) = store[p] BY <2>6, NothingWaits, FinalIsApplied
  <2>8. Final(p)' = Final(p) BY <2>3, <2>7 DEF FinalKept
  <2> QED BY <2>4, <2>5, <2>8 DEF RestoredLinksHold
<1>3. ASSUME ServerStarts \/ BridgeStops PROVE RestoredLinksHold'
  BY <1>3 DEF ServerStarts, BridgeStops, RestoredLinksHold
<1>4. ASSUME BridgeStarts PROVE RestoredLinksHold'
  BY <1>4 DEF BridgeStarts, LifeInv, RestoredLinksHold
<1>5. ASSUME HandleEvent PROVE RestoredLinksHold'
  <2>1. \A p \in Players : Final(p)' = Final(p) BY <1>5, HandleEffect
  <2> QED BY <1>5, <2>1 DEF HandleEvent, RestoredLinksHold, game, monitor
<1>6. ASSUME CheckConnected PROVE RestoredLinksHold'
  <2>1. SUFFICES ASSUME ~disturbed', NEW p \in Players, p \notin toRestore',
                        Final(p)' # None
                 PROVE  FALSE
    BY DEF RestoredLinksHold
  <2>2. ~Waiting(events) /\ store[p] = None /\ events' = events /\ store' = store
    BY <1>6, <2>1 DEF CheckConnected
  <2>3. Final(p)' = store[p] BY <2>2, NothingWaits, FinalIsApplied
  <2> QED BY <2>1, <2>2, <2>3
<1>7. ASSUME NEW q \in Players, RestoreOne(q) PROVE RestoredLinksHold'
  <2>1. SUFFICES ASSUME restored', ~disturbed', NEW p \in Players, p \notin toRestore',
                        Final(p)' # None
                 PROVE  links'[p] = Final(p)'
    BY DEF RestoredLinksHold
  <2>2. restored /\ ~disturbed /\ restoring /\ Final(p)' = Final(p)
    BY <1>7, <2>1, FinalUntouched DEF RestoreOne, history
  <2>3. snapshot = store /\ ~Waiting(events) BY <2>2 DEF RestoreInv
  <2>4. CASE p = q
    <3>1. links'[p] = snapshot[p] BY <1>7, <2>4 DEF RestoreOne, SetLink, TypeOK, Links
    <3>2. Final(p) = store[p] BY <2>3, NothingWaits, FinalIsApplied
    <3> QED BY <2>2, <2>3, <3>1, <3>2
  <2>5. CASE p # q
    <3>1. links'[p] = links[p] /\ p \notin toRestore
      BY <1>7, <2>1, <2>5 DEF RestoreOne, SetLink, TypeOK, Links
    <3> QED BY <2>1, <2>2, <3>1 DEF RestoredLinksHold
  <2> QED BY <2>4, <2>5
<1>8. ASSUME NEW q \in Players, RestoreOneFails(q) PROVE RestoredLinksHold'
  BY <1>8 DEF RestoreOneFails, RestoredLinksHold
<1>9. ASSUME UNCHANGED <<events, store, links, restored, disturbed, toRestore>>
      PROVE  RestoredLinksHold'
  BY <1>9, FinalUntouched DEF RestoredLinksHold
<1>10. ASSUME Autosave \/ ServerStops \/ CheckDisconnected \/ RestoreDone \/ UNCHANGED vars
       PROVE  UNCHANGED <<events, store, links, restored, disturbed, toRestore>>
  BY <1>10 DEF Autosave, ServerStops, CheckDisconnected, RestoreDone, vars,
               game, bridge, monitor, history
<1> QED BY <1>1, <1>2, <1>3, <1>4, <1>5, <1>6, <1>7, <1>8, <1>9, <1>10 DEF Next, Restore

\* The list, with the visits that wait, is that of the players in the game.
LEMMA PresenceKept ==
    TypeOK /\ LifeInv /\ PresenceInv /\ [Next]_vars => PresenceInv'
<1> SUFFICES ASSUME TypeOK, LifeInv, PresenceInv, [Next]_vars PROVE PresenceInv' OBVIOUS
<1>1. ASSUME UserCommand PROVE PresenceInv'
  <2>1. PICK changed \in SUBSET Players, user \in Users \cup {None} : Command(changed, user)
    BY <1>1, UserCommandIs
  <2>2. \A p \in Players : VisitsKept(p) BY <2>1, CommandEffect DEF TypeOK
  <2>3. UNCHANGED <<serverUp, present, restoring, reply, listed, last, misled>> /\ ~newSession'
    BY <2>1 DEF Command, Emit, bridge, monitor
  <2> QED BY <2>2, <2>3 DEF PresenceInv, VisitsKept, Base
<1>2. ASSUME NEW q \in Players, NEW e \in {Joined(q), Left(q)}, Emit(<<e>>), Visit,
             present' = IF e = Joined(q) THEN present \cup {q} ELSE present \ {q}
      PROVE  PresenceInv'
  <2>1. /\ Those(events', q, Visiting) # {} /\ Latest(events', q, Visiting) = e
        /\ \A p \in Players \ {q} : VisitsKept(p)
    BY <1>2, VisitEffect DEF TypeOK, Visit, bridge
  <2>2. UNCHANGED <<restoring, reply, listed, last, misled>> /\ ~newSession' /\ serverUp
        /\ serverUp'
    BY <1>2 DEF Visit, Emit, bridge, monitor
  <2>3. e.what = "joined" <=> e = Joined(q) BY DEF Joined, Left
  <2>4. q \in present' <=> e = Joined(q) BY <1>2
  <2>5. \A p \in Players \ {q} : p \in present' <=> p \in present BY <1>2
  <2>6. ASSUME NEW p \in Players, Those(events', p, Visiting) # {}
        PROVE  Latest(events', p, Visiting).what = "joined" <=> p \in present'
    <3>1. CASE p = q BY <2>1, <2>3, <2>4, <3>1
    <3>2. CASE p # q BY <2>1, <2>2, <2>5, <2>6, <3>2 DEF VisitsKept, PresenceInv
    <3> QED BY <3>1, <3>2
  <2>7. ASSUME ~FastReset, ~misled, restoring \/ last = "up", NEW p \in Players,
               Those(events', p, Visiting) = {}
        PROVE  p \in Base <=> p \in present'
    <3>1. p # q BY <2>1, <2>7
    <3> QED BY <2>1, <2>2, <2>5, <2>7, <3>1 DEF VisitsKept, PresenceInv
  <2> QED BY <2>2, <2>6, <2>7 DEF PresenceInv, Base
<1>3. ASSUME NEW q \in Players, PlayerJoined(q) PROVE PresenceInv'
  BY <1>2, <1>3 DEF PlayerJoined
<1>4. ASSUME NEW q \in Players, PlayerLeft(q) PROVE PresenceInv'
  <2>1. Left(q) # Joined(q) BY DEF Left, Joined
  <2> QED BY <1>2, <1>4, <2>1 DEF PlayerLeft
<1>5. ASSUME ServerStops PROVE PresenceInv'
  BY <1>5 DEF ServerStops, PresenceInv
<1>6. ASSUME ServerStarts PROVE PresenceInv'
  <2>1. present = {} /\ UNCHANGED <<present, restoring, last, misled>> /\ newSession'
    BY <1>6 DEF ServerStarts, PresenceInv, bridge, monitor
  <2>2. ~FastReset => ~(restoring \/ last = "up")
    BY <1>6 DEF ServerStarts, OutageSeen, LifeInv
  <2> QED BY <2>1, <2>2 DEF PresenceInv
<1>7. ASSUME BridgeStarts PROVE PresenceInv'
  <2>1. ~restoring /\ last # "up" /\ UNCHANGED <<restoring, last>>
    BY <1>7 DEF BridgeStarts, LifeInv, monitor
  <2>2. events' = <<>> /\ UNCHANGED <<present, newSession, serverUp>>
    BY <1>7 DEF BridgeStarts, game
  <2>3. \A p : Those(events', p, Visiting) = {} BY <2>2 DEF Those
  <2> QED BY <2>1, <2>2, <2>3 DEF PresenceInv
<1>8. ASSUME BridgeStops PROVE PresenceInv'
  BY <1>8 DEF BridgeStops, PresenceInv, game
<1>9. ASSUME HandleEvent PROVE PresenceInv'
  <2> DEFINE e == Head(events)
  <2>1. events \in Seq(Events) /\ events # <<>> /\ events' = Tail(events)
    BY <1>9 DEF HandleEvent, TypeOK
  <2>2. e \in Events BY <1>9, HandleEffect
  <2>3. UNCHANGED <<serverUp, newSession, present, restoring, reply, last, restored>>
    BY <1>9 DEF HandleEvent, game, monitor
  <2>4. e.what = "link" => UNCHANGED <<listed, misled>> BY <1>9 DEF HandleEvent
  <2>5. e.what # "link" => HandleStatusEvent(e) BY <1>9 DEF HandleEvent
  <2>6. e.what # "link" => e.what \in Visiting BY <2>2 DEF Events, Visiting
  <2> HIDE DEF e
  <2>7. ASSUME serverUp, ~newSession, NEW p \in Players, Those(events', p, Visiting) # {}
        PROVE  Latest(events', p, Visiting).what = "joined" <=> p \in present
    <3>1. Those(events, p, Visiting) # {}
          /\ Latest(events', p, Visiting) = Latest(events, p, Visiting)
      BY <2>1, <2>7, LatestOfTail
    <3> QED BY <2>7, <3>1 DEF PresenceInv
  <2>8. ASSUME ~FastReset, serverUp, ~misled', restoring \/ last = "up", NEW p \in Players,
               newSession \/ Those(events', p, Visiting) = {}
        PROVE  p \in Base' <=> p \in present
    <3>1. restored BY <2>8 DEF LifeInv
    <3>2. ~misled BY <2>4, <2>5, <2>8 DEF HandleStatusEvent
    <3>3. CASE newSession
      <4>1. e.what = "link" BY <2>5, <2>8, <3>1, <3>3 DEF HandleStatusEvent
      <4> QED BY <2>3, <2>4, <2>8, <3>2, <3>3, <4>1 DEF PresenceInv, Base
    <3>4. CASE ~newSession /\ Those(events, p, Visiting) = {}
      <4>1. p \in Base <=> p \in present BY <2>8, <3>2, <3>4 DEF PresenceInv
      <4>2. ~(e.player = p /\ e.what \in Visiting)
        BY <2>1, <2>8, <3>4, LatestOfTail DEF e
      <4>3. p \in listed' <=> p \in listed
        BY <2>4, <2>5, <2>6, <4>2 DEF HandleStatusEvent
      <4> QED BY <2>3, <4>1, <4>3 DEF Base
    <3>5. CASE ~newSession /\ Those(events, p, Visiting) # {}
      <4>1. 1 \in Those(events, p, Visiting) /\ Latest(events, p, Visiting) = e
        BY <2>1, <2>8, <3>5, LatestOfTail DEF e
      <4>2. e.what = "joined" <=> p \in present BY <2>8, <3>5, <4>1 DEF PresenceInv
      <4>3. e.player = p /\ e.what \in Visiting
        BY <2>1, <4>1, HeadTailProperties DEF Those, e
      <4>4. ~restoring /\ HandleStatusEvent(e)
        BY <2>5, <2>8, <4>3 DEF Visiting, HandleStatusEvent
      <4>5. p \in listed' <=> e.what = "joined" BY <4>3, <4>4 DEF HandleStatusEvent
      <4> QED BY <2>3, <4>2, <4>4, <4>5 DEF Base
    <3> QED BY <2>8, <3>3, <3>4, <3>5
  <2> QED BY <2>3, <2>7, <2>8 DEF PresenceInv
<1>10. ASSUME CheckConnected PROVE PresenceInv'
  <2>1. restoring' /\ reply' = present /\ UNCHANGED <<present, newSession, serverUp, events>>
    BY <1>10 DEF CheckConnected, game
  <2>2. \A p \in Players : p \in Base' <=> p \in present' BY <2>1 DEF Base
  <2> QED BY <2>1, <2>2 DEF PresenceInv
<1>11. ASSUME CheckDisconnected PROVE PresenceInv'
  <2>1. ~restoring' /\ last' = "down" BY <1>11 DEF CheckDisconnected
  <2> QED BY <1>11, <2>1 DEF CheckDisconnected, PresenceInv, game
<1>12. ASSUME RestoreDone PROVE PresenceInv'
  <2>1. Base' = Base /\ restoring BY <1>12 DEF RestoreDone, Base
  <2> QED BY <1>12, <2>1 DEF RestoreDone, PresenceInv, game, history
<1>13. ASSUME UNCHANGED <<serverUp, newSession, present, events, restoring, reply, listed, last,
                          misled>>
       PROVE  PresenceInv'
  BY <1>13 DEF PresenceInv, Base
<1>14. ASSUME Autosave \/ UNCHANGED vars
       PROVE  UNCHANGED <<serverUp, newSession, present, events, restoring, reply, listed, last,
                          misled>>
  BY <1>14 DEF Autosave, vars, game, bridge, monitor, history
<1>15. ASSUME NEW p \in Players, RestoreOne(p) \/ RestoreOneFails(p)
       PROVE  UNCHANGED <<serverUp, newSession, present, events, restoring, reply, listed, last,
                          misled>>
  BY <1>15 DEF RestoreOne, RestoreOneFails, game, history
<1> QED BY <1>1, <1>3, <1>4, <1>5, <1>6, <1>7, <1>8, <1>9, <1>10, <1>11, <1>12, <1>13, <1>14,
           <1>15 DEF Next, Restore

-----------------------------------------------------------------------------
(* The theorems.                                                            *)

LEMMA InvInit == Init => IInv
<1> SUFFICES ASSUME Init PROVE IInv OBVIOUS
<1>1. TypeOK BY TypeInit
<1>2. events = <<>> /\ store = NoLinks BY DEF Init
<1>3. \A p, kinds : Those(events, p, kinds) = {} BY <1>2 DEF Those
<1>4. StoreIsTheLog
  <2>1. ASSUME NEW p \in Players PROVE Final(p) = wish[p]
    BY <1>2, <1>3, FinalIsApplied DEF Applied, Init
  <2> QED BY <2>1 DEF StoreIsTheLog
<1>5. LifeInv /\ RestoreInv /\ RestoredLinksHold
  BY DEF Init, LifeInv, RestoreInv, RestoredLinksHold, LinksWait
<1>6. PresenceInv BY <1>3 DEF Init, PresenceInv
<1> QED BY <1>1, <1>4, <1>5, <1>6 DEF IInv

THEOREM Invariant == Spec => []IInv
<1>1. IInv /\ [Next]_vars => IInv'
  BY TypeKept, LifeKept, RestoreKept, PresenceKept, StoreKept, RestoredKept DEF IInv
<1> QED BY InvInit, <1>1, PTL DEF Spec

\* The types of the links, their events, the monitor and the list of players.
THEOREM TypeCorrect == Spec => []TypeOK
<1>1. IInv => TypeOK BY DEF IInv
<1> QED BY Invariant, <1>1, PTL

\* The store follows what users asked for, for any players, users and histories:
\* handleLinkEvent, the store on disk, restores and restarts lose nothing that was not
\* overwritten in the file or written while no bridge ran.
THEOREM StoreFollows == Spec => []StoreIsTheLog
<1>1. IInv => StoreIsTheLog BY DEF IInv
<1> QED BY Invariant, <1>1, PTL

\* A link that restoreLinks has pushed is in the mod, and later commands reach both the
\* mod and the store, unless the restore was disturbed; also when the game resets
\* faster than the monitor polls.
THEOREM RestoresHold == Spec => []RestoredLinksHold
<1>1. IInv => RestoredLinksHold BY DEF IInv
<1> QED BY Invariant, <1>1, PTL

\* The waiting visits are those of Visits.
LEMMA VisitsAre ==
    ASSUME TypeOK, NEW p \in Players
    PROVE  /\ Visits(p) = Those(events, p, Visiting)
           /\ FinallyListed(p) <=>
                 IF newSession \/ Those(events, p, Visiting) = {} THEN p \in listed
                 ELSE Latest(events, p, Visiting).what = "joined"
<1>1. ASSUME NEW i \in DOMAIN events PROVE events[i].what # "link" <=> events[i].what \in Visiting
  <2>1. events[i] \in Events BY ElementOfSeq, LenProperties DEF TypeOK
  <2> QED BY <2>1 DEF Events, Visiting
<1>2. Visits(p) = Those(events, p, Visiting) BY <1>1 DEF Visits, Those
<1> QED BY <1>2 DEF FinallyListed, Latest

\* While the monitor notices every outage, the topic's players are those who are in the
\* game, over resets, failed polls, and restores of any length.
THEOREM PlayersCorrect ==
    ASSUME ~FastReset
    PROVE  Spec => []PlayersAreListed
<1>1. IInv => PlayersAreListed
  <2> SUFFICES ASSUME IInv, bridgeUp, serverUp, last = "up", ~restoring, ~misled,
                      NEW p \in Players
               PROVE  FinallyListed(p) <=> p \in present
    BY DEF PlayersAreListed
  <2>1. FinallyListed(p) <=>
           IF newSession \/ Those(events, p, Visiting) = {} THEN p \in listed
           ELSE Latest(events, p, Visiting).what = "joined"
    BY VisitsAre DEF IInv
  <2>2. CASE newSession \/ Those(events, p, Visiting) = {}
    BY <2>1, <2>2 DEF IInv, PresenceInv, Base
  <2>3. CASE ~newSession /\ Those(events, p, Visiting) # {}
    BY <2>1, <2>3 DEF IInv, PresenceInv
  <2> QED BY <2>2, <2>3
<1> QED BY Invariant, <1>1, PTL
=============================================================================
