------------------------ MODULE StatusManagerProofs ------------------------
(***************************************************************************)
(* TLAPS proofs about StatusManager, for every number of workers, players   *)
(* and ticks, timers that Stop does not reach and failing calls included.    *)
(***************************************************************************)
EXTENDS StatusManager, TLAPS

WorkerStates == {"free", "armed", "fired", "format", "send", "refresh"}

\* The inductive invariant: pendingTimer must point at a timer that will still
\* push, or the branches of schedule and scheduleRefresh that rely on it would
\* lose an update or end the refresh.
IInv ==
    /\ pendingTimer \in Workers \cup {None}
    /\ st \in [Workers -> WorkerStates]
    /\ PendingIsLive
    /\ NoLostUpdate
    /\ RefreshGoesOn

-----------------------------------------------------------------------------
\* Arming a free worker makes it the live pending timer and stops no other.
LEMMA ArmFacts ==
    ASSUME IInv, NEW w \in Workers, NEW d, Arm(w, d)
    PROVE  /\ st' \in [Workers -> WorkerStates] /\ pendingTimer' = w
           /\ st'[w] = "armed"
  BY DEF IInv, Arm, WorkerStates

\* After schedule a push of the current state is due.
LEMMA ScheduleStep ==
    ASSUME IInv, NEW h \in Handlers, Schedule(h)
    PROVE  IInv'
  <1>1. UNCHANGED <<fields, formatted>>
    BY DEF Schedule, history
  <1>2. /\ st' \in [Workers -> WorkerStates]
        /\ pendingTimer' \in Workers \cup {None}
        /\ PendingIsLive' /\ Due'
    <2>1. CASE pendingTimer # None /\ UNCHANGED <<pendingTimer, st>>
      BY <2>1 DEF IInv, PendingIsLive, Due
    <2>2. CASE \E w \in Workers : \E d \in {InitialDelay, Cooldown - age} : Arm(w, d)
      BY <2>2, ArmFacts, WorkersAssumption DEF PendingIsLive, Due
    <2>3. CASE ScheduleNow(h)
      <3>1. pendingTimer' = None
        BY <2>3 DEF ScheduleNow
      <3>2. PICK w \in Workers :
               st' = [v \in Workers |->
                        IF v = w THEN "format"
                        ELSE IF v = pendingTimer /\ st[v] = "armed" THEN "free"
                        ELSE st[v]]
        BY <2>3 DEF ScheduleNow
      <3>3. st' \in [Workers -> WorkerStates] /\ st'[w] = "format"
        BY <3>2 DEF IInv, WorkerStates
      <3> QED
        BY <3>1, <3>3 DEF PendingIsLive, Due
    <2> QED
      BY <2>1, <2>2, <2>3 DEF Schedule, ScheduleFirst, ScheduleTrailing
  <1> QED
    BY <1>1, <1>2 DEF IInv, NoLostUpdate, RefreshGoesOn, Due, Topic, fields

\* A worker's own step keeps the invariant.
LEMMA WorkerStep ==
    ASSUME IInv, NEW w \in Workers, Worker(w)
    PROVE  IInv'
  <1> USE DEF fields, timing, workers, history
  <1>1. ASSUME NEW s \in WorkerStates \ {"free"},
               st' = [st EXCEPT ![w] = s],
               UNCHANGED <<online, hasEverSeen, players, caller>>,
               \/ formatted' = Topic
               \/ UNCHANGED formatted /\ (st[w] \in {"armed", "fired", "format"}
                                            => s \in {"armed", "fired", "format"}),
               \/ pendingTimer' = w /\ s = "armed"
               \/ pendingTimer' = None
               \/ pendingTimer' = pendingTimer
                    /\ (pendingTimer = w => s \in {"armed", "fired"})
        PROVE  IInv'
    <2>1. /\ st' \in [Workers -> WorkerStates]
          /\ \A v \in Workers : st'[v] = IF v = w THEN s ELSE st[v]
      BY <1>1 DEF IInv
    <2>2. pendingTimer' \in Workers \cup {None} /\ PendingIsLive'
      BY <1>1, <2>1, WorkersAssumption DEF IInv, PendingIsLive
    <2>3. NoLostUpdate'
      BY <1>1, <2>1 DEF IInv, NoLostUpdate, Due, Topic
    <2>4. RefreshGoesOn'
      BY <1>1, <2>1 DEF RefreshGoesOn
    <2> QED
      BY <2>1, <2>2, <2>3, <2>4 DEF IInv
  <1>2. pendingTimer = w => st[w] \in {"armed", "fired"}
    BY WorkersAssumption DEF IInv, PendingIsLive
  <1>3. CASE Fire(w)
    BY <1>1, <1>3 DEF Fire, WorkerStates
  <1>4. CASE Callback(w)
    BY <1>1, <1>4 DEF Callback, WorkerStates
  <1>5. CASE Format(w)
    BY <1>1, <1>2, <1>5 DEF Format, WorkerStates
  <1>6. CASE SendOK(w) \/ SendFails(w)
    BY <1>1, <1>2, <1>6 DEF SendOK, SendFails, WorkerStates
  <1>7. CASE ScheduleRefresh(w) /\ online /\ pendingTimer = None
    BY <1>1, <1>7 DEF ScheduleRefresh, WorkerStates
  <1>8. CASE ScheduleRefresh(w) /\ ~(online /\ pendingTimer = None)
    <2>1. /\ st[w] = "refresh"
          /\ st' = [st EXCEPT ![w] = "free"]
          /\ UNCHANGED <<online, hasEverSeen, players, caller, pendingTimer, formatted>>
      BY <1>8 DEF ScheduleRefresh
    <2>2. /\ st' \in [Workers -> WorkerStates]
          /\ \A v \in Workers : st'[v] = IF v = w THEN "free" ELSE st[v]
      BY <2>1 DEF IInv, WorkerStates
    <2>3. pendingTimer' \in Workers \cup {None} /\ PendingIsLive'
      BY <1>2, <2>1, <2>2 DEF IInv, PendingIsLive
    <2>4. NoLostUpdate'
      BY <2>1, <2>2 DEF IInv, NoLostUpdate, Due, Topic
    <2>5. RefreshGoesOn'
      BY <1>8, <2>1, <2>2, <2>3 DEF RefreshGoesOn, PendingIsLive
    <2> QED
      BY <2>2, <2>3, <2>4, <2>5 DEF IInv
  <1> QED
    BY <1>3, <1>4, <1>5, <1>6, <1>7, <1>8 DEF Worker

\* The invariant is inductive.
LEMMA Inductive ==
    ASSUME IInv, [Next]_vars
    PROVE  IInv'
  <1> USE DEF fields, timing, workers, history
  <1>1. CASE Events
    <2>1. caller' # {} /\ UNCHANGED <<pendingTimer, st>>
      BY <1>1 DEF Events, OnConnected, OnDisconnected, OnPlayerJoined,
                  OnPlayerLeft, Event
    <2> QED
      BY <2>1 DEF IInv, PendingIsLive, NoLostUpdate, RefreshGoesOn
  <1>2. CASE \E h \in Handlers : Schedule(h)
    BY <1>2, ScheduleStep
  <1>3. CASE \E w \in Workers : Worker(w)
    BY <1>3, WorkerStep
  <1>4. CASE Tick \/ UNCHANGED vars
    <2>1. UNCHANGED <<fields, pendingTimer, st, caller, formatted>>
      BY <1>4 DEF Tick, vars
    <2> QED
      BY <2>1 DEF IInv, PendingIsLive, NoLostUpdate, RefreshGoesOn, Due, Topic
  <1> QED
    BY <1>1, <1>2, <1>3, <1>4 DEF Next

LEMMA IInvHolds == Spec => []IInv
  <1>1. Init => IInv
    BY DEF Init, IInv, WorkerStates, PendingIsLive, NoLostUpdate, RefreshGoesOn
  <1> QED
    BY <1>1, Inductive, PTL DEF Spec

-----------------------------------------------------------------------------
\* No state change is ever forgotten, however events, timers, stopped timers
\* and slow or failing calls interleave.
THEOREM UpdatesAreNotLost == Spec => []NoLostUpdate
  <1>1. IInv => NoLostUpdate
    BY DEF IInv
  <1> QED
    BY <1>1, IInvHolds, PTL

\* While the server is online the refresh never dies out.
THEOREM RefreshNeverStops == Spec => []RefreshGoesOn
  <1>1. IInv => RefreshGoesOn
    BY DEF IInv
  <1> QED
    BY <1>1, IInvHolds, PTL

\* pendingTimer always points at a timer that will still push.
THEOREM PendingTimerIsLive == Spec => []PendingIsLive
  <1>1. IInv => PendingIsLive
    BY DEF IInv
  <1> QED
    BY <1>1, IInvHolds, PTL
-----------------------------------------------------------------------------
(* Types.                                                                   *)

LEMMA Numbers ==
    /\ Cooldown \in Nat /\ InitialDelay \in 0 .. Cooldown /\ Window \in Nat
    /\ Window = Cooldown + Cooldown /\ Never = -1 /\ Never \in -1 .. Cooldown
  BY TimesAssumption DEF Window, Never

\* Every variable keeps its type.
LEMMA TypeStep ==
    ASSUME TypeOK, [Next]_vars
    PROVE  TypeOK'
  <1> USE DEF fields, timing, workers, history
  <1>1. CASE Events
    <2>1. UNCHANGED <<age, pendingTimer, st, left, history>>
      BY <1>1 DEF Events, OnConnected, OnDisconnected, OnPlayerJoined, OnPlayerLeft, Event
    <2>2. /\ online' \in BOOLEAN /\ hasEverSeen' \in BOOLEAN /\ players' \subseteq Players
          /\ caller' \subseteq Handlers
      BY <1>1 DEF TypeOK, Events, OnConnected, OnDisconnected, OnPlayerJoined, OnPlayerLeft,
                  Event, Handlers
    <2> QED
      BY <2>1, <2>2 DEF TypeOK
  <1>2. CASE \E h \in Handlers : Schedule(h)
    <2>1. PICK h \in Handlers : Schedule(h)
      BY <1>2
    <2>2. /\ UNCHANGED <<online, hasEverSeen, players, sinceLast, sincePrev, sinceLoose>>
          /\ caller' \subseteq Handlers /\ loose' \subseteq Workers
      BY <2>1 DEF Schedule, ScheduleFirst, ScheduleNow, ScheduleTrailing, TypeOK
    <2>3. /\ age' \in -1 .. Cooldown /\ pendingTimer' \in Workers \cup {None}
          /\ st' \in [Workers -> {"free", "armed", "fired", "format", "send", "refresh"}]
          /\ left' \in [Workers -> 0 .. Cooldown]
      <3>1. CASE ScheduleFirst(h)
        BY <3>1, Numbers DEF ScheduleFirst, Arm, TypeOK
      <3>2. CASE ScheduleNow(h)
        BY <3>2, Numbers DEF ScheduleNow, TypeOK
      <3>3. CASE ScheduleTrailing(h)
        BY <3>3, Numbers DEF ScheduleTrailing, Arm, TypeOK
      <3> QED
        BY <2>1, <3>1, <3>2, <3>3 DEF Schedule
    <2> QED
      BY <2>2, <2>3 DEF TypeOK
  <1>3. CASE \E w \in Workers : Worker(w)
    <2>1. PICK w \in Workers : Worker(w)
      BY <1>3
    <2>2. UNCHANGED <<online, hasEverSeen, players, caller>>
      BY <2>1 DEF Worker, Fire, Callback, Format, SendOK, SendFails, ScheduleRefresh
    <2>3. st' \in [Workers -> {"free", "armed", "fired", "format", "send", "refresh"}]
      BY <2>1 DEF TypeOK, Worker, Fire, Callback, Format, SendOK, SendFails, ScheduleRefresh
    <2>4. left' \in [Workers -> 0 .. Cooldown]
      BY <2>1, Numbers DEF TypeOK, Worker, Fire, Callback, Format, SendOK, SendFails,
                           ScheduleRefresh
    <2>5. age' \in -1 .. Cooldown /\ pendingTimer' \in Workers \cup {None}
      BY <2>1, Numbers DEF TypeOK, Worker, Fire, Callback, Format, SendOK, SendFails,
                           ScheduleRefresh
    <2>6. /\ sinceLast' \in 0 .. Window /\ sincePrev' \in 0 .. Window
          /\ loose' \subseteq Workers /\ sinceLoose' \in 0 .. Window
      BY <2>1, Numbers DEF TypeOK, Worker, Fire, Callback, Format, SendOK, SendFails,
                           ScheduleRefresh
    <2> QED
      BY <2>2, <2>3, <2>4, <2>5, <2>6 DEF TypeOK
  <1>4. CASE Tick
    <2>1. UNCHANGED <<online, hasEverSeen, players, caller, pendingTimer, st, loose>>
      BY <1>4 DEF Tick
    <2>2. age' \in -1 .. Cooldown
      BY <1>4, Numbers DEF Tick, TypeOK, Least
    <2>3. sinceLast' \in 0 .. Window /\ sincePrev' \in 0 .. Window /\ sinceLoose' \in 0 .. Window
      BY <1>4, Numbers DEF Tick, TypeOK, Least
    <2>4. left' \in [Workers -> 0 .. Cooldown]
      <3>1. left' = [w \in Workers |-> IF st[w] = "armed" THEN left[w] - 1 ELSE left[w]]
        BY <1>4 DEF Tick
      <3>2. ASSUME NEW w \in Workers
            PROVE  (IF st[w] = "armed" THEN left[w] - 1 ELSE left[w]) \in 0 .. Cooldown
        <4>1. left[w] \in 0 .. Cooldown /\ (st[w] = "armed" => left[w] > 0)
          BY <1>4 DEF Tick, TypeOK
        <4> QED
          BY <4>1, Numbers
      <3> QED
        BY <3>1, <3>2
    <2> QED
      BY <2>1, <2>2, <2>3, <2>4 DEF TypeOK
  <1>5. CASE UNCHANGED vars
    BY <1>5 DEF vars, TypeOK
  <1> QED
    BY <1>1, <1>2, <1>3, <1>4, <1>5 DEF Next

LEMMA TypeInit == Init => TypeOK
  <1> SUFFICES ASSUME Init PROVE TypeOK
    OBVIOUS
  <1>1. age \in -1 .. Cooldown /\ left \in [Workers -> 0 .. Cooldown]
        /\ sinceLast \in 0 .. Window /\ sincePrev \in 0 .. Window
        /\ sinceLoose \in 0 .. Window
    BY Numbers DEF Init
  <1> QED
    BY <1>1 DEF Init, TypeOK

\* Type correctness of StatusManager.
THEOREM TypeCorrect == Spec => []TypeOK
  BY TypeInit, TypeStep, PTL DEF Spec

-----------------------------------------------------------------------------
(* The rate limit.  A timer is pendingTimer or it is loose; the one that is    *)
(* pendingTimer is not due before the cooldown of the last push is over.  A    *)
(* push that did not begin at the moment a loose timer called back therefore   *)
(* follows the one before it by a cooldown.                                    *)

Waiting == {"armed", "fired"}

LooseOrPending == \A w \in Workers : st[w] \in Waiting => w = pendingTimer \/ w \in loose

TimerKeepsCooldown ==
    \A w \in Workers : w = pendingTimer /\ age # Never =>
        /\ st[w] = "armed" => left[w] >= Cooldown - age
        /\ st[w] = "fired" => age = Cooldown

\* A push about to format is recent, and after the last loose callback it is alone
\* and a cooldown behind the last one.
FormatsAreApart ==
    \A w \in Workers : st[w] = "format" =>
        /\ age = 0
        /\ sinceLoose > 0 =>
             /\ sinceLast >= Cooldown
             /\ \A v \in Workers : st[v] = "format" => v = w

PushesAreApart ==
    /\ age = Never => sinceLast >= Cooldown
    /\ sinceLast >= age
    /\ sincePrev >= sinceLast
    /\ sinceLast < sinceLoose => sincePrev >= Least(sinceLast + Cooldown, Window)

RateInv ==
    TypeOK /\ LooseOrPending /\ TimerKeepsCooldown /\ FormatsAreApart /\ PushesAreApart

\* A step that arms a timer when there was none, for no earlier than the cooldown's end.
LEMMA ArmKeeps ==
    ASSUME RateInv, pendingTimer = None, NEW w \in Workers, st[w] # "format",
           pendingTimer' = w, st' = [st EXCEPT ![w] = "armed"],
           NEW d \in 0 .. Cooldown, left' = [left EXCEPT ![w] = d],
           age # Never => d >= Cooldown - age,
           UNCHANGED <<age, sinceLast, sincePrev, loose, sinceLoose>>
    PROVE  LooseOrPending' /\ TimerKeepsCooldown' /\ FormatsAreApart' /\ PushesAreApart'
  <1>1. /\ st \in [Workers -> {"free", "armed", "fired", "format", "send", "refresh"}]
        /\ left \in [Workers -> 0 .. Cooldown]
    BY DEF RateInv, TypeOK
  <1>2. /\ st'[w] = "armed" /\ left'[w] = d
        /\ \A v \in Workers \ {w} : st'[v] = st[v] /\ left'[v] = left[v]
    BY <1>1
  <1>3. LooseOrPending'
    BY <1>2, WorkersAssumption DEF RateInv, LooseOrPending, Waiting
  <1>4. TimerKeepsCooldown'
    BY <1>2 DEF TimerKeepsCooldown
  <1>5. FormatsAreApart' /\ PushesAreApart'
    BY <1>2 DEF RateInv, FormatsAreApart, PushesAreApart, Least
  <1> QED
    BY <1>3, <1>4, <1>5

\* A step that leaves timers and pushes where they are, or ends some.
LEMMA FewerKeeps ==
    ASSUME RateInv,
           \A w \in Workers : st'[w] = st[w] \/ st'[w] \notin Waiting \cup {"format"},
           UNCHANGED <<pendingTimer, left, age, sinceLast, sincePrev, loose, sinceLoose>>
    PROVE  LooseOrPending' /\ TimerKeepsCooldown' /\ FormatsAreApart' /\ PushesAreApart'
  <1>1. LooseOrPending' /\ TimerKeepsCooldown'
    BY DEF RateInv, LooseOrPending, TimerKeepsCooldown, Waiting
  <1>2. FormatsAreApart' /\ PushesAreApart'
    BY DEF RateInv, FormatsAreApart, PushesAreApart, Least
  <1> QED
    BY <1>1, <1>2

\* A push begins in its time: the callback of the pending timer, or schedule after the
\* cooldown.
LEMMA PushKeeps ==
    ASSUME RateInv, Cooldown > 0, age \in {Never, Cooldown}, NEW w \in Workers,
           st'[w] = "format", \A v \in Workers \ {w} : st'[v] = "format" => st[v] = "format",
           \A v \in Workers \ {w} : st'[v] \in Waiting => v \in loose',
           pendingTimer' = None, age' = 0, UNCHANGED <<sinceLast, sincePrev, sinceLoose>>
    PROVE  LooseOrPending' /\ TimerKeepsCooldown' /\ FormatsAreApart' /\ PushesAreApart'
  <1>1. \A v \in Workers : st[v] # "format"
    <2>1. age # 0
      BY Numbers
    <2> QED
      BY <2>1 DEF RateInv, FormatsAreApart
  <1>2. sinceLast >= Cooldown
    BY Numbers DEF RateInv, PushesAreApart
  <1>3. LooseOrPending' /\ TimerKeepsCooldown'
    BY WorkersAssumption DEF LooseOrPending, TimerKeepsCooldown, Waiting
  <1>4. FormatsAreApart'
    BY <1>1, <1>2 DEF FormatsAreApart
  <1>5. PushesAreApart'
    <2>1. 0 # Never /\ sinceLast \in 0 .. Window
      BY Numbers DEF RateInv, TypeOK
    <2> QED
      BY <2>1, Numbers DEF RateInv, PushesAreApart, Least
  <1> QED
    BY <1>3, <1>4, <1>5

\* A push begins at the callback of a loose timer.
LEMMA LooseKeeps ==
    ASSUME RateInv, Cooldown > 0, NEW w \in Workers, Callback(w), w \in loose
    PROVE  LooseOrPending' /\ TimerKeepsCooldown' /\ FormatsAreApart' /\ PushesAreApart'
  <1>1. /\ pendingTimer' = None /\ age' = 0 /\ sinceLoose' = 0
        /\ loose' = (loose \ {w}) \cup (Workers \cap {pendingTimer})
        /\ UNCHANGED <<sinceLast, sincePrev>>
    BY DEF Callback
  <1>2. st'[w] = "format" /\ \A v \in Workers \ {w} : st'[v] = st[v]
    BY DEF Callback, RateInv, TypeOK
  <1>3. LooseOrPending' /\ TimerKeepsCooldown'
    BY <1>1, <1>2, WorkersAssumption
    DEF RateInv, LooseOrPending, TimerKeepsCooldown, Waiting
  <1>4. FormatsAreApart'
    <2>1. \A v \in Workers : st'[v] = "format" => age' = 0
      BY <1>1
    <2>2. ~(sinceLoose' > 0)
      BY <1>1
    <2> QED
      BY <2>1, <2>2 DEF FormatsAreApart
  <1>5. PushesAreApart'
    <2>1. 0 # Never /\ sinceLast \in 0 .. Window
      BY Numbers DEF RateInv, TypeOK
    <2> QED
      BY <1>1, <2>1, Numbers DEF RateInv, PushesAreApart
  <1> QED
    BY <1>3, <1>4, <1>5

LEMMA RateStep ==
    ASSUME Cooldown > 0, RateInv, [Next]_vars
    PROVE  RateInv'
  <1> USE DEF fields, timing, workers, history
  <1>t. TypeOK /\ TypeOK'
    BY TypeStep DEF RateInv
  <1>s. /\ st \in [Workers -> {"free", "armed", "fired", "format", "send", "refresh"}]
        /\ left \in [Workers -> 0 .. Cooldown] /\ age \in -1 .. Cooldown
        /\ sinceLast \in 0 .. Window /\ sincePrev \in 0 .. Window
        /\ loose \subseteq Workers /\ sinceLoose \in 0 .. Window
    BY <1>t DEF TypeOK
  <1> SUFFICES LooseOrPending' /\ TimerKeepsCooldown' /\ FormatsAreApart' /\ PushesAreApart'
    BY <1>t DEF RateInv
  <1>u. ASSUME UNCHANGED <<age, pendingTimer, st, left, sinceLast, sincePrev, loose, sinceLoose>>
        PROVE  LooseOrPending' /\ TimerKeepsCooldown' /\ FormatsAreApart' /\ PushesAreApart'
    BY <1>u, FewerKeeps
  <1>1. CASE Events
    BY <1>1, <1>u DEF Events, OnConnected, OnDisconnected, OnPlayerJoined, OnPlayerLeft, Event
  <1>2. CASE \E h \in Handlers : Schedule(h)
    <2>1. PICK h \in Handlers : Schedule(h)
      BY <1>2
    <2>2. UNCHANGED <<sinceLast, sincePrev, sinceLoose>>
      BY <2>1 DEF Schedule
    <2>3. CASE UNCHANGED <<age, pendingTimer, st, left, loose>>
      BY <1>u, <2>2, <2>3
    <2>4. CASE ScheduleFirst(h) /\ pendingTimer = None
      <3>1. PICK w \in Workers : Arm(w, InitialDelay)
        BY <2>4 DEF ScheduleFirst
      <3>2. age = Never /\ UNCHANGED <<age, loose>>
        BY <2>4 DEF ScheduleFirst
      <3>3. st[w] # "format" /\ InitialDelay \in 0 .. Cooldown
        BY <3>1, Numbers DEF Arm
      <3> QED
        BY <2>2, <2>4, <3>1, <3>2, <3>3, ArmKeeps DEF Arm
    <2>5. CASE ScheduleTrailing(h) /\ pendingTimer = None
      <3>1. PICK w \in Workers : Arm(w, Cooldown - age)
        BY <2>5 DEF ScheduleTrailing
      <3>2. age \in 0 .. (Cooldown - 1) /\ UNCHANGED <<age, loose>>
        BY <2>5 DEF ScheduleTrailing
      <3>3. st[w] # "format" /\ Cooldown - age \in 0 .. Cooldown /\ Cooldown - age >= Cooldown - age
        BY <3>1, <3>2, Numbers DEF Arm
      <3> QED
        BY <2>2, <2>5, <3>1, <3>2, <3>3, ArmKeeps DEF Arm
    <2>6. CASE ScheduleNow(h)
      <3>1. /\ age = Cooldown /\ age' = 0 /\ pendingTimer' = None
            /\ loose' = loose \cup {v \in Workers : v = pendingTimer /\ st[v] = "fired"}
        BY <2>6 DEF ScheduleNow
      <3>2. PICK w \in Workers :
               st' = [v \in Workers |->
                        IF v = w THEN "format"
                        ELSE IF v = pendingTimer /\ st[v] = "armed" THEN "free"
                        ELSE st[v]]
        BY <2>6 DEF ScheduleNow
      <3>3. /\ st'[w] = "format"
            /\ \A v \in Workers \ {w} :
                  st'[v] = IF v = pendingTimer /\ st[v] = "armed" THEN "free" ELSE st[v]
        BY <3>2
      <3>4. \A v \in Workers \ {w} : st'[v] \in Waiting => v \in loose'
        BY <3>1, <3>3 DEF RateInv, LooseOrPending, Waiting
      <3>5. \A v \in Workers \ {w} : st'[v] = "format" => st[v] = "format"
        BY <3>3
      <3> QED
        BY <2>2, <3>1, <3>3, <3>4, <3>5, PushKeeps
    <2> QED
      BY <2>1, <2>3, <2>4, <2>5, <2>6 DEF Schedule, ScheduleFirst, ScheduleTrailing
  <1>3. CASE \E w \in Workers : Fire(w)
    <2>1. PICK w \in Workers : Fire(w)
      BY <1>3
    <2>2. /\ st[w] = "armed" /\ left[w] = 0
          /\ UNCHANGED <<age, pendingTimer, left, sinceLast, sincePrev, loose, sinceLoose>>
          /\ st'[w] = "fired" /\ \A v \in Workers \ {w} : st'[v] = st[v]
      BY <1>s, <2>1 DEF Fire
    <2>3. LooseOrPending'
      BY <2>2 DEF RateInv, LooseOrPending, Waiting
    <2>4. w = pendingTimer /\ age # Never => age = Cooldown
      <3>1. w = pendingTimer /\ age # Never => 0 >= Cooldown - age
        BY <2>2 DEF RateInv, TimerKeepsCooldown
      <3> QED
        BY <1>s, <3>1, Numbers
    <2>5. TimerKeepsCooldown'
      BY <2>2, <2>4 DEF RateInv, TimerKeepsCooldown
    <2>6. FormatsAreApart' /\ PushesAreApart'
      BY <2>2 DEF RateInv, FormatsAreApart, PushesAreApart, Least
    <2> QED
      BY <2>3, <2>5, <2>6
  <1>4. CASE \E w \in Workers : Callback(w)
    <2>1. PICK w \in Workers : Callback(w)
      BY <1>4
    <2>2. CASE w \in loose
      BY <2>1, <2>2, LooseKeeps
    <2>3. CASE w \notin loose
      <3>1. /\ st[w] = "fired" /\ age' = 0 /\ pendingTimer' = None
            /\ UNCHANGED <<sinceLast, sincePrev, loose, sinceLoose>>
            /\ st'[w] = "format" /\ \A v \in Workers \ {w} : st'[v] = st[v]
        BY <1>s, <2>1, <2>3 DEF Callback
      <3>2. w = pendingTimer
        BY <2>3, <3>1 DEF RateInv, LooseOrPending, Waiting
      <3>3. age \in {Never, Cooldown}
        BY <3>1, <3>2 DEF RateInv, TimerKeepsCooldown
      <3>4. \A v \in Workers \ {w} : st'[v] \in Waiting => v \in loose'
        BY <3>1, <3>2 DEF RateInv, LooseOrPending
      <3> QED
        BY <3>1, <3>3, <3>4, PushKeeps
    <2> QED
      BY <2>2, <2>3
  <1>5. CASE \E w \in Workers : Format(w)
    <2>1. PICK w \in Workers : Format(w)
      BY <1>5
    <2>2. /\ st[w] = "format" /\ UNCHANGED <<age, pendingTimer, left, loose, sinceLoose>>
          /\ sincePrev' = sinceLast /\ sinceLast' = 0
          /\ st'[w] = "send" /\ \A v \in Workers \ {w} : st'[v] = st[v]
      BY <1>s, <2>1 DEF Format
    <2>3. LooseOrPending' /\ TimerKeepsCooldown'
      BY <2>2 DEF RateInv, LooseOrPending, TimerKeepsCooldown, Waiting
    <2>4. age = 0 /\ (sinceLoose > 0 => sinceLast >= Cooldown
                                        /\ \A v \in Workers : st'[v] # "format")
      BY <2>2 DEF RateInv, FormatsAreApart
    <2>5. FormatsAreApart'
      BY <2>2, <2>4 DEF RateInv, FormatsAreApart
    <2>6. PushesAreApart'
      BY <1>s, <2>2, <2>4, Numbers DEF PushesAreApart, Least
    <2> QED
      BY <2>3, <2>5, <2>6
  <1>6. CASE \E w \in Workers : SendOK(w) \/ SendFails(w)
    <2>1. PICK w \in Workers : SendOK(w) \/ SendFails(w)
      BY <1>6
    <2>2. /\ UNCHANGED <<age, pendingTimer, left, sinceLast, sincePrev, loose, sinceLoose>>
          /\ st[w] = "send" /\ st'[w] = "refresh" /\ \A v \in Workers \ {w} : st'[v] = st[v]
      BY <1>s, <2>1 DEF SendOK, SendFails
    <2> QED
      BY <2>2, FewerKeeps DEF Waiting
  <1>7. CASE \E w \in Workers : ScheduleRefresh(w)
    <2>1. PICK w \in Workers : ScheduleRefresh(w)
      BY <1>7
    <2>2. st[w] = "refresh" /\ UNCHANGED <<age, sinceLast, sincePrev, loose, sinceLoose>>
      BY <2>1 DEF ScheduleRefresh
    <2>3. CASE online /\ pendingTimer = None
      <3>1. Cooldown \in 0 .. Cooldown /\ (age # Never => Cooldown >= Cooldown - age)
        BY <1>s, Numbers
      <3>2. /\ st' = [st EXCEPT ![w] = "armed"] /\ left' = [left EXCEPT ![w] = Cooldown]
            /\ pendingTimer' = w
        BY <2>1, <2>3 DEF ScheduleRefresh
      <3> QED
        BY <2>2, <2>3, <3>1, <3>2, ArmKeeps
    <2>4. CASE ~(online /\ pendingTimer = None)
      <3>1. /\ st'[w] = "free" /\ \A v \in Workers \ {w} : st'[v] = st[v]
            /\ UNCHANGED <<left, pendingTimer>>
        BY <1>s, <2>1, <2>4 DEF ScheduleRefresh
      <3> QED
        BY <2>2, <3>1, FewerKeeps DEF Waiting
    <2> QED
      BY <2>3, <2>4
  <1>8. CASE Tick
    <2>1. /\ UNCHANGED <<pendingTimer, st, loose>>
          /\ age' = IF age = Never THEN Never ELSE Least(age + 1, Cooldown)
          /\ sinceLast' = Least(sinceLast + 1, Window)
          /\ sincePrev' = Least(sincePrev + 1, Window)
          /\ sinceLoose' = Least(sinceLoose + 1, Window)
          /\ \A w \in Workers : st[w] \notin {"fired", "format"}
          /\ \A w \in Workers : st[w] = "armed" => left[w] > 0 /\ left'[w] = left[w] - 1
      BY <1>8 DEF Tick
    <2>2. LooseOrPending' /\ FormatsAreApart'
      BY <2>1 DEF RateInv, LooseOrPending, FormatsAreApart
    <2>3. age # Never => age \in 0 .. Cooldown
      BY <1>s, Numbers
    <2>4. TimerKeepsCooldown'
      <3> SUFFICES ASSUME NEW w \in Workers, w = pendingTimer, age' # Never, st[w] = "armed"
                   PROVE  left'[w] >= Cooldown - age'
        BY <2>1 DEF TimerKeepsCooldown
      <3>1. age # Never /\ left[w] >= Cooldown - age /\ left[w] > 0 /\ left[w] \in 0 .. Cooldown
        BY <1>s, <2>1 DEF RateInv, TimerKeepsCooldown
      <3> QED
        BY <2>1, <2>3, <3>1, Numbers DEF Least
    <2>5. PushesAreApart'
      <3>1. /\ age = Never => sinceLast >= Cooldown
            /\ sinceLast >= age /\ sincePrev >= sinceLast
            /\ sinceLast < sinceLoose => sincePrev >= Least(sinceLast + Cooldown, Window)
        BY DEF RateInv, PushesAreApart
      <3>2. /\ age' = Never => sinceLast' >= Cooldown
            /\ sinceLast' >= age' /\ sincePrev' >= sinceLast'
        BY <1>s, <2>1, <2>3, <3>1, Numbers DEF Least
      <3>3. ASSUME sinceLast' < sinceLoose'
            PROVE  sincePrev' >= Least(sinceLast' + Cooldown, Window)
        <4>1. sinceLast < sinceLoose
          BY <1>s, <2>1, <3>3, Numbers DEF Least
        <4> QED
          BY <1>s, <2>1, <3>1, <4>1, Numbers DEF Least
      <3> QED
        BY <3>2, <3>3 DEF PushesAreApart
    <2> QED
      BY <2>2, <2>4, <2>5
  <1>9. CASE UNCHANGED vars
    BY <1>9, <1>u DEF vars
  <1> QED
    BY <1>1, <1>2, <1>3, <1>4, <1>5, <1>6, <1>7, <1>8, <1>9 DEF Next, Worker

\* Three pushes never fall into two cooldowns (status.go:2-3), unless within the last
\* two cooldowns a timer called back for which Stop had come too late (status.go:134-137).
THEOREM RateIsLimited == Spec => RateLimit
  <1>1. CASE Cooldown > 0
    <2>1. Init => RateInv
      <3> SUFFICES ASSUME Init PROVE RateInv
        OBVIOUS
      <3>1. TypeOK
        BY TypeInit
      <3>2. \A w \in Workers : st[w] = "free"
        BY DEF Init
      <3>3. LooseOrPending /\ TimerKeepsCooldown /\ FormatsAreApart
        BY <3>2 DEF LooseOrPending, TimerKeepsCooldown, FormatsAreApart, Waiting
      <3>4. age = Never /\ sinceLast = Window /\ sincePrev = Window /\ sinceLoose = Window
        BY DEF Init
      <3>5. PushesAreApart
        BY <3>4, Numbers DEF PushesAreApart, Least
      <3> QED
        BY <3>1, <3>3, <3>5 DEF RateInv
    <2>2. RateInv /\ [Next]_vars => RateInv'
      BY <1>1, RateStep
    <2>3. RateInv /\ [Next]_vars =>
            [Pushes /\ sinceLoose >= Window => sincePrev >= Window]_vars
      <3> SUFFICES ASSUME RateInv, sinceLoose >= Window, NEW w \in Workers, st[w] = "format"
                   PROVE  sincePrev >= Window
        BY DEF Pushes
      <3>1. /\ sinceLast \in 0 .. Window /\ sincePrev \in 0 .. Window
            /\ sinceLoose \in 0 .. Window /\ sinceLoose > 0
        BY <1>1, Numbers DEF RateInv, TypeOK
      <3>2. /\ sinceLast >= Cooldown /\ sincePrev >= sinceLast
            /\ sinceLast < sinceLoose => sincePrev >= Least(sinceLast + Cooldown, Window)
        BY <3>1 DEF RateInv, FormatsAreApart, PushesAreApart
      <3> QED
        BY <3>1, <3>2, Numbers DEF Least
    <2> QED
      BY <2>1, <2>2, <2>3, PTL DEF Spec, RateLimit
  <1>2. CASE ~(Cooldown > 0)
    <2>1. TypeOK => sincePrev >= Window
      BY <1>2, Numbers DEF TypeOK
    <2>2. TypeOK /\ [Next]_vars =>
            [Pushes /\ sinceLoose >= Window => sincePrev >= Window]_vars
      BY <2>1
    <2> QED
      BY <2>2, TypeCorrect, PTL DEF Spec, RateLimit
  <1> QED
    BY <1>1, <1>2
=============================================================================
