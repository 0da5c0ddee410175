---------------------------- MODULE StatusManager ----------------------------
(***************************************************************************)
(* internal/status/status.go: the Manager that keeps a Discord channel      *)
(* topic in step with the server's state without exceeding Discord's rate   *)
(* limit.                                                                   *)
(*                                                                          *)
(* Two goroutines call the Manager: "monitor" (monitorConnection) and       *)
(* "tailer" (onLine).  Each changes the state under m.mu and then calls     *)
(* schedule, which takes m.mu again.  A worker is a goroutine or timer that *)
(* schedule or scheduleRefresh created:                                     *)
(*   armed    time.AfterFunc, due in left ticks                             *)
(*   fired    due, its callback waits for m.mu; Stop has no effect any more *)
(*   format   in push, about to take m.mu and build the topic               *)
(*   send     in SetChannelTopic with the topic it built                    *)
(*   refresh  about to run scheduleRefresh                                  *)
(***************************************************************************)
EXTENDS Integers, FiniteSets

CONSTANTS
    Players,        \* the players that may be online
    Workers,        \* names for timers and push goroutines
    None,           \* the nil timer, not a worker
    Cooldown,       \* cooldown, in ticks
    InitialDelay,   \* initialDelay, in ticks
    MaxEvents,      \* bound: how many times the server's state changes
    SendMayFail     \* may SetChannelTopic return an error?

Handlers == {"monitor", "tailer"}

ASSUME WorkersAssumption == None \notin Workers
ASSUME TimesAssumption ==
    Cooldown \in Nat /\ InitialDelay \in Nat /\ InitialDelay <= Cooldown
ASSUME SwitchAssumption == SendMayFail \in BOOLEAN

VARIABLES
    online, hasEverSeen, players,   \* Manager fields
    age,            \* ticks since lastUpdate, up to Cooldown; Never if it is zero
    pendingTimer,   \* Manager field: a worker or None
    st,             \* the state of each worker, "free" when it does not exist
    left,           \* ticks until an armed worker is due
    held,           \* the topic a sending worker built
    caller,         \* handlers that changed the state and not yet called schedule
    topic,          \* the channel topic at Discord
    formatted,      \* history: the topic the last push built
    sinceLast, sincePrev,   \* history: ticks since the last two pushes began
    loose,          \* history: timers that will call back and are not pendingTimer, since
                    \* Stop came too late for them, or a loose one called back
    sinceLoose,     \* history: ticks since a loose timer called back
    events          \* history: the number of state changes

fields  == <<online, hasEverSeen, players>>
timing  == <<age, pendingTimer>>
workers == <<st, left, held>>
history == <<formatted, sinceLast, sincePrev, loose, sinceLoose>>
vars    == <<fields, timing, workers, caller, topic, history, events>>

Never  == -1
Window == 2 * Cooldown
Least(a, b) == IF a <= b THEN a ELSE b

\* format: what the topic says, its times and layout left out.
Topic == IF ~hasEverSeen THEN <<"connecting">>
         ELSE IF online THEN <<"online", players>> ELSE <<"offline">>

Init ==
    /\ online = FALSE /\ hasEverSeen = FALSE /\ players = {}
    /\ age = Never /\ pendingTimer = None
    /\ st = [w \in Workers |-> "free"]
    /\ left = [w \in Workers |-> 0]
    /\ held = [w \in Workers |-> Topic]
    /\ caller = {}
    /\ topic = Topic /\ formatted = Topic
    /\ sinceLast = Window /\ sincePrev = Window
    /\ loose = {} /\ sinceLoose = Window
    /\ events = 0

-----------------------------------------------------------------------------
(* Events: the first half of OnConnected and its siblings.                  *)

Event(h) ==
    /\ h \notin caller
    /\ events < MaxEvents
    /\ events' = events + 1
    /\ caller' = caller \cup {h}
    /\ UNCHANGED <<timing, workers, topic, history>>

\* monitorConnection reports transitions only.
OnConnected ==
    /\ ~online
    /\ Event("monitor")
    /\ online' = TRUE /\ hasEverSeen' = TRUE
    /\ players' \in SUBSET Players

OnDisconnected ==
    /\ online
    /\ Event("monitor")
    /\ online' = FALSE /\ players' = {}
    /\ UNCHANGED hasEverSeen

OnPlayerJoined ==
    /\ Event("tailer")
    /\ \E p \in Players : players' = players \cup {p}
    /\ UNCHANGED <<online, hasEverSeen>>

OnPlayerLeft ==
    /\ Event("tailer")
    /\ \E p \in Players : players' = players \ {p}
    /\ UNCHANGED <<online, hasEverSeen>>

-----------------------------------------------------------------------------
(* Timers and pushes.                                                       *)

\* time.AfterFunc(d, ...) assigned to pendingTimer.
Arm(w, d) ==
    /\ st[w] = "free"
    /\ st' = [st EXCEPT ![w] = "armed"]
    /\ left' = [left EXCEPT ![w] = d]
    /\ pendingTimer' = w

\* schedule before the first push: one timer coalesces what arrives.
ScheduleFirst(h) ==
    /\ age = Never
    /\ IF pendingTimer = None
       THEN \E w \in Workers : Arm(w, InitialDelay)
       ELSE UNCHANGED <<pendingTimer, st, left>>
    /\ UNCHANGED <<age, loose>>

\* Faulty variant: the push starts while the old timer stays armed.
ScheduleNowKeepsTimer(h) ==
    /\ age = Cooldown
    /\ age' = 0
    /\ pendingTimer' = None
    /\ \E w \in Workers :
        /\ st[w] = "free"
        /\ st' = [st EXCEPT ![w] = "format"]
    /\ UNCHANGED <<left, loose>>

\* schedule after the cooldown: push at once; Stop removes an armed timer and
\* leaves a fired one running, but pendingTimer is cleared either way.
ScheduleNow(h) ==
    /\ age = Cooldown
    /\ age' = 0
    /\ loose' = loose \cup {v \in Workers : v = pendingTimer /\ st[v] = "fired"}
    /\ pendingTimer' = None
    /\ \E w \in Workers :
        /\ st[w] = "free"
        /\ st' = [v \in Workers |->
                    IF v = w THEN "format"
                    ELSE IF v = pendingTimer /\ st[v] = "armed" THEN "free"
                    ELSE st[v]]
    /\ UNCHANGED left

\* Faulty variants of ScheduleTrailing: the elapsed time is added instead of
\* subtracted; an event during the cooldown is left to the next one.
ScheduleTrailingAdds(h) ==
    /\ age \in 0 .. (Cooldown - 1)
    /\ IF pendingTimer = None
       THEN \E w \in Workers : Arm(w, Cooldown + age)
       ELSE UNCHANGED <<pendingTimer, st, left>>
    /\ UNCHANGED <<age, loose>>

ScheduleNothing(h) ==
    /\ age \in 0 .. (Cooldown - 1)
    /\ UNCHANGED <<age, pendingTimer, st, left, loose>>

\* schedule within the cooldown: one trailing push at its end.
ScheduleTrailing(h) ==
    /\ age \in 0 .. (Cooldown - 1)
    /\ IF pendingTimer = None
       THEN \E w \in Workers : Arm(w, Cooldown - age)
       ELSE UNCHANGED <<pendingTimer, st, left>>
    /\ UNCHANGED <<age, loose>>

Schedule(h) ==
    /\ h \in caller
    /\ caller' = caller \ {h}
    /\ ScheduleFirst(h) \/ ScheduleNow(h) \/ ScheduleTrailing(h)
    /\ UNCHANGED <<fields, held, topic, formatted, sinceLast, sincePrev, sinceLoose, events>>

\* The runtime starts a due timer's goroutine.
Fire(w) ==
    /\ st[w] = "armed" /\ left[w] = 0
    /\ st' = [st EXCEPT ![w] = "fired"]
    /\ UNCHANGED <<fields, timing, left, held, caller, topic, history, events>>

\* Faulty variant: the callback leaves pendingTimer set.
CallbackKeepsPending(w) ==
    /\ st[w] = "fired"
    /\ st' = [st EXCEPT ![w] = "format"]
    /\ age' = 0
    /\ UNCHANGED <<fields, pendingTimer, left, held, caller, topic, history, events>>

\* A timer's callback: it clears pendingTimer, whichever timer that is.
Callback(w) ==
    /\ st[w] = "fired"
    /\ st' = [st EXCEPT ![w] = "format"]
    /\ pendingTimer' = None
    /\ age' = 0
    /\ IF w \in loose
       THEN loose' = (loose \ {w}) \cup (Workers \cap {pendingTimer}) /\ sinceLoose' = 0
       ELSE UNCHANGED <<loose, sinceLoose>>
    /\ UNCHANGED <<fields, left, held, caller, topic, formatted, sinceLast, sincePrev, events>>

\* push, under m.mu.
Format(w) ==
    /\ st[w] = "format"
    /\ st' = [st EXCEPT ![w] = "send"]
    /\ held' = [held EXCEPT ![w] = Topic]
    /\ formatted' = Topic
    /\ sincePrev' = sinceLast /\ sinceLast' = 0
    /\ UNCHANGED <<fields, timing, left, caller, topic, loose, sinceLoose, events>>

\* SetChannelTopic returns, whichever of several concurrent calls comes first.
SendOK(w) ==
    /\ st[w] = "send"
    /\ st' = [st EXCEPT ![w] = "refresh"]
    /\ topic' = held[w]
    /\ UNCHANGED <<fields, timing, left, held, caller, history, events>>

\* Faulty variant: a failed call returns before scheduleRefresh.
SendFailsGivesUp(w) ==
    /\ SendMayFail
    /\ st[w] = "send"
    /\ st' = [st EXCEPT ![w] = "free"]
    /\ UNCHANGED <<fields, timing, left, held, caller, topic, history, events>>

SendFails(w) ==
    /\ SendMayFail
    /\ st[w] = "send"
    /\ st' = [st EXCEPT ![w] = "refresh"]
    /\ UNCHANGED <<fields, timing, left, held, caller, topic, history, events>>

\* Faulty variant: no refresh is armed.
ScheduleRefreshNever(w) ==
    /\ st[w] = "refresh"
    /\ st' = [st EXCEPT ![w] = "free"]
    /\ UNCHANGED <<fields, timing, left, held, caller, topic, history, events>>

\* scheduleRefresh: re-push after the cooldown while the server is online and
\* nothing is pending.  (The new timer takes the finished worker's name.)
ScheduleRefresh(w) ==
    /\ st[w] = "refresh"
    /\ IF online /\ pendingTimer = None
       THEN /\ st' = [st EXCEPT ![w] = "armed"]
            /\ left' = [left EXCEPT ![w] = Cooldown]
            /\ pendingTimer' = w
       ELSE /\ st' = [st EXCEPT ![w] = "free"]
            /\ UNCHANGED <<left, pendingTimer>>
    /\ UNCHANGED <<fields, age, held, caller, topic, history, events>>

\* Time passes while goroutines wait for Discord or for a timer, never while
\* one only needs m.mu or the processor.
Tick ==
    /\ caller = {}
    /\ \A w \in Workers :
        st[w] \in {"free", "send"} \/ (st[w] = "armed" /\ left[w] > 0)
    /\ left' = [w \in Workers |-> IF st[w] = "armed" THEN left[w] - 1 ELSE left[w]]
    /\ age' = IF age = Never THEN Never ELSE Least(age + 1, Cooldown)
    /\ sinceLast' = Least(sinceLast + 1, Window)
    /\ sincePrev' = Least(sincePrev + 1, Window)
    /\ sinceLoose' = Least(sinceLoose + 1, Window)
    /\ UNCHANGED <<fields, pendingTimer, st, held, caller, topic, formatted, loose, events>>

-----------------------------------------------------------------------------
Events == OnConnected \/ OnDisconnected \/ OnPlayerJoined \/ OnPlayerLeft

Worker(w) == Fire(w) \/ Callback(w) \/ Format(w) \/ SendOK(w) \/ SendFails(w)
                \/ ScheduleRefresh(w)

Next == Events \/ (\E h \in Handlers : Schedule(h))
               \/ (\E w \in Workers : Worker(w)) \/ Tick

Spec == Init /\ [][Next]_vars

\* Goroutines that are ready run, a SetChannelTopic call returns (one of
\* endlessly many succeeds), and time passes.
FairSpec ==
    /\ Spec
    /\ WF_vars(Tick)
    /\ \A h \in Handlers : WF_vars(Schedule(h))
    /\ \A w \in Workers : WF_vars(Worker(w)) /\ SF_vars(SendOK(w))

-----------------------------------------------------------------------------
TypeOK ==
    /\ online \in BOOLEAN /\ hasEverSeen \in BOOLEAN /\ players \subseteq Players
    /\ age \in -1 .. Cooldown
    /\ pendingTimer \in Workers \cup {None}
    /\ st \in [Workers -> {"free", "armed", "fired", "format", "send", "refresh"}]
    /\ left \in [Workers -> 0 .. Cooldown]
    /\ caller \subseteq Handlers
    /\ sinceLast \in 0 .. Window /\ sincePrev \in 0 .. Window
    /\ loose \subseteq Workers /\ sinceLoose \in 0 .. Window

\* A worker that will build the topic again.
Due == \E w \in Workers : st[w] \in {"armed", "fired", "format"}

\* pendingTimer never points at a timer that is gone: schedule would wait for
\* a push that nobody will make (status.go:119, 141, 169).
PendingIsLive ==
    pendingTimer # None => st[pendingTimer] \in {"armed", "fired"}

\* No lost update: a state the last push did not show will be pushed; either a
\* caller is about to schedule it or a timer or push is under way that has not
\* built its topic yet (status.go:105-151).
NoLostUpdate == formatted # Topic => caller # {} \/ Due

\* The uptime keeps advancing: while the server is online there is always a
\* caller, a timer or a push (status.go:163-165).
RefreshGoesOn ==
    online => caller # {} \/ \E w \in Workers : st[w] # "free"

\* A push begins: it is about to call SetChannelTopic.
Pushes == \E w \in Workers : st[w] = "format" /\ st'[w] = "send"

\* status.go:2-3: three pushes never fall into two cooldowns, which keeps within
\* Discord's 2-per-10-minute limit, unless one of the last two cooldowns saw a timer
\* call back for which Stop had come too late (status.go:134-137).
RateLimit == [][Pushes /\ sinceLoose >= Window => sincePrev >= Window]_vars

\* A server that stays online gets its topic right in the end even when calls
\* fail or answer out of order, because the refresh re-pushes.
OnlineTopicHeals ==
    <>[](online /\ events = MaxEvents) => []<>(topic = Topic)
=============================================================================
