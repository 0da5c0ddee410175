---------------------------- MODULE LinkCodesProofs ----------------------------
(* Who may unlink, that told codes work, and that linking implements        *)
(* OneTimeCodes, for all people and commands.                               *)
EXTENDS LinkCodes, TLAPS

\* A command is what its sender may ask for.
Proper(draws, command, from) ==
    /\ command.op \in {"confirm", "register"} =>
           command.params[1] \in Codes /\ command.params[2] = from
    /\ command.op = "register" => draws[command.params[1]] = [who |-> from, where |-> "discord"]
    /\ command.op = "unlink-discord" => command.params[1] = from
    /\ command.op \in {"unlink-player", "unlink-all"} => ResolveAdmin(from)

RequestsProper ==
    \A h \in Handlers : request[h] # Idle =>
        /\ Proper(drawn, request[h].command, request[h].from)
        /\ request[h].command.op = "register" => request[h].code = request[h].command.params[1]
        /\ request[h].at = "tell" => request[h].command.op = "register"

WireProper == \A i \in DOMAIN wire : Proper(drawn, wire[i].command, wire[i].from)

BridgeTypes ==
    /\ drawn \in [Codes -> Draws \cup {None}] /\ told \subseteq Codes
    /\ wire \in Seq(Packets) /\ mutex \in Handlers \cup {None}
    /\ request \in [Handlers -> Requests \cup {Idle}]

MutexHeld == \A h \in Handlers : mutex = h <=> request[h].at \in {"wait", "answered"}

\* The handler whose answer a command brings waits for it, and for no other.
Awaited ==
    \A i \in DOMAIN wire : wire[i].to # None =>
        /\ request[wire[i].to].at = "wait"
        /\ request[wire[i].to].command = wire[i].command
        /\ \A j \in DOMAIN wire : wire[j].to = wire[i].to => j = i

BridgeInv == BridgeTypes /\ MutexHeld /\ Awaited /\ RequestsProper /\ WireProper

-----------------------------------------------------------------------------
USE NoneAssumption

\* Every command of the two lists is one of CommandList.
LEMMA Listed ==
    ASSUME NEW cmd \in CmdMap \cup BySlash
    PROVE  \E i \in DOMAIN CommandList : cmd = CommandList[i]
BY DEF CmdMap, BySlash

\* The command that runCommand sends is well formed and proper.
LEMMA InterpolatedProper ==
    ASSUME NEW cmd \in CmdMap \cup BySlash, NEW p \in People, NEW args \in Args(p),
           Sensible(cmd, args), MayRun(cmd, [from |-> p, args |-> args]), BridgeTypes
    PROVE  LET c == Interpolate(cmd, [from |-> p, args |-> args])
           IN c \in RconCommands /\ Proper(drawn, c, p) /\ c.op # "register"
<1> DEFINE m == [from |-> p, args |-> args]
           c == Interpolate(cmd, m)
           typed(i) == IF cmd.params[i] = "userid" THEN p
                       ELSE IF args # <<>> THEN args[1] ELSE None
<1>1. PICK k \in DOMAIN CommandList : cmd = CommandList[k] BY Listed
<1>2. /\ cmd.params \in Seq(STRING)
      /\ cmd.op = "confirm" => cmd.params = <<"1", "userid">>
      /\ cmd.op = "unlink-discord" => cmd.params = <<"userid">>
      /\ cmd.op \in {"unlink-player", "unlink-all"} => cmd.admin
      /\ cmd.op \in {"confirm", "unlink-discord", "unlink-player", "unlink-all"}
  BY <1>1, CommandsAssumption
<1>3. c.op = cmd.op /\ c.params = [i \in DOMAIN cmd.params |-> typed(i)]
  BY DEF Interpolate
<1>4. args # <<>> => args[1] \in People \cup Codes BY DEF Args, BridgeTypes
<1>5. c.params \in Seq(People \cup Codes \cup {None})
  <2>1. \A i \in DOMAIN cmd.params : typed(i) \in People \cup Codes \cup {None} BY <1>4
  <2>2. PICK n \in Nat : DOMAIN cmd.params = 1..n BY <1>2
  <2> QED BY <1>3, <2>1, <2>2
<1>6. c \in RconCommands
  <2>1. c = [op |-> c.op, params |-> c.params] BY DEF Interpolate
  <2> QED BY <1>2, <1>3, <1>5, <2>1 DEF RconCommands
<1>7. c.op = "confirm" => c.params[1] \in Codes /\ c.params[2] = p
  <2> SUFFICES ASSUME c.op = "confirm" PROVE c.params[1] \in Codes /\ c.params[2] = p OBVIOUS
  <2>1. cmd.params = <<"1", "userid">> BY <1>2, <1>3
  <2>2. NeedsArgs(cmd)
    <3>1. 1 \in DOMAIN cmd.params /\ cmd.params[1] = "1" BY <2>1
    <3> QED BY <3>1 DEF NeedsArgs
  <2>3. m.args # <<>> BY <2>2 DEF MayRun
  <2>4. args # <<>> BY <2>3
  <2>5. args[1] \in Codes BY <1>3, <2>4 DEF Sensible
  <2> QED BY <1>3, <2>1, <2>4, <2>5
<1>8. c.op = "unlink-discord" => c.params[1] = p BY <1>2, <1>3
<1>9. c.op \in {"unlink-player", "unlink-all"} => ResolveAdmin(p)
  <2>1. cmd.admin => ResolveAdmin(m.from) BY DEF MayRun
  <2>2. cmd.admin => ResolveAdmin(p) BY <2>1
  <2> QED BY <1>2, <1>3, <2>2
<1>10. c.op # "register" BY <1>2, <1>3
<1> QED BY <1>6, <1>7, <1>8, <1>9, <1>10 DEF Proper

-----------------------------------------------------------------------------
(* The bridge's side: the handlers, the mutex and the wire.                 *)

\* Proper is kept while codes are drawn.
DrawnKept == \A c \in Codes : drawn[c] # None => drawn'[c] = drawn[c]

LEMMA ProperKept ==
    ASSUME DrawnKept, NEW command, NEW from \in People, Proper(drawn, command, from)
    PROVE  Proper(drawn', command, from)
<1>1. [who |-> from, where |-> "discord"] \in Draws BY DEF Draws
<1> QED BY <1>1 DEF Proper, DrawnKept

LEMMA DrawKeeps ==
    ASSUME BridgeTypes, NEW c \in Undrawn, NEW p \in People, NEW where \in {"game", "discord"},
           DrawFor(c, p, where)
    PROVE  /\ DrawnKept
           /\ drawn' \in [Codes -> Draws \cup {None}]
           /\ drawn'[c] = [who |-> p, where |-> where]
<1>1. [who |-> p, where |-> where] \in Draws BY DEF Draws
<1> QED BY <1>1 DEF BridgeTypes, Undrawn, DrawFor, DrawnKept

\* The fields of a request that is made or moved on.
LEMMA DoingTyped ==
    ASSUME NEW label \in {"lock", "wait", "answered", "tell"}, NEW command \in RconCommands,
           NEW from \in People, NEW code \in Codes \cup {None}, NEW try \in {1, 2}
    PROVE  LET r == Doing(label, command, from, code, try)
           IN /\ r \in Requests /\ r # Idle
              /\ r.at = label /\ r.command = command /\ r.from = from /\ r.code = code
<1>1. Doing(label, command, from, code, try).at # "idle" BY DEF Doing
<1> QED BY <1>1 DEF Doing, Requests, Idle

LEMMA BusyTyped ==
    ASSUME BridgeTypes, NEW h \in Handlers, request[h].at # "idle"
    PROVE  /\ request[h] \in Requests /\ request[h] # Idle
           /\ request[h].command \in RconCommands /\ request[h].from \in People
           /\ request[h].code \in Codes \cup {None} /\ request[h].try \in {1, 2}
BY DEF BridgeTypes, Requests, Idle

\* A request that is moved on keeps what it is about.
LEMMA MovedOn ==
    ASSUME BridgeInv, NEW h \in Handlers, request[h].at # "idle",
           NEW label \in {"lock", "wait", "answered", "tell"}, NEW try \in {1, 2},
           Now(h, label, try), UNCHANGED drawn,
           label = "tell" => request[h].command.op = "register"
    PROVE  /\ request' \in [Handlers -> Requests \cup {Idle}]
           /\ RequestsProper'
           /\ request'[h].at = label /\ request'[h].command = request[h].command
           /\ request'[h].from = request[h].from /\ request'[h].code = request[h].code
           /\ \A k \in Handlers \ {h} : request'[k] = request[k]
<1> DEFINE r == Doing(label, request[h].command, request[h].from, request[h].code, try)
<1>1. /\ r \in Requests /\ r # Idle /\ r.at = label /\ r.command = request[h].command
      /\ r.from = request[h].from /\ r.code = request[h].code
  BY BusyTyped, DoingTyped DEF BridgeInv
<1>2. request' = [request EXCEPT ![h] = r] BY DEF Now
<1> HIDE DEF r
<1>3. request' \in [Handlers -> Requests \cup {Idle}] /\ request'[h] = r
  BY <1>1, <1>2 DEF BridgeInv, BridgeTypes
<1>4. \A k \in Handlers \ {h} : request'[k] = request[k]
  BY <1>2 DEF BridgeInv, BridgeTypes
<1>5. RequestsProper'
  <2> SUFFICES ASSUME NEW k \in Handlers, request'[k] # Idle
               PROVE  /\ Proper(drawn', request'[k].command, request'[k].from)
                      /\ request'[k].command.op = "register" =>
                             request'[k].code = request'[k].command.params[1]
                      /\ request'[k].at = "tell" => request'[k].command.op = "register"
    BY DEF RequestsProper, Idle
  <2>1. /\ request[k] # Idle /\ request'[k].command = request[k].command
        /\ request'[k].from = request[k].from /\ request'[k].code = request[k].code
        /\ request'[k].at = "tell" =>
               request[k].at = "tell" \/ request[k].command.op = "register"
    BY <1>1, <1>3, <1>4, BusyTyped DEF BridgeInv
  <2>2. request[k].from \in People BY <2>1 DEF BridgeInv, BridgeTypes, Requests
  <2>3. DrawnKept BY DEF DrawnKept
  <2> QED BY <2>1, <2>2, <2>3, ProperKept DEF BridgeInv, RequestsProper
<1> QED BY <1>1, <1>3, <1>4, <1>5

\* A handler's request is replaced.
LEMMA SetRequest ==
    ASSUME BridgeInv, DrawnKept, NEW h \in Handlers, NEW r \in Requests \cup {Idle},
           request' = [request EXCEPT ![h] = r],
           r # Idle => /\ Proper(drawn', r.command, r.from)
                       /\ r.command.op = "register" => r.code = r.command.params[1]
                       /\ r.at = "tell" => r.command.op = "register"
    PROVE  /\ request' \in [Handlers -> Requests \cup {Idle}]
           /\ RequestsProper'
           /\ request'[h] = r
           /\ \A k \in Handlers \ {h} : request'[k] = request[k]
<1>1. /\ request' \in [Handlers -> Requests \cup {Idle}] /\ request'[h] = r
      /\ \A k \in Handlers \ {h} : request'[k] = request[k]
  BY DEF BridgeInv, BridgeTypes
<1>2. ASSUME NEW k \in Handlers, request'[k] # Idle
      PROVE  /\ Proper(drawn', request'[k].command, request'[k].from)
             /\ request'[k].command.op = "register" =>
                    request'[k].code = request'[k].command.params[1]
             /\ request'[k].at = "tell" => request'[k].command.op = "register"
  <2>1. CASE k = h BY <2>1, <1>1, <1>2
  <2>2. CASE k # h
    <3>1. request'[k] = request[k] /\ request[k] # Idle BY <1>1, <1>2, <2>2
    <3>2. request[k].from \in People BY <3>1 DEF BridgeInv, BridgeTypes, Requests
    <3>3. Proper(drawn, request[k].command, request[k].from)
      BY <3>1 DEF BridgeInv, RequestsProper
    <3> QED BY <3>1, <3>2, <3>3, ProperKept DEF BridgeInv, RequestsProper
  <2> QED BY <2>1, <2>2
<1>3. Idle' = Idle BY DEF Idle
<1> QED BY <1>1, <1>2, <1>3 DEF RequestsProper

LEMMA IdleTyped == Idle.at = "idle" /\ Idle \notin Requests
BY DEF Idle, Requests

LEMMA OnWire ==
    ASSUME BridgeInv, NEW i \in DOMAIN wire
    PROVE  /\ wire[i] \in Packets /\ wire[i].command \in RconCommands
           /\ wire[i].from \in People /\ wire[i].to \in Handlers \cup {None}
<1>1. wire \in Seq(Packets) BY DEF BridgeInv, BridgeTypes
<1>2. wire[i] \in Packets BY <1>1
<1> QED BY <1>2 DEF Packets

\* Nothing is sent, and no answer stops being awaited.
LEMMA WireKept ==
    ASSUME BridgeInv, DrawnKept, UNCHANGED wire
    PROVE  wire' \in Seq(Packets) /\ WireProper'
<1>1. \A i \in DOMAIN wire : wire[i].from \in People BY OnWire
<1>2. \A i \in DOMAIN wire : Proper(drawn', wire[i].command, wire[i].from)
  BY <1>1, ProperKept DEF BridgeInv, WireProper
<1>3. Packets' = Packets BY DEF Packets, RconCommands
<1> QED BY <1>2, <1>3 DEF BridgeInv, BridgeTypes, WireProper

\* The first command leaves the wire.
LEMMA Tailed ==
    ASSUME BridgeInv, UNCHANGED drawn, wire # <<>>, wire' = Tail(wire)
    PROVE  /\ wire' \in Seq(Packets) /\ WireProper'
           /\ Head(wire) = wire[1] /\ 1 \in DOMAIN wire /\ Head(wire) \in Packets
           /\ \A i \in DOMAIN wire' : i + 1 \in DOMAIN wire /\ wire'[i] = wire[i + 1]
                                      /\ i + 1 # 1
<1>1. wire \in Seq(Packets) BY DEF BridgeInv, BridgeTypes
<1>2. /\ wire' \in Seq(Packets) /\ Head(wire) = wire[1] /\ 1 \in DOMAIN wire
      /\ Head(wire) \in Packets
  BY <1>1
<1>3. \A i \in DOMAIN wire' : i + 1 \in DOMAIN wire /\ wire'[i] = wire[i + 1] /\ i + 1 # 1
  BY <1>1
<1>4. WireProper' BY <1>3 DEF BridgeInv, WireProper
<1> QED BY <1>2, <1>3, <1>4

LEMMA TailedHead ==
    ASSUME BridgeInv, wire # <<>>
    PROVE  Head(wire) = wire[1] /\ 1 \in DOMAIN wire /\ Head(wire) \in Packets
<1>1. wire \in Seq(Packets) BY DEF BridgeInv, BridgeTypes
<1> QED BY <1>1

LEMMA ShiftedUnique ==
    ASSUME BridgeInv, NEW i \in DOMAIN wire', wire'[i].to # None, wire' \in Seq(Packets),
           \A j \in DOMAIN wire' : j + 1 \in DOMAIN wire /\ wire'[j] = wire[j + 1]
    PROVE  \A j \in DOMAIN wire' : wire'[j].to = wire'[i].to => j = i
<1> SUFFICES ASSUME NEW j \in DOMAIN wire', wire'[j].to = wire'[i].to PROVE j = i
  OBVIOUS
<1>1. j + 1 = i + 1 BY DEF BridgeInv, Awaited
<1>2. i \in Nat /\ j \in Nat OBVIOUS
<1> QED BY <1>1, <1>2

LEMMA ShiftedAwaited ==
    ASSUME BridgeInv, UNCHANGED request, wire' \in Seq(Packets),
           \A j \in DOMAIN wire' : j + 1 \in DOMAIN wire /\ wire'[j] = wire[j + 1]
    PROVE  Awaited'
<1> SUFFICES ASSUME NEW i \in DOMAIN wire', wire'[i].to # None
             PROVE  /\ request[wire'[i].to].at = "wait"
                    /\ request[wire'[i].to].command = wire'[i].command
                    /\ \A j \in DOMAIN wire' : wire'[j].to = wire'[i].to => j = i
  BY DEF Awaited
<1>1. wire'[i] = wire[i + 1] /\ i + 1 \in DOMAIN wire OBVIOUS
<1>2. /\ request[wire[i + 1].to].at = "wait"
      /\ request[wire[i + 1].to].command = wire[i + 1].command
  BY <1>1 DEF BridgeInv, Awaited
<1> QED BY <1>1, <1>2, ShiftedUnique

\* Closing connections changes only who waits for an answer.
LEMMA AbandonedTyped ==
    ASSUME BridgeInv, NEW hs \in SUBSET Handlers
    PROVE  /\ Abandoned(hs) \in Seq(Packets) /\ DOMAIN Abandoned(hs) = DOMAIN wire
           /\ Len(Abandoned(hs)) = Len(wire)
           /\ \A i \in DOMAIN wire :
                 /\ Abandoned(hs)[i].command = wire[i].command
                 /\ Abandoned(hs)[i].from = wire[i].from
                 /\ Abandoned(hs)[i].to # None =>
                        Abandoned(hs)[i].to = wire[i].to /\ wire[i].to \notin hs
<1> DEFINE w == Abandoned(hs)
<1>1. wire \in Seq(Packets) BY DEF BridgeInv, BridgeTypes
<1>2. DOMAIN wire = 1..Len(wire) /\ Len(wire) \in Nat BY <1>1
<1>3. \A i \in DOMAIN wire :
        wire[i] \in Packets /\ Sent(wire[i].command, wire[i].from, None) \in Packets
  BY OnWire DEF Packets, Sent
<1>4. \A i \in DOMAIN wire :
        w[i] \in {wire[i], Sent(wire[i].command, wire[i].from, None)}
        /\ (w[i] # wire[i] => w[i] = Sent(wire[i].command, wire[i].from, None))
        /\ (wire[i].to \in hs => w[i] = Sent(wire[i].command, wire[i].from, None))
  BY DEF Abandoned
<1>5. DOMAIN w = DOMAIN wire BY DEF Abandoned
<1>6. w = [i \in 1..Len(wire) |-> w[i]] BY <1>2 DEF Abandoned
<1> HIDE DEF w
<1>7. \A i \in 1..Len(wire) : w[i] \in Packets BY <1>2, <1>3, <1>4
<1>8. w \in Seq(Packets) /\ Len(w) = Len(wire) BY <1>2, <1>6, <1>7
<1>9. ASSUME NEW i \in DOMAIN wire
      PROVE  /\ w[i].command = wire[i].command /\ w[i].from = wire[i].from
             /\ w[i].to # None => w[i].to = wire[i].to /\ wire[i].to \notin hs
  <2> DEFINE s == Sent(wire[i].command, wire[i].from, None)
  <2>1. s.command = wire[i].command /\ s.from = wire[i].from /\ s.to = None BY DEF Sent
  <2>2. /\ w[i] = wire[i] \/ w[i] = s
        /\ wire[i].to \in hs => w[i] = s
    BY <1>4
  <2> HIDE DEF s
  <2> QED BY <2>1, <2>2
<1> QED BY <1>5, <1>8, <1>9 DEF w

-----------------------------------------------------------------------------
(* One lemma per step of a handler.                                         *)

LEMMA ReceiveInv ==
    ASSUME BridgeInv, NEW h \in Handlers, Receive(h)
    PROVE  /\ BridgeInv' /\ DrawnKept /\ UNCHANGED told
           /\ request'[h].at = "lock" /\ \A k \in Handlers \ {h} : request'[k] = request[k]
<1>1. request[h] = Idle /\ UNCHANGED <<wire, mutex>> BY DEF Receive
<1>2. PICK p \in People : \E args \in Args(p) :
        LET m == [from |-> p, args |-> args]
        IN \/ \E cmd \in CmdMap : Sensible(cmd, args) /\ Dispatch(h, cmd, m)
           \/ \E cmd \in BySlash : Sensible(cmd, args) /\ RunCommand(h, cmd, m)
  BY DEF Receive
<1>3. PICK args \in Args(p) :
        LET m == [from |-> p, args |-> args]
        IN \/ \E cmd \in CmdMap : Sensible(cmd, args) /\ Dispatch(h, cmd, m)
           \/ \E cmd \in BySlash : Sensible(cmd, args) /\ RunCommand(h, cmd, m)
  BY <1>2
<1> DEFINE m == [from |-> p, args |-> args]
<1>4. m.from = p OBVIOUS
<1>5. \/ InitiateDiscordLink(h, m)
      \/ \E cmd \in CmdMap \cup BySlash : Sensible(cmd, args) /\ RunCommand(h, cmd, m)
  BY <1>3 DEF Dispatch
<1>6. BridgeTypes BY DEF BridgeInv
<1> DEFINE Made(r) == /\ r \in Requests /\ r.at = "lock" /\ request' = [request EXCEPT ![h] = r]
                      /\ Proper(drawn', r.command, r.from)
                      /\ r.command.op = "register" => r.code = r.command.params[1]
           Kept == DrawnKept /\ drawn' \in [Codes -> Draws \cup {None}] /\ UNCHANGED told
<1>7. Kept /\ \E r \in Requests : Made(r)
  <2>1. CASE InitiateDiscordLink(h, m)
    <3>1. PICK c \in Undrawn :
            /\ DrawFor(c, p, "discord") /\ UNCHANGED told
            /\ request' = [request EXCEPT ![h] =
                   Call([op |-> "register", params |-> <<c, p>>], m, c)]
      BY <2>1, <1>4 DEF InitiateDiscordLink
    <3> DEFINE k == [op |-> "register", params |-> <<c, p>>]
               r == Doing("lock", k, p, c, 1)
    <3>2. Kept /\ drawn'[c] = [who |-> p, where |-> "discord"] BY <3>1, <1>6, DrawKeeps
    <3>3. k.op = "register" /\ k.params[1] = c /\ k.params[2] = p OBVIOUS
    <3>4. c \in Codes BY DEF Undrawn
    <3>5. k \in RconCommands BY <3>4 DEF RconCommands
    <3>6. request' = [request EXCEPT ![h] = r] BY <3>1, <1>4 DEF Call
    <3> HIDE DEF k
    <3>7. r \in Requests /\ r.at = "lock" /\ r.command = k /\ r.from = p /\ r.code = c
      BY <3>4, <3>5, DoingTyped
    <3>8. Proper(drawn', k, p) BY <3>2, <3>3, <3>4 DEF Proper
    <3> HIDE DEF r
    <3> QED BY <3>2, <3>3, <3>6, <3>7, <3>8
  <2>2. CASE \E cmd \in CmdMap \cup BySlash : Sensible(cmd, args) /\ RunCommand(h, cmd, m)
    <3>1. PICK cmd \in CmdMap \cup BySlash : Sensible(cmd, args) /\ RunCommand(h, cmd, m)
      BY <2>2
    <3> DEFINE k == Interpolate(cmd, m)
               r == Doing("lock", k, p, None, 1)
    <3>2. /\ MayRun(cmd, m) /\ UNCHANGED <<told, drawn>>
          /\ request' = [request EXCEPT ![h] = r]
      BY <3>1, <1>4 DEF RunCommand, Call
    <3>3. Kept BY <3>2, <1>6 DEF DrawnKept, BridgeTypes
    <3>4. k \in RconCommands /\ Proper(drawn, k, p) /\ k.op # "register"
      BY <3>1, <3>2, <1>6, InterpolatedProper
    <3>5. drawn' = drawn BY <3>2
    <3> HIDE DEF k
    <3>6. r \in Requests /\ r.at = "lock" /\ r.command = k /\ r.from = p
      BY <3>4, DoingTyped
    <3> HIDE DEF r
    <3> QED BY <3>2, <3>3, <3>4, <3>5, <3>6
  <2> QED BY <1>5, <2>1, <2>2
<1>8. PICK r \in Requests : Made(r) BY <1>7
<1>9. /\ request' \in [Handlers -> Requests \cup {Idle}] /\ RequestsProper'
      /\ request'[h] = r /\ \A k \in Handlers \ {h} : request'[k] = request[k]
  BY <1>7, <1>8, SetRequest
<1>10. wire' \in Seq(Packets) /\ WireProper' BY <1>1, <1>7, WireKept
<1>11. BridgeTypes'
  <2>1. Packets' = Packets /\ Requests' = Requests /\ Idle' = Idle /\ Draws' = Draws
    BY DEF Packets, Requests, Idle, Draws, RconCommands
  <2> QED BY <1>1, <1>6, <1>7, <1>9, <1>10, <2>1 DEF BridgeTypes
<1>12. MutexHeld' BY <1>1, <1>8, <1>9, IdleTyped DEF BridgeInv, MutexHeld
<1>13. Awaited'
  <2>1. \A i \in DOMAIN wire : wire[i].to # None => wire[i].to \in Handlers \ {h}
    BY <1>1, IdleTyped, OnWire DEF BridgeInv, Awaited
  <2> QED BY <1>1, <1>9, <2>1 DEF BridgeInv, Awaited
<1> QED BY <1>7, <1>8, <1>9, <1>10, <1>11, <1>12, <1>13 DEF BridgeInv

LEMMA Appended ==
    ASSUME NEW w \in Seq(Packets), NEW p \in Packets
    PROVE  LET n == Len(w) + 1
               v == Append(w, p)
           IN /\ v \in Seq(Packets) /\ DOMAIN v = DOMAIN w \cup {n} /\ n \notin DOMAIN w
              /\ v[n] = p /\ \A i \in DOMAIN w : v[i] = w[i]
OBVIOUS

LEMMA PacketTyped ==
    ASSUME BridgeInv, NEW h \in Handlers, request[h].at # "idle"
    PROVE  /\ Packet(h) \in Packets /\ Packet(h).command = request[h].command
           /\ Packet(h).from = request[h].from /\ Packet(h).to = h
           /\ Proper(drawn, Packet(h).command, Packet(h).from)
<1>1. /\ request[h] # Idle /\ request[h].command \in RconCommands
      /\ request[h].from \in People
  BY BusyTyped DEF BridgeInv
<1>2. /\ Packet(h) \in Packets /\ Packet(h).command = request[h].command
      /\ Packet(h).from = request[h].from /\ Packet(h).to = h
  BY <1>1 DEF Packet, Sent, Packets
<1>3. Proper(drawn, request[h].command, request[h].from)
  BY <1>1 DEF BridgeInv, RequestsProper
<1> QED BY <1>2, <1>3

LEMMA TypesConstant ==
    Packets' = Packets /\ Requests' = Requests /\ Idle' = Idle /\ Draws' = Draws
BY DEF Packets, Requests, Idle, Draws, RconCommands

\* A command is sent for a handler after w, in which nothing is for that handler.
LEMMA Transmit ==
    ASSUME BridgeInv, NEW h \in Handlers, NEW try \in {1, 2}, request[h].at # "idle",
           NEW w \in Seq(Packets), DOMAIN w = DOMAIN wire,
           \A i \in DOMAIN wire :
               /\ w[i].command = wire[i].command /\ w[i].from = wire[i].from
               /\ w[i].to # None => w[i].to = wire[i].to /\ wire[i].to # h,
           wire' = Append(w, Packet(h)), Now(h, "wait", try), UNCHANGED <<drawn, told>>,
           mutex' = h, \A k \in Handlers \ {h} : mutex # k
    PROVE  BridgeInv'
<1>1. /\ request' \in [Handlers -> Requests \cup {Idle}] /\ RequestsProper'
      /\ request'[h].at = "wait" /\ request'[h].command = request[h].command
      /\ \A k \in Handlers \ {h} : request'[k] = request[k]
  BY MovedOn
<1>2. /\ Packet(h) \in Packets /\ Packet(h).command = request[h].command
      /\ Packet(h).to = h /\ Proper(drawn, Packet(h).command, Packet(h).from)
  BY PacketTyped
<1> DEFINE n == Len(w) + 1
           q == Packet(h)
<1> HIDE DEF q
<1>3. /\ wire' \in Seq(Packets) /\ DOMAIN wire' = DOMAIN wire \cup {n} /\ n \notin DOMAIN wire
      /\ wire'[n] = q /\ \A i \in DOMAIN wire : wire'[i] = w[i]
  BY <1>2, Appended DEF q
<1> HIDE DEF n
<1>4. WireProper'
  <2>1. \A i \in DOMAIN wire : Proper(drawn, w[i].command, w[i].from)
    BY DEF BridgeInv, WireProper
  <2>2. Proper(drawn, q.command, q.from) BY <1>2 DEF q
  <2> QED BY <1>3, <2>1, <2>2 DEF WireProper
<1>5. BridgeTypes' BY <1>1, <1>3, TypesConstant DEF BridgeInv, BridgeTypes
<1>6. MutexHeld' BY <1>1 DEF BridgeInv, MutexHeld
<1>7. Awaited'
  <2> SUFFICES ASSUME NEW i \in DOMAIN wire', wire'[i].to # None
               PROVE  /\ request'[wire'[i].to].at = "wait"
                      /\ request'[wire'[i].to].command = wire'[i].command
                      /\ \A j \in DOMAIN wire' : wire'[j].to = wire'[i].to => j = i
    BY DEF Awaited
  <2>1. \A j \in DOMAIN wire : wire'[j].to # h
    BY <1>3, NoneAssumption
  <2>2. wire'[n].to = h BY <1>2, <1>3 DEF q
  <2>3. CASE i = n
    <3>1. request'[wire'[i].to].at = "wait" /\ request'[wire'[i].to].command = wire'[i].command
      BY <1>1, <1>2, <1>3, <2>2, <2>3 DEF q
    <3>2. \A j \in DOMAIN wire' : wire'[j].to = wire'[i].to => j = i
      BY <1>3, <2>1, <2>2, <2>3
    <3> QED BY <3>1, <3>2
  <2>4. CASE i \in DOMAIN wire
    <3>1. /\ wire'[i] = w[i] /\ w[i].to = wire[i].to /\ wire[i].to # h
          /\ wire[i].to # None /\ w[i].command = wire[i].command
      BY <1>3, <2>4
    <3>2. wire[i].to \in Handlers \ {h} BY <2>4, <3>1, OnWire
    <3>3. /\ request[wire[i].to].at = "wait" /\ request[wire[i].to].command = wire[i].command
          /\ \A j \in DOMAIN wire : wire[j].to = wire[i].to => j = i
      BY <2>4, <3>1 DEF BridgeInv, Awaited
    <3>4. \A j \in DOMAIN wire : wire'[j].to = wire'[i].to => j = i
      BY <1>3, <3>1, <3>3
    <3> QED BY <1>1, <1>3, <2>2, <3>1, <3>2, <3>3, <3>4
  <2> QED BY <1>3, <2>3, <2>4
<1> QED BY <1>1, <1>4, <1>5, <1>6, <1>7 DEF BridgeInv

LEMMA SendInv ==
    ASSUME BridgeInv, NEW h \in Handlers, Send(h)
    PROVE  BridgeInv'
<1>1. /\ request[h].at = "lock" /\ mutex = None /\ mutex' = h
      /\ Now(h, "wait", request[h].try) /\ wire' = Append(wire, Packet(h))
      /\ UNCHANGED <<told, drawn>>
  BY DEF Send, At, history
<1>2. request[h].try \in {1, 2} BY <1>1, BusyTyped DEF BridgeInv
<1>3. \A i \in DOMAIN wire : wire[i].to # h
  BY <1>1, OnWire, NoneAssumption DEF BridgeInv, Awaited
<1>4. \A k \in Handlers \ {h} : mutex # k BY <1>1, NoneAssumption
<1>5. wire \in Seq(Packets) BY DEF BridgeInv, BridgeTypes
<1> QED BY <1>1, <1>2, <1>3, <1>4, <1>5, Transmit

LEMMA RetryInv ==
    ASSUME BridgeInv, NEW h \in Handlers, Retry(h)
    PROVE  BridgeInv'
<1>1. /\ request[h].at \in {"wait", "answered"} /\ UNCHANGED <<mutex, told, drawn>>
      /\ Now(h, "wait", 2) /\ wire' = Append(Abandoned({h}), Packet(h))
  BY DEF Retry, history
<1>2. mutex = h BY <1>1 DEF BridgeInv, MutexHeld
<1> DEFINE w == Abandoned({h})
<1>3. /\ w \in Seq(Packets) /\ DOMAIN w = DOMAIN wire
      /\ \A i \in DOMAIN wire :
            /\ w[i].command = wire[i].command /\ w[i].from = wire[i].from
            /\ w[i].to # None => w[i].to = wire[i].to /\ wire[i].to # h
  BY AbandonedTyped
<1> HIDE DEF w
<1>4. wire' = Append(w, Packet(h)) BY <1>1 DEF w
<1> QED BY <1>1, <1>2, <1>3, <1>4, Transmit

\* The handlers of hs stop: their connections are closed, and the mutex given back.
LEMMA StopInv ==
    ASSUME BridgeInv, NEW hs \in SUBSET Handlers, UNCHANGED <<drawn, told>>, DrawnKept,
           request' = [h \in Handlers |-> IF h \in hs THEN Idle ELSE request[h]],
           wire' = Abandoned(hs), mutex' = IF mutex \in hs THEN None ELSE mutex
    PROVE  BridgeInv'
<1> DEFINE w == Abandoned(hs)
<1>1. /\ w \in Seq(Packets) /\ DOMAIN w = DOMAIN wire
      /\ \A i \in DOMAIN wire :
            /\ w[i].command = wire[i].command /\ w[i].from = wire[i].from
            /\ w[i].to # None => w[i].to = wire[i].to /\ wire[i].to \notin hs
  BY AbandonedTyped
<1>2. wire' = w OBVIOUS
<1> HIDE DEF w
<1>3. /\ request' \in [Handlers -> Requests \cup {Idle}]
      /\ \A h \in hs : request'[h] = Idle
      /\ \A h \in Handlers \ hs : request'[h] = request[h]
  BY DEF BridgeInv, BridgeTypes
<1>4. BridgeTypes' BY <1>1, <1>2, <1>3, TypesConstant DEF BridgeInv, BridgeTypes
<1>5. MutexHeld'
  <2>1. \A h \in Handlers : mutex = h <=> request[h].at \in {"wait", "answered"}
    BY DEF BridgeInv, MutexHeld
  <2>2. ASSUME NEW h \in Handlers
        PROVE  mutex' = h <=> request'[h].at \in {"wait", "answered"}
    <3>1. CASE h \in hs
      <4>1. mutex' # h BY <3>1, NoneAssumption
      <4> QED BY <4>1, <3>1, <1>3, IdleTyped
    <3>2. CASE h \notin hs
      <4>1. mutex' = h <=> mutex = h BY <3>2, NoneAssumption
      <4> QED BY <4>1, <3>2, <1>3, <2>1
    <3> QED BY <3>1, <3>2
  <2> QED BY <2>2 DEF MutexHeld
<1>6. RequestsProper'
  <2>1. \A h \in Handlers : request'[h] # Idle => request'[h] = request[h] BY <1>3
  <2> QED BY <2>1, TypesConstant DEF BridgeInv, RequestsProper
<1>7. WireProper' BY <1>1, <1>2 DEF BridgeInv, WireProper
<1>8. Awaited'
  <2> SUFFICES ASSUME NEW i \in DOMAIN wire, w[i].to # None
               PROVE  /\ request'[w[i].to].at = "wait"
                      /\ request'[w[i].to].command = w[i].command
                      /\ \A j \in DOMAIN wire : w[j].to = w[i].to => j = i
    BY <1>1, <1>2 DEF Awaited
  <2>1. /\ w[i].to = wire[i].to /\ wire[i].to \in Handlers \ hs
        /\ w[i].command = wire[i].command
    BY <1>1, OnWire
  <2>2. /\ request[wire[i].to].at = "wait" /\ request[wire[i].to].command = wire[i].command
        /\ \A j \in DOMAIN wire : wire[j].to = wire[i].to => j = i
    BY <2>1, NoneAssumption DEF BridgeInv, Awaited
  <2>3. \A j \in DOMAIN wire : w[j].to = w[i].to => j = i BY <1>1, <2>1, <2>2
  <2> QED BY <1>3, <2>1, <2>2, <2>3
<1> QED BY <1>4, <1>5, <1>6, <1>7, <1>8 DEF BridgeInv

\* One handler that is not on the wire becomes idle.
LEMMA IdleInv ==
    ASSUME BridgeInv, NEW h \in Handlers, request[h].at \notin {"wait", "idle"},
           request' = [request EXCEPT ![h] = Idle], UNCHANGED <<wire, drawn>>,
           told' \subseteq Codes, mutex' = IF mutex = h THEN None ELSE mutex
    PROVE  BridgeInv'
<1>1. DrawnKept BY DEF DrawnKept
<1>2. /\ request' \in [Handlers -> Requests \cup {Idle}] /\ RequestsProper'
      /\ request'[h] = Idle /\ \A k \in Handlers \ {h} : request'[k] = request[k]
  BY <1>1, SetRequest
<1>3. BridgeTypes' BY <1>2, TypesConstant DEF BridgeInv, BridgeTypes
<1>4. MutexHeld'
  <2>1. \A k \in Handlers : mutex = k <=> request[k].at \in {"wait", "answered"}
    BY DEF BridgeInv, MutexHeld
  <2>2. mutex' # h BY NoneAssumption
  <2>3. \A k \in Handlers \ {h} : mutex' = k <=> mutex = k BY NoneAssumption
  <2> QED BY <1>2, <2>1, <2>2, <2>3, IdleTyped DEF MutexHeld
<1>5. WireProper' BY DEF BridgeInv, WireProper
<1>6. Awaited'
  <2>1. \A i \in DOMAIN wire : wire[i].to # None => wire[i].to \in Handlers \ {h}
    BY OnWire DEF BridgeInv, Awaited
  <2> QED BY <1>2, <2>1 DEF BridgeInv, Awaited
<1> QED BY <1>2, <1>3, <1>4, <1>5, <1>6 DEF BridgeInv

LEMMA DialFailsInv ==
    ASSUME BridgeInv, NEW h \in Handlers, DialFails(h)
    PROVE  BridgeInv'
<1>1. /\ request[h].at = "lock" /\ mutex = None /\ UNCHANGED <<wire, mutex, told, drawn>>
      /\ request' = [request EXCEPT ![h] = Idle]
  BY DEF DialFails, Finish, history
<1>2. told' \subseteq Codes BY <1>1 DEF BridgeInv, BridgeTypes
<1>3. mutex' = IF mutex = h THEN None ELSE mutex BY <1>1
<1> QED BY <1>1, <1>2, <1>3, IdleInv

LEMMA TellInv ==
    ASSUME BridgeInv, NEW h \in Handlers, Tell(h)
    PROVE  BridgeInv'
<1>1. /\ request[h].at = "tell" /\ told' \in {told, told \cup {request[h].code}}
      /\ UNCHANGED <<wire, mutex, drawn>> /\ request' = [request EXCEPT ![h] = Idle]
  BY DEF Tell, Finish, history
<1>2. /\ request[h] # Idle /\ request[h].command.op = "register"
      /\ request[h].code \in Codes
  <2>1. request[h] # Idle BY <1>1, IdleTyped
  <2>2. request[h].command.op = "register" BY <1>1, <2>1 DEF BridgeInv, RequestsProper
  <2>3. request[h].code = request[h].command.params[1]
    BY <2>1, <2>2 DEF BridgeInv, RequestsProper
  <2>4. Proper(drawn, request[h].command, request[h].from)
    BY <2>1 DEF BridgeInv, RequestsProper
  <2> QED BY <2>1, <2>2, <2>3, <2>4 DEF Proper
<1>3. mutex # h BY <1>1 DEF BridgeInv, MutexHeld
<1>4. told' \subseteq Codes BY <1>1, <1>2 DEF BridgeInv, BridgeTypes
<1>5. mutex' = IF mutex = h THEN None ELSE mutex BY <1>1, <1>3
<1> QED BY <1>1, <1>4, <1>5, IdleInv

LEMMA GiveUpInv ==
    ASSUME BridgeInv, NEW h \in Handlers, GiveUp(h)
    PROVE  BridgeInv'
<1>1. /\ request[h].at \in {"wait", "answered"} /\ UNCHANGED <<told, drawn>>
      /\ wire' = Abandoned({h}) /\ mutex' = None
      /\ request' = [request EXCEPT ![h] = Idle]
  BY DEF GiveUp, Finish, history
<1>2. mutex = h BY <1>1 DEF BridgeInv, MutexHeld
<1>3. request' = [k \in Handlers |-> IF k \in {h} THEN Idle ELSE request[k]]
  BY <1>1 DEF BridgeInv, BridgeTypes
<1>4. DrawnKept BY <1>1 DEF DrawnKept
<1> QED BY <1>1, <1>2, <1>3, <1>4, StopInv

LEMMA RestartInv ==
    ASSUME BridgeInv, BridgeRestarts
    PROVE  BridgeInv'
<1>1. /\ request' = [h \in Handlers |-> Idle] /\ mutex' = None
      /\ wire' = Abandoned(Handlers) /\ UNCHANGED <<told, drawn>>
  BY DEF BridgeRestarts, history
<1>2. request' = [h \in Handlers |-> IF h \in Handlers THEN Idle ELSE request[h]]
  BY <1>1
<1>3. mutex' = IF mutex \in Handlers THEN None ELSE mutex
  BY <1>1 DEF BridgeInv, BridgeTypes
<1>4. DrawnKept BY <1>1 DEF DrawnKept
<1> QED BY <1>1, <1>2, <1>3, <1>4, StopInv

LEMMA ReturnInv ==
    ASSUME BridgeInv, NEW h \in Handlers, Return(h)
    PROVE  BridgeInv'
<1>1. /\ request[h].at = "answered" /\ UNCHANGED <<wire, told, drawn>> /\ mutex' = None
  BY DEF Return, history
<1>2. mutex = h BY <1>1 DEF BridgeInv, MutexHeld
<1>3. CASE request[h].command.op = "register"
  <2>1. Now(h, "tell", request[h].try) BY <1>3 DEF Return, At
  <2>2. request[h].try \in {1, 2} BY <1>1, BusyTyped DEF BridgeInv
  <2>3. /\ request' \in [Handlers -> Requests \cup {Idle}] /\ RequestsProper'
        /\ request'[h].at = "tell" /\ \A k \in Handlers \ {h} : request'[k] = request[k]
    BY <1>1, <1>3, <2>1, <2>2, MovedOn
  <2>4. BridgeTypes' BY <1>1, <2>3, TypesConstant DEF BridgeInv, BridgeTypes
  <2>5. MutexHeld'
    BY <1>1, <1>2, <2>3, NoneAssumption DEF BridgeInv, MutexHeld
  <2>6. WireProper' BY <1>1 DEF BridgeInv, WireProper
  <2>7. Awaited'
    <3>1. \A i \in DOMAIN wire : wire[i].to # None => wire[i].to \in Handlers \ {h}
      BY <1>1, OnWire DEF BridgeInv, Awaited
    <3> QED BY <1>1, <2>3, <3>1 DEF BridgeInv, Awaited
  <2> QED BY <2>3, <2>4, <2>5, <2>6, <2>7 DEF BridgeInv
<1>4. CASE request[h].command.op # "register"
  <2>1. request' = [request EXCEPT ![h] = Idle] BY <1>4 DEF Return, Finish
  <2>2. told' \subseteq Codes BY <1>1 DEF BridgeInv, BridgeTypes
  <2> QED BY <1>1, <1>2, <2>1, <2>2, IdleInv
<1> QED BY <1>3, <1>4

-----------------------------------------------------------------------------
(* The game's steps, as the bridge's side sees them.                        *)

LEMMA LoseInv ==
    ASSUME BridgeInv, Lose
    PROVE  BridgeInv'
<1>1. /\ wire # <<>> /\ wire' = Tail(wire) /\ UNCHANGED <<mutex, request, told, drawn>>
  BY DEF Lose, bridge, history
<1>2. /\ wire' \in Seq(Packets) /\ WireProper'
      /\ \A i \in DOMAIN wire' : i + 1 \in DOMAIN wire /\ wire'[i] = wire[i + 1]
  BY <1>1, Tailed
<1>3. BridgeTypes' BY <1>1, <1>2, TypesConstant DEF BridgeInv, BridgeTypes
<1>4. MutexHeld' BY <1>1 DEF BridgeInv, MutexHeld
<1>5. RequestsProper' BY <1>1, TypesConstant DEF BridgeInv, RequestsProper
<1>6. Awaited' BY <1>1, <1>2, ShiftedAwaited
<1> QED BY <1>2, <1>3, <1>4, <1>5, <1>6 DEF BridgeInv

\* Perform does not touch what the bridge has, nor what codes were drawn for.
LEMMA PerformKeeps ==
    ASSUME NEW k \in RconCommands, Perform(k)
    PROVE  UNCHANGED drawn
BY DEF Perform, ConfirmLink, RegisterDiscordCode, Unlink, RconCommands, history

LEMMA ExecuteInv ==
    ASSUME BridgeInv, Execute
    PROVE  BridgeInv'
<1> DEFINE e == Head(wire)
<1>1. /\ wire # <<>> /\ wire' = Tail(wire) /\ UNCHANGED <<mutex, told>> /\ Perform(e.command)
      /\ IF e.to = None THEN UNCHANGED request ELSE At(e.to, "answered")
  BY DEF Execute
<1>2. e = wire[1] /\ 1 \in DOMAIN wire /\ e \in Packets BY <1>1, TailedHead
<1> HIDE DEF e
<1>3. e.command \in RconCommands /\ e.to \in Handlers \cup {None}
  BY <1>2 DEF Packets
<1>4. UNCHANGED drawn BY <1>1, <1>3, PerformKeeps
<1>5. /\ wire' \in Seq(Packets) /\ WireProper'
      /\ \A i \in DOMAIN wire' : i + 1 \in DOMAIN wire /\ wire'[i] = wire[i + 1] /\ i + 1 # 1
  BY <1>1, <1>4, Tailed
<1>6. CASE e.to = None
  <2>1. UNCHANGED request BY <1>1, <1>6
  <2>2. BridgeTypes' BY <1>1, <1>4, <1>5, <2>1, TypesConstant DEF BridgeInv, BridgeTypes
  <2>3. MutexHeld' BY <1>1, <2>1 DEF BridgeInv, MutexHeld
  <2>4. RequestsProper' BY <1>4, <2>1, TypesConstant DEF BridgeInv, RequestsProper
  <2>5. Awaited' BY <1>5, <2>1, ShiftedAwaited
  <2> QED BY <1>5, <2>2, <2>3, <2>4, <2>5 DEF BridgeInv
<1>7. CASE e.to \in Handlers
  <2> DEFINE h == e.to
  <2>1. /\ request[h].at = "wait"
        /\ \A j \in DOMAIN wire : wire[j].to = h => j = 1
    BY <1>2, <1>7, NoneAssumption DEF BridgeInv, Awaited
  <2>2. Now(h, "answered", request[h].try) BY <1>1, <1>7, NoneAssumption DEF At
  <2>3. request[h].try \in {1, 2} BY <1>7, <2>1, BusyTyped DEF BridgeInv
  <2> HIDE DEF h
  <2>4. h \in Handlers BY <1>7 DEF h
  <2>5. /\ request' \in [Handlers -> Requests \cup {Idle}] /\ RequestsProper'
        /\ request'[h].at = "answered" /\ \A k \in Handlers \ {h} : request'[k] = request[k]
    BY <1>4, <2>1, <2>2, <2>3, <2>4, MovedOn
  <2>6. BridgeTypes' BY <1>1, <1>4, <1>5, <2>5, TypesConstant DEF BridgeInv, BridgeTypes
  <2>7. MutexHeld' BY <1>1, <2>1, <2>5 DEF BridgeInv, MutexHeld
  <2>8. Awaited'
    <3> SUFFICES ASSUME NEW i \in DOMAIN wire', wire'[i].to # None
                 PROVE  /\ request'[wire'[i].to].at = "wait"
                        /\ request'[wire'[i].to].command = wire'[i].command
                        /\ \A j \in DOMAIN wire' : wire'[j].to = wire'[i].to => j = i
      BY DEF Awaited
    <3>1. i + 1 \in DOMAIN wire /\ wire'[i] = wire[i + 1] /\ i + 1 # 1 BY <1>5
    <3>2. wire[i + 1].to \in Handlers \ {h} BY <3>1, <2>1, OnWire
    <3>3. /\ request[wire[i + 1].to].at = "wait"
          /\ request[wire[i + 1].to].command = wire[i + 1].command
      BY <3>1 DEF BridgeInv, Awaited
    <3> QED BY <1>5, <2>5, <3>1, <3>2, <3>3, ShiftedUnique
  <2> QED BY <1>5, <2>5, <2>6, <2>7, <2>8 DEF BridgeInv
<1> QED BY <1>3, <1>6, <1>7

-----------------------------------------------------------------------------
(* The game's side: the links, the tables of codes and their times.         *)

GameTypes ==
    /\ links \in Links /\ pending \in Tables /\ discordPending \in Tables
    /\ age \in [Codes -> -1..TTL + 1] /\ spent \subseteq Codes /\ excused \subseteq Codes

\* What is in a table was drawn, and since the last load its time is known.
Fits(table, c, where) ==
    table[c] # None =>
        /\ drawn[c] # None
        /\ c \notin excused =>
              /\ age[c] >= 0 /\ table[c].left = TTL - age[c]
              /\ drawn[c].where = where /\ drawn[c].who = table[c].who
TablesFit == \A c \in Codes : Fits(pending, c, "game") /\ Fits(discordPending, c, "discord")

GameInv == GameTypes /\ TablesFit

SavedInv ==
    /\ saved \in Links \X Tables \X Tables \X SUBSET Codes
    /\ \A c \in Codes : (saved[2])[c] # None \/ (saved[3])[c] # None => drawn[c] # None

\* A code that got into its table is there until it made a link or lapsed.
Registered(c) ==
    /\ drawn[c] # None
    /\ c \notin spent \cup excused /\ age[c] <= TTL =>
          /\ drawn[c].where = "game" => pending[c] # None /\ pending[c].who = drawn[c].who
          /\ drawn[c].where # "game" =>
                discordPending[c] # None /\ discordPending[c].who = drawn[c].who

ToldRegistered == \A c \in told : Registered(c)

RequestsRegistered ==
    \A h \in Handlers : \A c \in Codes :
        request[h].at \in {"answered", "tell"} /\ request[h].command.op = "register"
            /\ request[h].code = c => Registered(c)

Bounds == loads \in 0..MaxLoads /\ asks \in 0..MaxAsks

IInv == BridgeInv /\ GameInv /\ SavedInv /\ ToldRegistered /\ RequestsRegistered /\ Bounds

-----------------------------------------------------------------------------
(* The helpers.                                                             *)

LEMMA EntryTyped ==
    ASSUME NEW p \in People
    PROVE  /\ Entry(p) \in Entries /\ Entry(p).who = p /\ Entry(p).left = TTL
           /\ Entry(p) # None
<1>1. TTL \in Nat BY BoundsAssumption
<1>2. Entry(p) \in Entries BY <1>1 DEF Entry, Entries
<1> QED BY <1>2 DEF Entry

LEMMA OfTable ==
    ASSUME NEW table \in Tables, NEW c \in Codes, table[c] # None
    PROVE  table[c] \in Entries /\ table[c].who \in People /\ table[c].left \in -1..TTL
<1>1. table[c] \in Entries BY DEF Tables
<1> QED BY <1>1 DEF Entries

LEMMA PurgeTyped ==
    ASSUME NEW table \in Tables
    PROVE  /\ PurgeExpired(table) \in Tables
           /\ \A c \in Codes :
                 /\ PurgeExpired(table)[c] # None => PurgeExpired(table)[c] = table[c]
                 /\ table[c] # None /\ table[c].left >= 0 => PurgeExpired(table)[c] = table[c]
<1>1. \A c \in Codes : PurgeExpired(table)[c]
        = IF table[c] # None /\ table[c].left < 0 THEN None ELSE table[c]
  BY DEF PurgeExpired, Expired
<1>2. PurgeExpired(table) \in Tables BY DEF PurgeExpired, Tables
<1>3. ASSUME NEW c \in Codes, table[c] # None, table[c].left >= 0
      PROVE  PurgeExpired(table)[c] = table[c]
  <2>1. table[c].left \in -1..TTL BY <1>3, OfTable
  <2>2. TTL \in Nat BY BoundsAssumption
  <2>3. ~(table[c].left < 0) BY <1>3, <2>1, <2>2
  <2> QED BY <1>1, <2>3
<1> QED BY <1>1, <1>2, <1>3

LEMMA OlderTyped ==
    ASSUME NEW table \in Tables
    PROVE  /\ Older(table) \in Tables
           /\ \A c \in Codes :
                 /\ Older(table)[c] # None <=> table[c] # None
                 /\ table[c] # None =>
                       /\ Older(table)[c].who = table[c].who
                       /\ Older(table)[c].left =
                             IF table[c].left < 0 THEN table[c].left ELSE table[c].left - 1
<1> DEFINE next(c) == [who |-> table[c].who, left |-> table[c].left - 1]
<1>1. \A c \in Codes : Older(table)[c]
        = IF table[c] = None \/ table[c].left < 0 THEN table[c] ELSE next(c)
  BY DEF Older, Expired
<1>2. TTL \in Nat BY BoundsAssumption
<1>3. ASSUME NEW c \in Codes, table[c] # None, ~(table[c].left < 0)
      PROVE  /\ next(c) \in Entries /\ next(c).who = table[c].who
             /\ next(c).left = table[c].left - 1
  <2>1. table[c].who \in People /\ table[c].left \in -1..TTL BY <1>3, OfTable
  <2>2. table[c].left - 1 \in -1..TTL BY <1>2, <1>3, <2>1
  <2> QED BY <2>1, <2>2 DEF Entries
<1> HIDE DEF next
<1>4. ASSUME NEW c \in Codes
      PROVE  /\ Older(table)[c] \in Entries \cup {None}
             /\ Older(table)[c] # None <=> table[c] # None
             /\ table[c] # None =>
                   /\ Older(table)[c].who = table[c].who
                   /\ Older(table)[c].left =
                         IF table[c].left < 0 THEN table[c].left ELSE table[c].left - 1
  <2>1. CASE table[c] = None BY <1>1, <2>1
  <2>2. CASE table[c] # None /\ table[c].left < 0 BY <1>1, <2>2, OfTable
  <2>3. CASE table[c] # None /\ ~(table[c].left < 0)
    <3>1. Older(table)[c] = next(c) BY <1>1, <2>3
    <3>2. next(c) # None BY <1>3, <2>3
    <3> QED BY <1>3, <2>3, <3>1, <3>2
  <2> QED BY <2>1, <2>2, <2>3
<1>5. Older(table) \in Tables
  <2>1. Older(table) = [c \in Codes |-> Older(table)[c]] BY DEF Older
  <2> QED BY <1>4, <2>1 DEF Tables
<1> QED BY <1>4, <1>5

-----------------------------------------------------------------------------
(* One lemma per step of the game.                                          *)

\* No step but a load lets a code that is in its table get lost.
RegisteredKept == \A c \in Codes : Registered(c) => Registered(c)'

LEMMA TypeSetsConstant == Links' = Links /\ Tables' = Tables
BY DEF Links, Tables, Entries

LEMMA DrawStep ==
    ASSUME GameInv, DrawnKept, UNCHANGED <<links, pending, discordPending, age, spent, excused>>
    PROVE  GameInv' /\ RegisteredKept
<1>1. GameTypes' BY TypeSetsConstant DEF GameInv, GameTypes
<1>2. TablesFit' BY DEF GameInv, TablesFit, Fits, DrawnKept
<1>3. RegisteredKept BY DEF RegisteredKept, Registered, DrawnKept
<1> QED BY <1>1, <1>2, <1>3 DEF GameInv

LEMMA ConfirmStep ==
    ASSUME GameInv, NEW c \in Codes, NEW u \in People, ConfirmLink(c, u)
    PROVE  GameInv' /\ RegisteredKept
<1>1. CASE pending[c] = None
  <2>1. UNCHANGED <<links, pending, discordPending, drawn, age, spent, excused>>
    BY <1>1 DEF ConfirmLink, storage, history
  <2>2. DrawnKept BY <2>1 DEF DrawnKept
  <2> QED BY <2>1, <2>2, DrawStep
<1>2. CASE pending[c] # None
  <2>1. /\ pending' = [pending EXCEPT ![c] = None]
        /\ UNCHANGED <<discordPending, drawn, age, excused>>
        /\ IF pending[c].left < 0 THEN UNCHANGED <<links, spent>>
           ELSE links' = [links EXCEPT ![pending[c].who] = u] /\ spent' = spent \cup {c}
    BY <1>2 DEF ConfirmLink, Expired
  <2>2. GameTypes'
    <3>1. pending' \in Tables BY <2>1 DEF GameInv, GameTypes, Tables
    <3>2. links' \in Links /\ spent' \subseteq Codes
      BY <2>1, <1>2, OfTable DEF GameInv, GameTypes, Links
    <3> QED BY <2>1, <3>1, <3>2, TypeSetsConstant DEF GameInv, GameTypes
  <2>3. \A d \in Codes : pending'[d] = IF d = c THEN None ELSE pending[d]
    BY <2>1 DEF GameInv, GameTypes, Tables
  <2>4. TablesFit' BY <2>1, <2>3 DEF GameInv, TablesFit, Fits
  <2>5. RegisteredKept
    <3> SUFFICES ASSUME NEW d \in Codes, Registered(d) PROVE Registered(d)'
      BY DEF RegisteredKept
    <3>1. CASE d # c BY <2>1, <2>3, <3>1 DEF Registered
    <3>2. CASE d = c /\ pending[c].left < 0 /\ c \notin excused
      <4>1. /\ age[c] \in -1..TTL + 1 /\ pending[c].left = TTL - age[c]
            /\ drawn[c].where = "game"
        BY <1>2, <3>2 DEF GameInv, GameTypes, TablesFit, Fits
      <4>2. ~(age[c] <= TTL) BY <3>2, <4>1, BoundsAssumption
      <4> QED BY <2>1, <3>2, <4>2 DEF Registered
    <3>3. CASE d = c /\ ~(pending[c].left < 0) BY <2>1, <3>3 DEF Registered
    <3>4. CASE d = c /\ c \in excused BY <2>1, <3>4 DEF Registered
    <3> QED BY <3>1, <3>2, <3>3, <3>4
  <2> QED BY <2>2, <2>4, <2>5 DEF GameInv
<1> QED BY <1>1, <1>2

LEMMA TakeStep ==
    ASSUME GameInv, told \subseteq Codes, NEW p \in People, OdbDiscordLink(p)
    PROVE  GameInv' /\ RegisteredKept
<1>1. PICK c \in told :
        /\ drawn[c] = [who |-> p, where |-> "discord"] /\ discordPending[c] # None
        /\ discordPending' = [discordPending EXCEPT ![c] = None]
        /\ IF discordPending[c].left < 0 THEN UNCHANGED <<links, spent>>
           ELSE links' = [links EXCEPT ![p] = discordPending[c].who] /\ spent' = spent \cup {c}
  BY DEF OdbDiscordLink, Expired
<1>2. UNCHANGED <<pending, drawn, age, excused>> BY DEF OdbDiscordLink
<1>3. c \in Codes BY <1>1
<1>4. GameTypes'
  <2>1. discordPending' \in Tables BY <1>1 DEF GameInv, GameTypes, Tables
  <2>2. links' \in Links /\ spent' \subseteq Codes
    BY <1>1, <1>3, OfTable DEF GameInv, GameTypes, Links
  <2> QED BY <1>2, <2>1, <2>2, TypeSetsConstant DEF GameInv, GameTypes
<1>5. \A d \in Codes : discordPending'[d] = IF d = c THEN None ELSE discordPending[d]
  BY <1>1 DEF GameInv, GameTypes, Tables
<1>6. TablesFit' BY <1>1, <1>2, <1>5 DEF GameInv, TablesFit, Fits
<1>7. RegisteredKept
  <2> SUFFICES ASSUME NEW d \in Codes, Registered(d) PROVE Registered(d)'
    BY DEF RegisteredKept
  <2>1. CASE d # c BY <1>1, <1>2, <1>5, <2>1 DEF Registered
  <2>2. CASE d = c /\ discordPending[c].left < 0 /\ c \notin excused
    <3>1. age[c] \in -1..TTL + 1 /\ discordPending[c].left = TTL - age[c]
      BY <1>1, <1>3, <2>2 DEF GameInv, GameTypes, TablesFit, Fits
    <3>2. ~(age[c] <= TTL) BY <2>2, <3>1, BoundsAssumption
    <3> QED BY <1>1, <1>2, <2>2, <3>2 DEF Registered
  <2>3. CASE d = c /\ ~(discordPending[c].left < 0) BY <1>1, <1>2, <2>3 DEF Registered
  <2>4. CASE d = c /\ c \in excused BY <1>1, <1>2, <2>4 DEF Registered
  <2> QED BY <2>1, <2>2, <2>3, <2>4
<1> QED BY <1>4, <1>6, <1>7 DEF GameInv

\* A code gets into a table, from which the expired ones are removed.
LEMMA RegisterStep ==
    ASSUME GameInv, NEW c \in Codes, NEW u \in People, RegisterDiscordCode(c, u),
           drawn[c] = [who |-> u, where |-> "discord"]
    PROVE  GameInv' /\ RegisteredKept /\ Registered(c)'
<1> DEFINE purged == PurgeExpired(discordPending)
<1>1. /\ discordPending' = [purged EXCEPT ![c] = Entry(u)] /\ age' = [age EXCEPT ![c] = 0]
      /\ UNCHANGED <<links, pending, drawn, spent, excused>>
  BY DEF RegisterDiscordCode
<1>2. /\ purged \in Tables
      /\ \A d \in Codes :
            /\ purged[d] # None => purged[d] = discordPending[d]
            /\ discordPending[d] # None /\ discordPending[d].left >= 0 =>
                   purged[d] = discordPending[d]
  BY PurgeTyped DEF GameInv, GameTypes
<1> HIDE DEF purged
<1>3. TTL \in Nat BY BoundsAssumption
<1>4. GameTypes'
  <2>1. discordPending' \in Tables BY <1>1, <1>2, EntryTyped DEF Tables
  <2>2. age' \in [Codes -> -1..TTL + 1] BY <1>1, <1>3 DEF GameInv, GameTypes
  <2> QED BY <1>1, <2>1, <2>2, TypeSetsConstant DEF GameInv, GameTypes
<1>5. /\ discordPending'[c] = Entry(u) /\ age'[c] = 0
      /\ \A d \in Codes \ {c} : discordPending'[d] = purged[d] /\ age'[d] = age[d]
  BY <1>1, <1>2 DEF GameInv, GameTypes, Tables
<1>6. Registered(c)'
  <2>1. drawn[c].who = u /\ drawn[c].where # "game" OBVIOUS
  <2>2. drawn[c] # None
    <3>1. [who |-> u, where |-> "discord"] \in Draws BY DEF Draws
    <3> QED BY <3>1, NoneAssumption
  <2>3. discordPending'[c] # None /\ discordPending'[c].who = u BY <1>5, EntryTyped
  <2> QED BY <1>1, <2>1, <2>2, <2>3 DEF Registered
<1>7. TablesFit'
  <2> SUFFICES ASSUME NEW d \in Codes
               PROVE  Fits(pending, d, "game")' /\ Fits(discordPending, d, "discord")'
    BY DEF TablesFit
  <2>1. CASE d # c BY <1>1, <1>2, <1>5, <2>1 DEF GameInv, TablesFit, Fits
  <2>2. CASE d = c
    <3>0. [who |-> u, where |-> "discord"] \in Draws BY DEF Draws
    <3>1. Fits(discordPending, c, "discord")'
      BY <1>1, <1>3, <1>5, <3>0, EntryTyped, NoneAssumption DEF Fits
    <3>2. pending[c] # None => c \in excused
      <4>1. "discord" # "game" OBVIOUS
      <4> QED BY <4>1 DEF GameInv, TablesFit, Fits
    <3>3. Fits(pending, c, "game")' BY <1>1, <3>2 DEF GameInv, TablesFit, Fits
    <3> QED BY <2>2, <3>1, <3>3
  <2> QED BY <2>1, <2>2
<1>8. RegisteredKept
  <2> SUFFICES ASSUME NEW d \in Codes \ {c}, Registered(d) PROVE Registered(d)'
    BY <1>6 DEF RegisteredKept
  <2>1. CASE d \in spent \cup excused \/ ~(age[d] <= TTL)
    BY <1>1, <1>5, <2>1 DEF Registered
  <2>2. CASE d \notin spent \cup excused /\ age[d] <= TTL /\ drawn[d].where = "game"
    BY <1>1, <1>5, <2>2 DEF Registered
  <2>3. CASE d \notin spent \cup excused /\ age[d] <= TTL /\ drawn[d].where # "game"
    <3>1. discordPending[d] # None BY <2>3 DEF Registered
    <3>2. discordPending[d].left = TTL - age[d] /\ age[d] \in -1..TTL + 1
      BY <2>3, <3>1 DEF GameInv, GameTypes, TablesFit, Fits
    <3>3. discordPending[d].left >= 0 BY <1>3, <2>3, <3>2
    <3> QED BY <1>1, <1>2, <1>5, <2>3, <3>1, <3>3 DEF Registered
  <2> QED BY <2>1, <2>2, <2>3
<1> QED BY <1>4, <1>6, <1>7, <1>8 DEF GameInv

LEMMA UnlinkStep ==
    ASSUME GameInv, NEW players, Unlink(players)
    PROVE  GameInv' /\ RegisteredKept
<1>1. /\ links' = [p \in People |-> IF p \in players THEN None ELSE links[p]]
      /\ UNCHANGED <<pending, discordPending, drawn, age, spent, excused>>
  BY DEF Unlink, history
<1>2. GameTypes' BY <1>1, TypeSetsConstant DEF GameInv, GameTypes, Links
<1>3. TablesFit' BY <1>1 DEF GameInv, TablesFit, Fits
<1>4. RegisteredKept BY <1>1 DEF RegisteredKept, Registered
<1> QED BY <1>2, <1>3, <1>4 DEF GameInv

\* A code is drawn in the game.
LEMMA OfferStep ==
    ASSUME GameInv, BridgeTypes, NEW p \in People, OdbLink(p)
    PROVE  /\ GameInv' /\ RegisteredKept /\ DrawnKept
           /\ \E c \in Codes : told' = told \cup {c} /\ Registered(c)'
           /\ drawn' \in [Codes -> Draws \cup {None}]
<1> DEFINE purged == PurgeExpired(pending)
<1>1. PICK c \in Undrawn :
        /\ DrawFor(c, p, "game") /\ pending' = [purged EXCEPT ![c] = Entry(p)]
        /\ told' = told \cup {c} /\ age' = [age EXCEPT ![c] = 0]
  BY DEF OdbLink
<1>2. UNCHANGED <<links, discordPending, spent, excused>> BY DEF OdbLink
<1>3. /\ purged \in Tables
      /\ \A d \in Codes :
            /\ purged[d] # None => purged[d] = pending[d]
            /\ pending[d] # None /\ pending[d].left >= 0 => purged[d] = pending[d]
  BY PurgeTyped DEF GameInv, GameTypes
<1> HIDE DEF purged
<1>4. c \in Codes /\ drawn[c] = None BY DEF Undrawn
<1>5. /\ DrawnKept /\ drawn' \in [Codes -> Draws \cup {None}]
      /\ drawn'[c] = [who |-> p, where |-> "game"]
  BY <1>1, DrawKeeps
<1>6. TTL \in Nat BY BoundsAssumption
<1>7. GameTypes'
  <2>1. pending' \in Tables BY <1>1, <1>3, EntryTyped DEF Tables
  <2>2. age' \in [Codes -> -1..TTL + 1] BY <1>1, <1>4, <1>6 DEF GameInv, GameTypes
  <2> QED BY <1>2, <2>1, <2>2, TypeSetsConstant DEF GameInv, GameTypes
<1>8. /\ pending'[c] = Entry(p) /\ age'[c] = 0
      /\ \A d \in Codes \ {c} : pending'[d] = purged[d] /\ age'[d] = age[d]
  BY <1>1, <1>3, <1>4 DEF GameInv, GameTypes, Tables
<1>9. drawn'[c] # None /\ drawn'[c].who = p /\ drawn'[c].where = "game"
  <2>1. [who |-> p, where |-> "game"] \in Draws BY DEF Draws
  <2> QED BY <1>5, <2>1, NoneAssumption
<1>10. Registered(c)'
  <2>1. pending'[c] # None /\ pending'[c].who = p BY <1>8, EntryTyped
  <2> QED BY <1>9, <2>1 DEF Registered
<1>11. \A d \in Codes : drawn[d] # None => d # c /\ drawn'[d] = drawn[d]
  BY <1>4, <1>5 DEF DrawnKept
<1>12. TablesFit'
  <2> SUFFICES ASSUME NEW d \in Codes
               PROVE  Fits(pending, d, "game")' /\ Fits(discordPending, d, "discord")'
    BY DEF TablesFit
  <2>1. CASE d # c
    <3>1. Fits(pending, d, "game")'
      <4> SUFFICES ASSUME pending'[d] # None
                   PROVE  /\ drawn'[d] # None
                          /\ d \notin excused =>
                                /\ age'[d] >= 0 /\ pending'[d].left = TTL - age'[d]
                                /\ drawn'[d].where = "game" /\ drawn'[d].who = pending'[d].who
        BY <1>2 DEF Fits
      <4>1. pending'[d] = pending[d] /\ age'[d] = age[d] BY <1>3, <1>8, <2>1
      <4> QED BY <1>11, <4>1 DEF GameInv, TablesFit, Fits
    <3>2. Fits(discordPending, d, "discord")'
      BY <1>2, <1>8, <1>11, <2>1 DEF GameInv, TablesFit, Fits
    <3> QED BY <3>1, <3>2
  <2>2. CASE d = c
    <3>1. Fits(pending, c, "game")' BY <1>6, <1>8, <1>9, EntryTyped DEF Fits
    <3>2. discordPending[c] = None BY <1>4 DEF GameInv, TablesFit, Fits
    <3>3. Fits(discordPending, c, "discord")' BY <1>2, <3>2 DEF Fits
    <3> QED BY <2>2, <3>1, <3>3
  <2> QED BY <2>1, <2>2
<1>13. RegisteredKept
  <2> SUFFICES ASSUME NEW d \in Codes \ {c}, Registered(d) PROVE Registered(d)'
    BY <1>10 DEF RegisteredKept
  <2>0. drawn[d] # None /\ drawn'[d] = drawn[d] /\ age'[d] = age[d] /\ pending'[d] = purged[d]
    BY <1>8, <1>11 DEF Registered
  <2>1. CASE d \in spent \cup excused \/ ~(age[d] <= TTL)
    BY <1>2, <2>0, <2>1 DEF Registered
  <2>2. CASE d \notin spent \cup excused /\ age[d] <= TTL /\ drawn[d].where # "game"
    BY <1>2, <2>0, <2>2 DEF Registered
  <2>3. CASE d \notin spent \cup excused /\ age[d] <= TTL /\ drawn[d].where = "game"
    <3>1. pending[d] # None BY <2>3 DEF Registered
    <3>2. pending[d].left = TTL - age[d] /\ age[d] \in -1..TTL + 1
      BY <2>3, <3>1 DEF GameInv, GameTypes, TablesFit, Fits
    <3>3. pending[d].left >= 0 BY <1>6, <2>3, <3>2
    <3> QED BY <1>2, <1>3, <2>0, <2>3, <3>1, <3>3 DEF Registered
  <2> QED BY <2>1, <2>2, <2>3
<1> QED BY <1>1, <1>4, <1>5, <1>7, <1>10, <1>12, <1>13 DEF GameInv

LEMMA TickStep ==
    ASSUME GameInv, Tick
    PROVE  GameInv' /\ RegisteredKept
<1>1. /\ pending' = Older(pending) /\ discordPending' = Older(discordPending)
      /\ age' = [c \in Codes |-> IF age[c] \in 0..TTL THEN age[c] + 1 ELSE age[c]]
      /\ UNCHANGED <<links, drawn, spent, excused>>
  BY DEF Tick
<1>2. TTL \in Nat BY BoundsAssumption
<1>3. pending \in Tables /\ discordPending \in Tables BY DEF GameInv, GameTypes
<1>4. age' \in [Codes -> -1..TTL + 1] BY <1>1, <1>2 DEF GameInv, GameTypes
<1>5. \A c \in Codes : age[c] \in -1..TTL + 1
                       /\ age'[c] = IF age[c] \in 0..TTL THEN age[c] + 1 ELSE age[c]
  BY <1>1 DEF GameInv, GameTypes
<1>6. pending' \in Tables /\ discordPending' \in Tables BY <1>1, <1>3, OlderTyped
<1>7. GameTypes' BY <1>1, <1>4, <1>6, TypeSetsConstant DEF GameInv, GameTypes
<1>8. ASSUME NEW table \in Tables, NEW c \in Codes, NEW where,
             table[c] # None =>
                 /\ drawn[c] # None
                 /\ c \notin excused =>
                       /\ age[c] >= 0 /\ table[c].left = TTL - age[c]
                       /\ drawn[c].where = where /\ drawn[c].who = table[c].who
      PROVE  Older(table)[c] # None =>
                 /\ drawn[c] # None
                 /\ c \notin excused =>
                       /\ age'[c] >= 0 /\ Older(table)[c].left = TTL - age'[c]
                       /\ drawn[c].where = where /\ drawn[c].who = Older(table)[c].who
  <2> SUFFICES ASSUME table[c] # None, c \notin excused
               PROVE  /\ age'[c] >= 0 /\ Older(table)[c].left = TTL - age'[c]
                      /\ drawn[c].where = where /\ drawn[c].who = Older(table)[c].who
    BY <1>8, OlderTyped
  <2>1. /\ Older(table)[c].who = table[c].who
        /\ Older(table)[c].left =
              IF table[c].left < 0 THEN table[c].left ELSE table[c].left - 1
    BY OlderTyped
  <2>2. age'[c] >= 0 /\ Older(table)[c].left = TTL - age'[c]
    BY <1>2, <1>5, <1>8, <2>1
  <2> QED BY <1>8, <2>1, <2>2
<1>9. TablesFit' BY <1>1, <1>3, <1>8 DEF GameInv, TablesFit, Fits
<1>10. RegisteredKept
  <2> SUFFICES ASSUME NEW c \in Codes, Registered(c) PROVE Registered(c)'
    BY DEF RegisteredKept
  <2>1. age'[c] <= TTL => age[c] <= TTL BY <1>2, <1>5
  <2>2. /\ pending[c] # None => pending'[c] # None /\ pending'[c].who = pending[c].who
        /\ discordPending[c] # None =>
              discordPending'[c] # None /\ discordPending'[c].who = discordPending[c].who
    BY <1>1, <1>3, OlderTyped
  <2> QED BY <1>1, <2>1, <2>2 DEF Registered
<1> QED BY <1>7, <1>9, <1>10 DEF GameInv

LEMMA LoadStep ==
    ASSUME GameInv, SavedInv, BridgeInv, Load
    PROVE  GameInv' /\ SavedInv' /\ BridgeInv' /\ RegisteredKept
<1>1. PICK file \in {NewGame, saved} :
        /\ links' = file[1] /\ pending' = file[2] /\ discordPending' = file[3]
        /\ spent' = file[4] /\ saved' = file
  BY DEF Load
<1>2. /\ wire' = <<>> /\ excused' = Codes \ Undrawn /\ age' = [c \in Codes |-> -1]
      /\ UNCHANGED <<mutex, request, told, drawn>>
  BY DEF Load, bridge
<1>3. /\ NewGame \in Links \X Tables \X Tables \X SUBSET Codes
      /\ \A c \in Codes : (NewGame[2])[c] = None /\ (NewGame[3])[c] = None
  BY DEF NewGame, NoEntries, Links, Tables
<1>4. /\ file \in Links \X Tables \X Tables \X SUBSET Codes
      /\ \A c \in Codes : (file[2])[c] # None \/ (file[3])[c] # None => drawn[c] # None
  BY <1>3 DEF SavedInv
<1>5. SavedInv' BY <1>1, <1>2, <1>4, TypeSetsConstant DEF SavedInv
<1>6. \A c \in Codes : c \in excused' <=> drawn[c] # None BY <1>2 DEF Undrawn
<1>7. GameTypes'
  <2>1. /\ file[1] \in Links /\ file[2] \in Tables /\ file[3] \in Tables
        /\ file[4] \subseteq Codes
    BY <1>4
  <2>2. age' \in [Codes -> -1..TTL + 1] BY <1>2, BoundsAssumption
  <2>3. excused' \subseteq Codes BY <1>2
  <2> QED BY <1>1, <2>1, <2>2, <2>3, TypeSetsConstant DEF GameTypes
<1>8. TablesFit' BY <1>1, <1>2, <1>4, <1>6 DEF TablesFit, Fits
<1>9. RegisteredKept BY <1>2, <1>6 DEF RegisteredKept, Registered
<1>10. BridgeInv'
  <2>1. <<>> \in Seq(Packets) /\ DOMAIN <<>> = {} OBVIOUS
  <2>2. BridgeTypes' BY <1>2, <2>1, TypesConstant DEF BridgeInv, BridgeTypes
  <2>3. MutexHeld' BY <1>2 DEF BridgeInv, MutexHeld
  <2>4. Awaited' /\ WireProper' BY <1>2, <2>1 DEF Awaited, WireProper
  <2>5. RequestsProper' BY <1>2, TypesConstant DEF BridgeInv, RequestsProper
  <2> QED BY <2>2, <2>3, <2>4, <2>5 DEF BridgeInv
<1> QED BY <1>5, <1>7, <1>8, <1>9, <1>10 DEF GameInv

-----------------------------------------------------------------------------
(* The whole invariant.                                                     *)

\* A request is where it was, or at a label with no code to be told, or is told on.
Before(h) ==
    \/ request'[h] = request[h]
    \/ request'[h].at \notin {"answered", "tell"}
    \/ /\ request[h].at \in {"answered", "tell"} /\ request'[h].command = request[h].command
       /\ request'[h].code = request[h].code

LEMMA RegistrationsKept ==
    ASSUME ToldRegistered, RequestsRegistered, RegisteredKept, told \subseteq Codes,
           UNCHANGED told, \A h \in Handlers : Before(h)
    PROVE  ToldRegistered' /\ RequestsRegistered'
<1>1. ToldRegistered' BY DEF ToldRegistered, RegisteredKept
<1>2. RequestsRegistered'
  <2> SUFFICES ASSUME NEW h \in Handlers, NEW c \in Codes,
                      request'[h].at \in {"answered", "tell"},
                      request'[h].command.op = "register", request'[h].code = c
               PROVE  Registered(c)'
    BY DEF RequestsRegistered
  <2>1. Registered(c) BY DEF Before, RequestsRegistered
  <2> QED BY <2>1 DEF RegisteredKept
<1> QED BY <1>1, <1>2

LEMMA SavedKept ==
    ASSUME SavedInv, DrawnKept, UNCHANGED saved
    PROVE  SavedInv'
BY TypeSetsConstant DEF SavedInv, DrawnKept

LEMMA Labelled ==
    ASSUME BridgeInv, NEW h \in Handlers, NEW label, NEW try, Now(h, label, try)
    PROVE  /\ request'[h].at = label /\ request'[h].command = request[h].command
           /\ request'[h].code = request[h].code
           /\ \A k \in Handlers \ {h} : request'[k] = request[k]
BY DEF BridgeInv, BridgeTypes, Now, Doing

LEMMA Stopped ==
    ASSUME BridgeInv, NEW h \in Handlers, Finish(h)
    PROVE  request'[h].at = "idle" /\ \A k \in Handlers \ {h} : request'[k] = request[k]
BY IdleTyped DEF BridgeInv, BridgeTypes, Finish

\* A step of the bridge alone that tells nobody anything.
LEMMA BridgeStep ==
    ASSUME IInv, BridgeInv', UNCHANGED <<storage, saved, told, history, counts>>,
           \A h \in Handlers : Before(h)
    PROVE  IInv'
<1>1. UNCHANGED <<links, pending, discordPending, saved, drawn, age, spent, excused, told,
                  loads, asks>>
  BY DEF storage, history, counts
<1>2. DrawnKept BY <1>1 DEF DrawnKept
<1>3. GameInv' /\ RegisteredKept BY <1>1, <1>2, DrawStep DEF IInv
<1>4. ToldRegistered' /\ RequestsRegistered'
  BY <1>1, <1>3, RegistrationsKept DEF IInv, BridgeInv, BridgeTypes
<1>5. SavedInv' BY <1>1, <1>2, SavedKept DEF IInv
<1>6. Bounds' BY <1>1 DEF IInv, Bounds
<1> QED BY <1>3, <1>4, <1>5, <1>6 DEF IInv

LEMMA HandleStep ==
    ASSUME IInv, NEW h \in Handlers, Handle(h)
    PROVE  IInv'
<1>0. BridgeInv BY DEF IInv
<1>1. CASE Receive(h)
  <2>1. /\ BridgeInv' /\ DrawnKept /\ UNCHANGED told /\ request'[h].at = "lock"
        /\ \A k \in Handlers \ {h} : request'[k] = request[k]
    BY <1>0, <1>1, ReceiveInv
  <2>2. /\ UNCHANGED <<links, pending, discordPending, saved, age, spent, excused, loads>>
        /\ Ask
    BY <1>1 DEF Receive, storage
  <2>3. GameInv' /\ RegisteredKept BY <2>1, <2>2, DrawStep DEF IInv
  <2>4. \A k \in Handlers : Before(k) BY <2>1 DEF Before
  <2>5. ToldRegistered' /\ RequestsRegistered'
    BY <2>1, <2>3, <2>4, RegistrationsKept DEF IInv, BridgeInv, BridgeTypes
  <2>6. SavedInv' BY <2>1, <2>2, SavedKept DEF IInv
  <2>7. Bounds' BY <2>2, BoundsAssumption DEF IInv, Bounds, Ask
  <2> QED BY <2>1, <2>3, <2>5, <2>6, <2>7 DEF IInv
<1>2. CASE Send(h)
  <2>1. BridgeInv' BY <1>0, <1>2, SendInv
  <2>2. Now(h, "wait", request[h].try) BY <1>2 DEF Send, At
  <2>3. \A k \in Handlers : Before(k) BY <1>0, <2>2, Labelled DEF Before
  <2> QED BY <1>2, <2>1, <2>3, BridgeStep DEF Send
<1>3. CASE DialFails(h)
  <2>1. BridgeInv' BY <1>0, <1>3, DialFailsInv
  <2>2. \A k \in Handlers : Before(k) BY <1>0, <1>3, Stopped DEF Before, DialFails
  <2> QED BY <1>3, <2>1, <2>2, BridgeStep DEF DialFails
<1>4. CASE Retry(h)
  <2>1. BridgeInv' BY <1>0, <1>4, RetryInv
  <2>2. \A k \in Handlers : Before(k) BY <1>0, <1>4, Labelled DEF Before, Retry
  <2> QED BY <1>4, <2>1, <2>2, BridgeStep DEF Retry
<1>5. CASE GiveUp(h)
  <2>1. BridgeInv' BY <1>0, <1>5, GiveUpInv
  <2>2. \A k \in Handlers : Before(k) BY <1>0, <1>5, Stopped DEF Before, GiveUp
  <2> QED BY <1>5, <2>1, <2>2, BridgeStep DEF GiveUp
<1>6. CASE Return(h)
  <2>1. BridgeInv' BY <1>0, <1>6, ReturnInv
  <2>2. \/ Now(h, "tell", request[h].try) /\ request[h].at = "answered"
        \/ Finish(h)
    BY <1>6 DEF Return, At
  <2>3. \A k \in Handlers : Before(k) BY <1>0, <2>2, Labelled, Stopped DEF Before
  <2> QED BY <1>6, <2>1, <2>3, BridgeStep DEF Return
<1>7. CASE Tell(h)
  <2>1. BridgeInv' BY <1>0, <1>7, TellInv
  <2>2. /\ UNCHANGED <<links, pending, discordPending, saved, drawn, age, spent, excused,
                       loads, asks>>
        /\ request[h].at = "tell" /\ told' \in {told, told \cup {request[h].code}} /\ Finish(h)
    BY <1>7 DEF Tell, storage, history, counts
  <2>3. DrawnKept BY <2>2 DEF DrawnKept
  <2>4. GameInv' /\ RegisteredKept BY <2>2, <2>3, DrawStep DEF IInv
  <2>5. Registered(request[h].code) /\ request[h].code \in Codes
    <3>1. /\ request[h] # Idle /\ request[h].command.op = "register"
      BY <1>0, <2>2, IdleTyped DEF BridgeInv, RequestsProper
    <3>2. request[h].code \in Codes
      BY <1>0, <3>1 DEF BridgeInv, RequestsProper, Proper
    <3> QED BY <2>2, <3>1, <3>2 DEF IInv, RequestsRegistered
  <2>6. ToldRegistered'
    <3>1. \A c \in told \cup {request[h].code} : c \in Codes /\ Registered(c)
      BY <1>0, <2>5 DEF IInv, ToldRegistered, BridgeInv, BridgeTypes
    <3>2. \A c \in told' : c \in Codes /\ Registered(c) BY <2>2, <3>1
    <3> QED BY <2>4, <3>2 DEF ToldRegistered, RegisteredKept
  <2>7. RequestsRegistered'
    <3> SUFFICES ASSUME NEW k \in Handlers, NEW c \in Codes,
                        request'[k].at \in {"answered", "tell"},
                        request'[k].command.op = "register", request'[k].code = c
                 PROVE  Registered(c)'
      BY DEF RequestsRegistered
    <3>1. request'[k] = request[k] BY <1>0, <2>2, Stopped
    <3>2. Registered(c) BY <3>1 DEF IInv, RequestsRegistered
    <3> QED BY <2>4, <3>2 DEF RegisteredKept
  <2>8. SavedInv' BY <2>2, <2>3, SavedKept DEF IInv
  <2>9. Bounds' BY <2>2 DEF IInv, Bounds
  <2> QED BY <2>1, <2>4, <2>6, <2>7, <2>8, <2>9 DEF IInv
<1> QED BY <1>1, <1>2, <1>3, <1>4, <1>5, <1>6, <1>7 DEF Handle

LEMMA ExecuteStep ==
    ASSUME IInv, Execute
    PROVE  IInv'
<1> DEFINE e == Head(wire)
           k == e.command
<1>0. BridgeInv /\ GameInv BY DEF IInv
<1>1. /\ wire # <<>> /\ Perform(k) /\ UNCHANGED <<saved, told, loads, asks>>
      /\ IF e.to = None THEN UNCHANGED request ELSE At(e.to, "answered")
  BY DEF Execute, counts
<1>2. e = wire[1] /\ 1 \in DOMAIN wire /\ e \in Packets BY <1>0, <1>1, TailedHead
<1>3. k \in RconCommands /\ e.from \in People /\ e.to \in Handlers \cup {None}
  BY <1>2 DEF Packets
<1>4. Proper(drawn, k, e.from) BY <1>0, <1>2 DEF BridgeInv, WireProper
<1>5. e.to # None =>
        /\ e.to \in Handlers /\ request[e.to].at = "wait" /\ request[e.to].command = k
        /\ Now(e.to, "answered", request[e.to].try)
  BY <1>0, <1>1, <1>2, <1>3 DEF BridgeInv, Awaited, At
<1> HIDE DEF e
<1>6. BridgeInv' BY <1>0, ExecuteInv
<1>7. UNCHANGED drawn BY <1>1, <1>3, PerformKeeps
<1>8. /\ GameInv' /\ RegisteredKept
      /\ k.op = "register" => \A c \in Codes : c = k.params[1] => Registered(c)'
  <2>1. CASE k.op = "confirm"
    <3>1. ConfirmLink(k.params[1], k.params[2]) BY <1>1, <2>1 DEF Perform
    <3>2. k.params[1] \in Codes /\ k.params[2] \in People BY <1>3, <1>4, <2>1 DEF Proper
    <3> QED BY <1>0, <2>1, <3>1, <3>2, ConfirmStep
  <2>2. CASE k.op = "register"
    <3>1. RegisterDiscordCode(k.params[1], k.params[2]) BY <1>1, <2>2 DEF Perform
    <3>2. /\ k.params[1] \in Codes /\ k.params[2] \in People
          /\ drawn[k.params[1]] = [who |-> k.params[2], where |-> "discord"]
      BY <1>3, <1>4, <2>2 DEF Proper
    <3>3. PICK c \in Codes, u \in People : c = k.params[1] /\ u = k.params[2] BY <3>2
    <3>4. GameInv' /\ RegisteredKept /\ Registered(c)'
      BY <1>0, <3>1, <3>2, <3>3, RegisterStep
    <3> QED BY <3>3, <3>4
  <2>3. CASE k.op \in {"unlink-discord", "unlink-player", "unlink-all"}
    <3>1. \E players : Unlink(players) BY <1>1, <2>3 DEF Perform
    <3> QED BY <1>0, <2>3, <3>1, UnlinkStep
  <2> QED BY <1>3, <2>1, <2>2, <2>3 DEF RconCommands
<1>9. ToldRegistered'
  BY <1>0, <1>1, <1>8 DEF IInv, ToldRegistered, RegisteredKept, BridgeInv, BridgeTypes
<1>10. RequestsRegistered'
  <2> SUFFICES ASSUME NEW h \in Handlers, NEW c \in Codes,
                      request'[h].at \in {"answered", "tell"},
                      request'[h].command.op = "register", request'[h].code = c
               PROVE  Registered(c)'
    BY DEF RequestsRegistered
  <2>1. CASE request'[h] = request[h]
    <3>1. Registered(c) BY <2>1 DEF IInv, RequestsRegistered
    <3> QED BY <1>8, <3>1 DEF RegisteredKept
  <2>2. CASE request'[h] # request[h]
    <3>1. e.to # None /\ h = e.to
      BY <1>0, <1>1, <1>5, <2>2, Labelled
    <3>2. /\ request[h].at = "wait" /\ request[h].command = k
          /\ request'[h].command = k /\ request'[h].code = request[h].code
      BY <1>0, <1>5, <3>1, Labelled
    <3>3. request[h] # Idle BY <3>2, IdleTyped
    <3>4. request[h].code = k.params[1]
      BY <1>0, <3>2, <3>3 DEF BridgeInv, RequestsProper
    <3> QED BY <1>8, <3>2, <3>4
  <2> QED BY <2>1, <2>2
<1>11. SavedInv' BY <1>1, <1>7, SavedKept DEF IInv, DrawnKept
<1>12. Bounds' BY <1>1 DEF IInv, Bounds
<1> QED BY <1>6, <1>8, <1>9, <1>10, <1>11, <1>12 DEF IInv

\* A step of the game alone.
LEMMA GameStep ==
    ASSUME IInv, GameInv', RegisteredKept, DrawnKept, drawn' \in [Codes -> Draws \cup {None}],
           UNCHANGED <<wire, mutex, request>>, SavedInv', Bounds',
           told' \subseteq Codes, ToldRegistered'
    PROVE  IInv'
<1>1. BridgeTypes' BY TypesConstant DEF IInv, BridgeInv, BridgeTypes
<1>2. MutexHeld' BY DEF IInv, BridgeInv, MutexHeld
<1>3. Awaited' BY DEF IInv, BridgeInv, Awaited
<1>4. WireProper' BY WireKept DEF IInv
<1>5. RequestsProper'
  <2> SUFFICES ASSUME NEW h \in Handlers, request[h] # Idle
               PROVE  /\ Proper(drawn', request[h].command, request[h].from)
                      /\ request[h].command.op = "register" =>
                             request[h].code = request[h].command.params[1]
                      /\ request[h].at = "tell" => request[h].command.op = "register"
    BY TypesConstant DEF RequestsProper
  <2>1. request[h].from \in People BY DEF IInv, BridgeInv, BridgeTypes, Requests
  <2> QED BY <2>1, ProperKept DEF IInv, BridgeInv, RequestsProper
<1>6. RequestsRegistered'
  <2> SUFFICES ASSUME NEW h \in Handlers, NEW c \in Codes,
                      request[h].at \in {"answered", "tell"},
                      request[h].command.op = "register", request[h].code = c
               PROVE  Registered(c)'
    BY DEF RequestsRegistered
  <2>1. Registered(c) BY DEF IInv, RequestsRegistered
  <2> QED BY <2>1 DEF RegisteredKept
<1> QED BY <1>1, <1>2, <1>3, <1>4, <1>5, <1>6 DEF IInv, BridgeInv

LEMMA PlayStep ==
    ASSUME IInv, NEW p \in People, Play(p)
    PROVE  IInv'
<1>0. GameInv /\ BridgeTypes /\ told \subseteq Codes /\ drawn \in [Codes -> Draws \cup {None}]
  BY DEF IInv, BridgeInv, BridgeTypes
<1>1. UNCHANGED <<saved, wire, mutex, request, loads>>
  BY DEF Play, OdbLink, OdbDiscordLink, OdbUnlink, bridge
<1>2. Bounds' BY <1>1, BoundsAssumption DEF IInv, Bounds, Play, Ask
<1>3. CASE OdbLink(p)
  <2>1. /\ GameInv' /\ RegisteredKept /\ DrawnKept /\ drawn' \in [Codes -> Draws \cup {None}]
        /\ \E c \in Codes : told' = told \cup {c} /\ Registered(c)'
    BY <1>0, <1>3, OfferStep
  <2>2. PICK c \in Codes : told' = told \cup {c} /\ Registered(c)' BY <2>1
  <2>3. ToldRegistered'
    <3> SUFFICES ASSUME NEW d \in told' PROVE Registered(d)' BY DEF ToldRegistered
    <3>1. CASE d = c BY <2>2, <3>1
    <3>2. CASE d # c
      BY <1>0, <2>1, <2>2, <3>2 DEF IInv, ToldRegistered, RegisteredKept
    <3> QED BY <3>1, <3>2
  <2>4. SavedInv' BY <1>1, <2>1, SavedKept DEF IInv
  <2> QED BY <1>0, <1>1, <1>2, <2>1, <2>2, <2>3, <2>4, GameStep
<1>4. CASE OdbDiscordLink(p)
  <2>1. GameInv' /\ RegisteredKept BY <1>0, <1>4, TakeStep
  <2>2. UNCHANGED <<told, drawn>> BY <1>4 DEF OdbDiscordLink
  <2>3. DrawnKept BY <2>2 DEF DrawnKept
  <2>4. ToldRegistered' BY <1>0, <2>1, <2>2 DEF IInv, ToldRegistered, RegisteredKept
  <2>5. SavedInv' BY <1>1, <2>3, SavedKept DEF IInv
  <2> QED BY <1>0, <1>1, <1>2, <2>1, <2>2, <2>3, <2>4, <2>5, GameStep
<1>5. CASE OdbUnlink(p)
  <2>1. GameInv' /\ RegisteredKept BY <1>0, <1>5, UnlinkStep DEF OdbUnlink
  <2>2. UNCHANGED <<told, drawn>> BY <1>5 DEF OdbUnlink, Unlink, history
  <2>3. DrawnKept BY <2>2 DEF DrawnKept
  <2>4. ToldRegistered' BY <1>0, <2>1, <2>2 DEF IInv, ToldRegistered, RegisteredKept
  <2>5. SavedInv' BY <1>1, <2>3, SavedKept DEF IInv
  <2> QED BY <1>0, <1>1, <1>2, <2>1, <2>2, <2>3, <2>4, <2>5, GameStep
<1> QED BY <1>3, <1>4, <1>5 DEF Play

LEMMA InitInv == Init => IInv
<1> SUFFICES ASSUME Init PROVE IInv OBVIOUS
<1>1. GameInv
  <2>1. age \in [Codes -> -1..TTL + 1] BY BoundsAssumption DEF Init
  <2>2. GameTypes BY <2>1 DEF Init, GameTypes, Links, Tables, NoEntries
  <2>3. TablesFit BY DEF Init, TablesFit, Fits, NoEntries
  <2> QED BY <2>2, <2>3 DEF GameInv
<1>2. SavedInv BY DEF Init, SavedInv, NewGame, NoEntries, Links, Tables
<1>3. BridgeInv
  <2>1. <<>> \in Seq(Packets) /\ DOMAIN <<>> = {} OBVIOUS
  <2>2. BridgeTypes BY <2>1 DEF Init, BridgeTypes, NoEntries
  <2>3. \A h \in Handlers : request[h] = Idle /\ mutex # h
    BY NoneAssumption DEF Init
  <2>4. MutexHeld BY <2>3, IdleTyped DEF MutexHeld
  <2>5. Awaited /\ WireProper BY <2>1 DEF Init, Awaited, WireProper
  <2>6. RequestsProper BY <2>3 DEF RequestsProper
  <2> QED BY <2>2, <2>4, <2>5, <2>6 DEF BridgeInv
<1>4. ToldRegistered BY DEF Init, ToldRegistered
<1>5. RequestsRegistered BY IdleTyped DEF Init, RequestsRegistered
<1>6. Bounds BY BoundsAssumption DEF Init, Bounds
<1> QED BY <1>1, <1>2, <1>3, <1>4, <1>5, <1>6 DEF IInv

LEMMA NextInv ==
    ASSUME IInv, [Next]_vars
    PROVE  IInv'
<1>0. BridgeInv /\ GameInv /\ told \subseteq Codes /\ drawn \in [Codes -> Draws \cup {None}]
  BY DEF IInv, BridgeInv, BridgeTypes
<1>1. CASE \E h \in Handlers : Handle(h) BY <1>1, HandleStep
<1>2. CASE BridgeRestarts
  <2>1. BridgeInv' BY <1>0, <1>2, RestartInv
  <2>2. \A h \in Handlers : Before(h) BY <1>2, IdleTyped DEF BridgeRestarts, Before
  <2> QED BY <1>2, <2>1, <2>2, BridgeStep DEF BridgeRestarts
<1>3. CASE Execute BY <1>3, ExecuteStep
<1>4. CASE Lose
  <2>1. BridgeInv' BY <1>0, <1>4, LoseInv
  <2>2. \A h \in Handlers : Before(h) BY <1>4 DEF Lose, bridge, Before
  <2> QED BY <1>4, <2>1, <2>2, BridgeStep DEF Lose
<1>5. CASE \E p \in People : Play(p) BY <1>5, PlayStep
<1>6. CASE Tick
  <2>1. GameInv' /\ RegisteredKept BY <1>0, <1>6, TickStep
  <2>2. UNCHANGED <<saved, wire, mutex, request, told, drawn, loads, asks>>
    BY <1>6 DEF Tick, bridge, counts
  <2>3. DrawnKept BY <2>2 DEF DrawnKept
  <2>4. ToldRegistered' BY <1>0, <2>1, <2>2 DEF IInv, ToldRegistered, RegisteredKept
  <2>5. SavedInv' BY <2>2, <2>3, SavedKept DEF IInv
  <2>6. Bounds' BY <2>2 DEF IInv, Bounds
  <2> QED BY <1>0, <2>1, <2>2, <2>3, <2>4, <2>5, <2>6, GameStep
<1>7. CASE Save
  <2>1. /\ UNCHANGED <<links, pending, discordPending, spent, excused, age, wire, mutex,
                       request, told, drawn, loads, asks>>
        /\ saved' = <<links, pending, discordPending, spent>>
    BY <1>7 DEF Save, bridge, storage, history, counts
  <2>2. DrawnKept BY <2>1 DEF DrawnKept
  <2>3. GameInv' /\ RegisteredKept BY <1>0, <2>1, <2>2, DrawStep
  <2>4. ToldRegistered' BY <1>0, <2>1, <2>3 DEF IInv, ToldRegistered, RegisteredKept
  <2>5. SavedInv'
    <3>1. saved' \in Links \X Tables \X Tables \X SUBSET Codes
      BY <1>0, <2>1 DEF GameInv, GameTypes
    <3>2. \A c \in Codes : pending[c] # None \/ discordPending[c] # None => drawn[c] # None
      BY <1>0 DEF GameInv, TablesFit, Fits
    <3>3. saved'[2] = pending /\ saved'[3] = discordPending BY <2>1
    <3> QED BY <2>1, <3>1, <3>2, <3>3, TypeSetsConstant DEF SavedInv
  <2>6. Bounds' BY <2>1 DEF IInv, Bounds
  <2> QED BY <1>0, <2>1, <2>2, <2>3, <2>4, <2>5, <2>6, GameStep
<1>8. CASE Load
  <2>1. GameInv' /\ SavedInv' /\ BridgeInv' /\ RegisteredKept
    BY <1>0, <1>8, LoadStep DEF IInv
  <2>2. UNCHANGED <<request, told, asks>> /\ loads < MaxLoads /\ loads' = loads + 1
    BY <1>8 DEF Load, bridge
  <2>3. \A h \in Handlers : Before(h) BY <2>2 DEF Before
  <2>4. ToldRegistered' /\ RequestsRegistered'
    BY <1>0, <2>1, <2>2, <2>3, RegistrationsKept DEF IInv
  <2>5. Bounds' BY <2>2, BoundsAssumption DEF IInv, Bounds
  <2> QED BY <2>1, <2>4, <2>5 DEF IInv
<1>9. CASE UNCHANGED vars
  <2>1. UNCHANGED <<storage, saved, wire, bridge, told, history, counts>>
    BY <1>9 DEF vars
  <2>2. UNCHANGED <<mutex, request, wire, drawn, told>> BY <2>1 DEF bridge, history
  <2>3. BridgeTypes' BY <2>2, TypesConstant DEF IInv, BridgeInv, BridgeTypes
  <2>4. RequestsProper' BY <2>2, TypesConstant DEF IInv, BridgeInv, RequestsProper
  <2>5. MutexHeld' /\ Awaited' /\ WireProper'
    BY <2>2 DEF IInv, BridgeInv, MutexHeld, Awaited, WireProper
  <2>6. \A h \in Handlers : Before(h) BY <2>2 DEF Before
  <2> QED BY <2>1, <2>3, <2>4, <2>5, <2>6, BridgeStep DEF BridgeInv
<1> QED BY <1>1, <1>2, <1>3, <1>4, <1>5, <1>6, <1>7, <1>8, <1>9 DEF Next

THEOREM Invariant == Spec => []IInv
BY InitInv, NextInv, PTL DEF Spec

\* The variables have their types, the handler that waits for an answer is the one
\* that holds the mutex (rcon.go:33-36), and one command at most answers it.
THEOREM TypeCorrect == Spec => []TypeOK
<1>1. IInv => TypeOK
  BY DEF IInv, BridgeInv, BridgeTypes, MutexHeld, Awaited, GameInv, GameTypes, SavedInv,
         Bounds, TypeOK
<1> QED BY <1>1, Invariant, PTL

\* A code that a person was told works for its time (main.go:436, control.lua:285),
\* whatever is repeated, lost or cut off.
THEOREM CodesWork == Spec => []ToldCodesWork
<1>1. IInv => ToldCodesWork
  BY DEF IInv, ToldRegistered, Registered, ToldCodesWork
<1> QED BY <1>1, Invariant, PTL

\* Over RCON a link is removed for the linked user or for an admin (main.go:916-919).
THEOREM EntitledUnlink == Spec => OnlyEntitledUnlink
<1>1. ASSUME IInv, [Next]_vars, wire' # wire, loads' = loads, NEW p \in People,
             links[p] # None, links'[p] = None
      PROVE  Head(wire).from = links[p] \/ ResolveAdmin(Head(wire).from)
  <2>1. links \in Links /\ loads \in Nat
    BY <1>1, BoundsAssumption DEF IInv, GameInv, GameTypes, Bounds
  <2>2. links' # links BY <1>1
  <2>3. Execute
    <3>1. ~Load BY <1>1, <2>1 DEF Load
    <3>2. ~Tick /\ ~Save BY <2>2 DEF Tick, Save, storage
    <3>3. \A q \in People : ~Play(q)
      BY <1>1 DEF Play, OdbLink, OdbDiscordLink, OdbUnlink
    <3>4. ~Lose /\ ~BridgeRestarts BY <2>2 DEF Lose, BridgeRestarts, storage
    <3>5. \A h \in Handlers : ~Handle(h)
      BY <2>2 DEF Handle, Receive, Send, DialFails, Retry, GiveUp, Return, Tell, storage
    <3>6. ~UNCHANGED vars BY <2>2 DEF vars, storage
    <3> QED BY <1>1, <3>1, <3>2, <3>3, <3>4, <3>5, <3>6 DEF Next
  <2> DEFINE e == Head(wire)
             k == e.command
  <2>4. wire # <<>> /\ Perform(k) BY <2>3 DEF Execute
  <2>5. e = wire[1] /\ 1 \in DOMAIN wire /\ e \in Packets
    BY <1>1, <2>4, TailedHead DEF IInv
  <2>6. k \in RconCommands /\ e.from \in People BY <2>5 DEF Packets
  <2>7. Proper(drawn, k, e.from) BY <1>1, <2>5 DEF IInv, BridgeInv, WireProper
  <2> HIDE DEF e
  <2>8. CASE k.op = "confirm"
    <3>1. ConfirmLink(k.params[1], k.params[2]) BY <2>4, <2>8 DEF Perform
    <3>2. k.params[2] \in People BY <2>6, <2>7, <2>8 DEF Proper
    <3>3. \/ links' = links
          \/ links' = [links EXCEPT ![pending[k.params[1]].who] = k.params[2]]
      BY <3>1 DEF ConfirmLink, storage
    <3> QED BY <1>1, <2>1, <2>2, <3>2, <3>3, NoneAssumption DEF Links
  <2>9. CASE k.op = "register"
    <3>1. RegisterDiscordCode(k.params[1], k.params[2]) BY <2>4, <2>9 DEF Perform
    <3> QED BY <2>2, <3>1 DEF RegisterDiscordCode
  <2>10. CASE k.op = "unlink-discord"
    <3>1. Unlink({q \in People : links[q] = k.params[1]}) BY <2>4, <2>10 DEF Perform
    <3>2. links'[p] = IF p \in {q \in People : links[q] = k.params[1]} THEN None ELSE links[p]
      BY <1>1, <3>1 DEF Unlink
    <3>3. links[p] = k.params[1] BY <1>1, <3>2
    <3>4. k.params[1] = e.from BY <2>7, <2>10 DEF Proper
    <3> QED BY <3>3, <3>4 DEF e
  <2>11. CASE k.op \in {"unlink-player", "unlink-all"}
    <3>1. ResolveAdmin(e.from) BY <2>7, <2>11 DEF Proper
    <3> QED BY <3>1 DEF e
  <2> QED BY <2>6, <2>8, <2>9, <2>10, <2>11 DEF RconCommands
<1>2. IInv /\ [Next]_vars =>
        [wire' # wire /\ loads' = loads =>
            \A p \in People : links[p] # None /\ links'[p] = None =>
                Head(wire).from = links[p] \/ ResolveAdmin(Head(wire).from)]_vars
  BY <1>1
<1> QED BY <1>2, Invariant, PTL DEF Spec, OnlyEntitledUnlink

-----------------------------------------------------------------------------
(* The refinement of OneTimeCodes: a code is registered for one request     *)
(* only, and is not registered any more once it was told; entries, saved    *)
(* ones as well, and confirmations belong to whom the code was drawn for.   *)

Carries(command, c) == command.op = "register" /\ command.params[1] = c
Sends(i, c)  == Carries(wire[i].command, c)
Busy(h, c)   == request[h] # Idle /\ Carries(request[h].command, c)
Unsent(c)    == \A i \in DOMAIN wire : ~Sends(i, c)

OneSender ==
    /\ \A c \in told : Unsent(c) /\ \A h \in Handlers : ~Busy(h, c)
    /\ \A c \in Codes : \A h, k \in Handlers : Busy(h, c) /\ Busy(k, c) => h = k
    /\ \A c \in Codes : \A h \in Handlers :
          request[h].at \in {"answered", "tell"} /\ Busy(h, c) => Unsent(c)
    /\ \A c \in Codes : \A i, j \in DOMAIN wire :
          Sends(i, c) /\ Sends(j, c) /\ wire[j].to # None => i <= j

\* A confirmation brings a code that its sender was told in the game.
OwnCode(command, from) ==
    command.op = "confirm" =>
        /\ command.params[1] \in told
        /\ drawn[command.params[1]] = [who |-> from, where |-> "game"]

ConfirmsOwn ==
    /\ \A i \in DOMAIN wire : OwnCode(wire[i].command, wire[i].from)
    /\ \A h \in Handlers :
          request[h] # Idle => OwnCode(request[h].command, request[h].from)

Owned(table, where) ==
    \A c \in Codes : table[c] # None => drawn[c] = [who |-> table[c].who, where |-> where]
Own(l) == \A p \in People : l[p] \in {None, p}

GameOwned ==
    /\ Owned(pending, "game") /\ Owned(discordPending, "discord")
    /\ Own(links) /\ spent \subseteq told

SaveOwned ==
    /\ Owned(saved[2], "game") /\ Owned(saved[3], "discord")
    /\ Own(saved[1]) /\ saved[4] \subseteq told

RefInv == IInv /\ OneSender /\ ConfirmsOwn /\ GameOwned /\ SaveOwned

\* Nothing new is asked for or sent: d commands left the front of the wire, some are
\* awaited no more, and some requests went on or ended.
Fewer(d) ==
    /\ DrawnKept /\ told \subseteq told'
    /\ \A i \in DOMAIN wire' :
          /\ i + d \in DOMAIN wire
          /\ wire'[i].command = wire[i + d].command /\ wire'[i].from = wire[i + d].from
          /\ wire'[i].to # None => wire'[i].to = wire[i + d].to
    /\ \A h \in Handlers : request'[h] # Idle =>
          /\ request[h] # Idle
          /\ request'[h].command = request[h].command /\ request'[h].from = request[h].from

\* What was somebody's code stays so.
LEMMA OwnKept ==
    ASSUME BridgeInv, DrawnKept, told \subseteq told', NEW k, NEW p \in People, OwnCode(k, p)
    PROVE  k.op = "confirm" =>
               k.params[1] \in told' /\ drawn'[k.params[1]] = [who |-> p, where |-> "game"]
BY DEF BridgeInv, BridgeTypes, OwnCode, DrawnKept, Draws

\* Then a code keeps its one sender, if what is newly told is sent no more.
LEMMA FewerSend ==
    ASSUME BridgeInv, OneSender, ConfirmsOwn, NEW d \in {0, 1}, Fewer(d),
           DOMAIN wire' \subseteq Nat, DOMAIN wire \subseteq Nat,
           \A c \in told' \ told :
               c \in Codes /\ Unsent(c)' /\ \A h \in Handlers : ~Busy(h, c)',
           \A c \in Codes : \A h \in Handlers :
               request'[h].at \in {"answered", "tell"} /\ Busy(h, c)' =>
                   request[h].at \in {"answered", "tell"} \/ Unsent(c)'
    PROVE  OneSender' /\ ConfirmsOwn'
<1>1. \A i \in DOMAIN wire' : i + d \in DOMAIN wire /\ \A c : Sends(i, c)' => Sends(i + d, c)
  BY DEF Fewer, Sends
<1>2. \A h \in Handlers : \A c : Busy(h, c)' => Busy(h, c)
  BY TypesConstant DEF Fewer, Busy
<1>3. \A c : Unsent(c) => Unsent(c)' BY <1>1 DEF Unsent
<1>4. \A c \in told' : Unsent(c)' /\ \A h \in Handlers : ~Busy(h, c)'
  BY <1>2, <1>3 DEF OneSender
<1>5. \A c \in Codes : \A h, k \in Handlers : Busy(h, c)' /\ Busy(k, c)' => h = k
  BY <1>2 DEF OneSender
<1>6. \A c \in Codes : \A h \in Handlers :
        request'[h].at \in {"answered", "tell"} /\ Busy(h, c)' => Unsent(c)'
  BY <1>2, <1>3 DEF OneSender
<1>7. ASSUME NEW c \in Codes, NEW i \in DOMAIN wire', NEW j \in DOMAIN wire',
             Sends(i, c)', Sends(j, c)', wire'[j].to # None
      PROVE  i <= j
  <2>1. /\ Sends(i + d, c) /\ Sends(j + d, c) /\ wire[j + d].to # None
        /\ i + d \in DOMAIN wire /\ j + d \in DOMAIN wire
    BY <1>1, <1>7 DEF Fewer
  <2>2. i + d <= j + d BY <2>1 DEF OneSender
  <2> QED BY <2>2
<1>8. OneSender' BY <1>4, <1>5, <1>6, <1>7 DEF OneSender
<1>9. told \subseteq Codes BY DEF BridgeInv, BridgeTypes
<1>10. ASSUME NEW i \in DOMAIN wire' PROVE OwnCode(wire[i].command, wire[i].from)'
  <2>1. /\ i + d \in DOMAIN wire /\ wire'[i].command = wire[i + d].command
        /\ wire'[i].from = wire[i + d].from
    BY DEF Fewer
  <2>2. wire[i + d].from \in People BY <2>1, OnWire
  <2>3. OwnCode(wire[i + d].command, wire[i + d].from) BY <2>1 DEF ConfirmsOwn
  <2> QED BY <2>1, <2>2, <2>3, OwnKept DEF OwnCode, Fewer
<1>11. ASSUME NEW h \in Handlers, request'[h] # Idle
       PROVE  OwnCode(request[h].command, request[h].from)'
  <2>1. /\ request[h] # Idle /\ request'[h].command = request[h].command
        /\ request'[h].from = request[h].from
    BY <1>11 DEF Fewer
  <2>2. request[h].from \in People BY <2>1 DEF BridgeInv, BridgeTypes, Requests
  <2>3. OwnCode(request[h].command, request[h].from) BY <2>1 DEF ConfirmsOwn
  <2> QED BY <2>1, <2>2, <2>3, OwnKept DEF OwnCode, Fewer
<1> QED BY <1>8, <1>10, <1>11, TypesConstant DEF ConfirmsOwn

\* The command of a handler is sent, after w, in which nothing is for that handler.
LEMMA TransmitSend ==
    ASSUME BridgeInv, BridgeInv', OneSender, ConfirmsOwn, NEW h \in Handlers,
           request[h].at # "idle", UNCHANGED <<told, drawn>>,
           NEW w \in Seq(Packets), DOMAIN w = DOMAIN wire, Len(w) = Len(wire),
           \A i \in DOMAIN wire :
               /\ w[i].command = wire[i].command /\ w[i].from = wire[i].from
               /\ w[i].to # None => w[i].to = wire[i].to /\ wire[i].to # h,
           wire' = Append(w, Packet(h)), request'[h].at = "wait",
           request'[h].command = request[h].command, request'[h].from = request[h].from,
           \A k \in Handlers \ {h} : request'[k] = request[k]
    PROVE  OneSender' /\ ConfirmsOwn'
<1> DEFINE n == Len(w) + 1
           q == Packet(h)
<1>1. /\ q \in Packets /\ q.command = request[h].command /\ q.from = request[h].from
      /\ request[h] # Idle /\ request[h].command \in RconCommands
  BY PacketTyped, BusyTyped DEF BridgeInv
<1> HIDE DEF q
<1>2. /\ DOMAIN wire' = DOMAIN wire \cup {n} /\ n \notin DOMAIN wire
      /\ wire'[n] = q /\ \A i \in DOMAIN wire : wire'[i] = w[i]
  BY <1>1, Appended DEF q
<1>3. DOMAIN wire = 1..Len(wire) /\ Len(wire) \in Nat
  BY DEF BridgeInv, BridgeTypes
<1>4. n \in Nat /\ \A i \in DOMAIN wire' : i \in Nat /\ i <= n BY <1>2, <1>3
<1> HIDE DEF n
<1>5. \A i \in DOMAIN wire : \A c : Sends(i, c)' <=> Sends(i, c) BY <1>2 DEF Sends, Carries
<1>6. \A c : Sends(n, c)' <=> Busy(h, c) BY <1>1, <1>2 DEF Sends, Busy, Carries
<1>7. \A k \in Handlers : \A c : Busy(k, c)' <=> Busy(k, c)
  <2>1. request'[h] # Idle BY IdleTyped
  <2> QED BY <1>1, <2>1, TypesConstant DEF Busy, Carries
<1>8. ASSUME NEW c \in told
      PROVE  Unsent(c)' /\ \A k \in Handlers : ~Busy(k, c)'
  <2>1. Unsent(c) /\ \A k \in Handlers : ~Busy(k, c) BY DEF OneSender
  <2> QED BY <1>2, <1>5, <1>6, <1>7, <2>1 DEF Unsent
<1>9. \A c \in Codes : \A k, l \in Handlers : Busy(k, c)' /\ Busy(l, c)' => k = l
  BY <1>7 DEF OneSender
<1>10. ASSUME NEW c \in Codes, NEW k \in Handlers, request'[k].at \in {"answered", "tell"},
              Busy(k, c)'
       PROVE  Unsent(c)'
  <2>1. k # h /\ Busy(k, c) /\ request'[k] = request[k] BY <1>7, <1>10
  <2>2. Unsent(c) /\ ~Busy(h, c) BY <1>10, <2>1 DEF OneSender
  <2> QED BY <1>2, <1>5, <1>6, <2>2 DEF Unsent
<1>11. ASSUME NEW c \in Codes, NEW i \in DOMAIN wire', NEW j \in DOMAIN wire',
              Sends(i, c)', Sends(j, c)', wire'[j].to # None
       PROVE  i <= j
  <2>1. CASE j = n BY <1>4, <2>1
  <2>2. CASE j \in DOMAIN wire
    <3>1. /\ Sends(j, c) /\ wire'[j].to = wire[j].to /\ wire[j].to # h
          /\ wire[j].to \in Handlers
      BY <1>2, <1>5, <1>11, <2>2, OnWire
    <3>2. request[wire[j].to].command = wire[j].command /\ request[wire[j].to].at = "wait"
      BY <2>2, <3>1 DEF BridgeInv, Awaited
    <3>3. Busy(wire[j].to, c) BY <3>1, <3>2, IdleTyped DEF Busy, Sends
    <3>4. ~Busy(h, c) BY <3>1, <3>3 DEF OneSender
    <3>5. i # n BY <1>6, <1>11, <3>4
    <3>6. i \in DOMAIN wire /\ Sends(i, c) BY <1>2, <1>5, <1>11, <3>5
    <3> QED BY <1>11, <2>2, <3>1, <3>6 DEF OneSender
  <2> QED BY <1>2, <2>1, <2>2
<1>12. OneSender' BY <1>8, <1>9, <1>10, <1>11 DEF OneSender
<1>13. ASSUME NEW i \in DOMAIN wire' PROVE OwnCode(wire[i].command, wire[i].from)'
  <2>1. CASE i = n
    <3>1. OwnCode(request[h].command, request[h].from) BY <1>1 DEF ConfirmsOwn
    <3> QED BY <1>1, <1>2, <2>1, <3>1 DEF OwnCode
  <2>2. CASE i \in DOMAIN wire
    <3>1. OwnCode(wire[i].command, wire[i].from) BY <2>2 DEF ConfirmsOwn
    <3> QED BY <1>2, <2>2, <3>1 DEF OwnCode
  <2> QED BY <1>2, <2>1, <2>2
<1>14. ASSUME NEW k \in Handlers, request'[k] # Idle
       PROVE  OwnCode(request[k].command, request[k].from)'
  <2>1. /\ request[k] # Idle /\ request'[k].command = request[k].command
        /\ request'[k].from = request[k].from
    BY <1>1, <1>14
  <2>2. OwnCode(request[k].command, request[k].from) BY <2>1 DEF ConfirmsOwn
  <2> QED BY <2>1, <2>2 DEF OwnCode
<1> QED BY <1>12, <1>13, <1>14, TypesConstant DEF ConfirmsOwn

\* What a new request registers was not drawn before, and what it confirms was told.
LEMMA ReceiveGives ==
    ASSUME BridgeInv, told \subseteq Codes, NEW h \in Handlers, Receive(h)
    PROVE  /\ \A c : Carries(request'[h].command, c) => c \in Undrawn
           /\ OwnCode(request[h].command, request[h].from)'
<1>1. PICK p \in People : \E args \in Args(p) :
        LET m == [from |-> p, args |-> args]
        IN \/ \E cmd \in CmdMap : Sensible(cmd, args) /\ Dispatch(h, cmd, m)
           \/ \E cmd \in BySlash : Sensible(cmd, args) /\ RunCommand(h, cmd, m)
  BY DEF Receive
<1>2. PICK args \in Args(p) :
        LET m == [from |-> p, args |-> args]
        IN \/ \E cmd \in CmdMap : Sensible(cmd, args) /\ Dispatch(h, cmd, m)
           \/ \E cmd \in BySlash : Sensible(cmd, args) /\ RunCommand(h, cmd, m)
  BY <1>1
<1> DEFINE m == [from |-> p, args |-> args]
<1>3. m.from = p /\ m.args = args OBVIOUS
<1>4. \/ InitiateDiscordLink(h, m)
      \/ \E cmd \in CmdMap \cup BySlash : Sensible(cmd, args) /\ RunCommand(h, cmd, m)
  BY <1>2 DEF Dispatch
<1>5. request \in [Handlers -> Requests \cup {Idle}] /\ BridgeTypes BY DEF BridgeInv, BridgeTypes
<1>6. CASE InitiateDiscordLink(h, m)
  <2>1. PICK c \in Undrawn :
          request' = [request EXCEPT ![h] =
              Call([op |-> "register", params |-> <<c, p>>], m, c)]
    BY <1>3, <1>6 DEF InitiateDiscordLink
  <2>2. request'[h].command = [op |-> "register", params |-> <<c, p>>]
    BY <1>5, <2>1 DEF Call, Doing
  <2> QED BY <2>2 DEF Carries, OwnCode
<1>7. CASE \E cmd \in CmdMap \cup BySlash : Sensible(cmd, args) /\ RunCommand(h, cmd, m)
  <2>1. PICK cmd \in CmdMap \cup BySlash : Sensible(cmd, args) /\ RunCommand(h, cmd, m)
    BY <1>7
  <2> DEFINE k == Interpolate(cmd, m)
  <2>2. /\ MayRun(cmd, m) /\ UNCHANGED <<told, drawn>>
        /\ request' = [request EXCEPT ![h] = Doing("lock", k, p, None, 1)]
    BY <1>3, <2>1 DEF RunCommand, Call
  <2>3. k.op # "register" BY <1>5, <2>1, <2>2, InterpolatedProper
  <2>4. request'[h].command = k /\ request'[h].from = p BY <1>5, <2>2 DEF Doing
  <2>5. k.op = "confirm" =>
            k.params[1] \in told /\ drawn[k.params[1]] = [who |-> p, where |-> "game"]
    <3> SUFFICES ASSUME k.op = "confirm"
                 PROVE  k.params[1] \in told /\ drawn[k.params[1]] = [who |-> p, where |-> "game"]
      OBVIOUS
    <3>1. cmd.op = "confirm" BY DEF Interpolate
    <3>2. PICK i \in DOMAIN CommandList : cmd = CommandList[i] BY Listed
    <3>3. cmd.params = <<"1", "userid">> BY <3>1, <3>2, CommandsAssumption
    <3>4. k.params[1] = IF args # <<>> THEN args[1] ELSE None BY <1>3, <3>3 DEF Interpolate
    <3>5. NeedsArgs(cmd)
      <4>1. 1 \in DOMAIN cmd.params /\ cmd.params[1] = "1" BY <3>3
      <4> QED BY <4>1 DEF NeedsArgs
    <3>6. args # <<>> BY <1>3, <2>2, <3>5 DEF MayRun
    <3>7. args[1] \in Codes BY <2>1, <3>1, <3>6 DEF Sensible
    <3>8. args[1] \in {d \in told : drawn[d] = [who |-> p, where |-> "game"]}
      BY <1>2, <3>6, <3>7, NamesAssumption DEF Args
    <3> QED BY <3>4, <3>6, <3>8
  <2> HIDE DEF k
  <2> QED BY <2>2, <2>3, <2>4, <2>5 DEF Carries, OwnCode
<1> QED BY <1>4, <1>6, <1>7

\* A new request registers a code that is in no other.
LEMMA ReceiveSend ==
    ASSUME BridgeInv, ToldRegistered, OneSender, ConfirmsOwn, NEW h \in Handlers, Receive(h)
    PROVE  OneSender' /\ ConfirmsOwn'
<1>1. /\ DrawnKept /\ UNCHANGED <<told, wire>> /\ request[h] = Idle /\ request'[h].at = "lock"
      /\ \A k \in Handlers \ {h} : request'[k] = request[k]
  BY ReceiveInv DEF Receive
<1>2. told \subseteq Codes BY DEF BridgeInv, BridgeTypes
<1>3. /\ \A c : Carries(request'[h].command, c) => c \in Undrawn
      /\ OwnCode(request[h].command, request[h].from)'
  BY <1>2, ReceiveGives
<1>4. \A k \in Handlers : \A c : Busy(k, c)' => (k # h /\ Busy(k, c)) \/ (k = h /\ c \in Undrawn)
  BY <1>1, <1>3, TypesConstant DEF Busy
<1>5. \A k \in Handlers : \A c \in Undrawn : ~Busy(k, c)
  <2> SUFFICES ASSUME NEW k \in Handlers, NEW c \in Undrawn, Busy(k, c) PROVE FALSE
    OBVIOUS
  <2>1. drawn[c] = [who |-> request[k].from, where |-> "discord"] /\ request[k] \in Requests
    BY DEF Busy, Carries, BridgeInv, RequestsProper, Proper, BridgeTypes
  <2>2. drawn[c] \in Draws BY <2>1 DEF Requests, Draws
  <2> QED BY <2>2 DEF Undrawn
<1>6. \A c : Unsent(c)' <=> Unsent(c) BY <1>1 DEF Unsent, Sends
<1>7. OneSender'
  <2>1. ASSUME NEW c \in told PROVE Unsent(c)' /\ \A k \in Handlers : ~Busy(k, c)'
    <3>1. c \notin Undrawn BY DEF ToldRegistered, Registered, Undrawn
    <3> QED BY <3>1, <1>4, <1>6 DEF OneSender
  <2>2. \A c \in Codes : \A k, l \in Handlers : Busy(k, c)' /\ Busy(l, c)' => k = l
    BY <1>4, <1>5 DEF OneSender
  <2>3. \A c \in Codes : \A k \in Handlers :
          request'[k].at \in {"answered", "tell"} /\ Busy(k, c)' => Unsent(c)'
    BY <1>1, <1>4, <1>6 DEF OneSender
  <2>4. \A c \in Codes : \A i, j \in DOMAIN wire :
          Sends(i, c)' /\ Sends(j, c)' /\ wire[j].to # None => i <= j
    BY <1>1 DEF OneSender, Sends
  <2> QED BY <1>1, <2>1, <2>2, <2>3, <2>4 DEF OneSender
<1>8. \A i \in DOMAIN wire : OwnCode(wire[i].command, wire[i].from)'
  <2> SUFFICES ASSUME NEW i \in DOMAIN wire PROVE OwnCode(wire[i].command, wire[i].from)'
    OBVIOUS
  <2>1. OwnCode(wire[i].command, wire[i].from) /\ wire[i].from \in People
    BY OnWire DEF ConfirmsOwn
  <2> QED BY <1>1, <2>1, OwnKept DEF OwnCode
<1>9. \A k \in Handlers \ {h} : request'[k] # Idle => OwnCode(request[k].command, request[k].from)'
  <2> SUFFICES ASSUME NEW k \in Handlers \ {h}, request'[k] # Idle
               PROVE  OwnCode(request[k].command, request[k].from)'
    OBVIOUS
  <2>1. request[k] # Idle /\ request'[k] = request[k] BY <1>1
  <2>2. OwnCode(request[k].command, request[k].from) /\ request[k].from \in People
    BY <2>1 DEF ConfirmsOwn, BridgeInv, BridgeTypes, Requests
  <2> QED BY <1>1, <2>1, <2>2, OwnKept DEF OwnCode
<1> QED BY <1>1, <1>3, <1>7, <1>8, <1>9, TypesConstant DEF ConfirmsOwn

LEMMA WireIndices == BridgeInv => DOMAIN wire \subseteq Nat
BY DEF BridgeInv, BridgeTypes

\* The steps of a handler that send: Send, and Retry on a new connection.
LEMMA SendSend ==
    ASSUME BridgeInv, BridgeInv', OneSender, ConfirmsOwn, NEW h \in Handlers,
           Send(h) \/ Retry(h)
    PROVE  OneSender' /\ ConfirmsOwn'
<1>1. CASE Send(h)
  <2>1. /\ request[h].at = "lock" /\ mutex = None /\ Now(h, "wait", request[h].try)
        /\ wire' = Append(wire, Packet(h)) /\ UNCHANGED <<told, drawn>>
    BY <1>1 DEF Send, At, history
  <2>2. \A i \in DOMAIN wire : wire[i].to # h
    BY <2>1, OnWire, NoneAssumption DEF BridgeInv, Awaited
  <2>3. /\ request'[h].at = "wait" /\ request'[h].command = request[h].command
        /\ request'[h].from = request[h].from
        /\ \A k \in Handlers \ {h} : request'[k] = request[k]
    BY <2>1 DEF Now, Doing, BridgeInv, BridgeTypes
  <2>4. wire \in Seq(Packets) BY DEF BridgeInv, BridgeTypes
  <2> QED BY <2>1, <2>2, <2>3, <2>4, TransmitSend
<1>2. CASE Retry(h)
  <2>1. /\ request[h].at \in {"wait", "answered"} /\ UNCHANGED <<told, drawn>>
        /\ Now(h, "wait", 2) /\ wire' = Append(Abandoned({h}), Packet(h))
    BY <1>2 DEF Retry, history
  <2>2. /\ request'[h].at = "wait" /\ request'[h].command = request[h].command
        /\ request'[h].from = request[h].from
        /\ \A k \in Handlers \ {h} : request'[k] = request[k]
    BY <2>1 DEF Now, Doing, BridgeInv, BridgeTypes
  <2> DEFINE w == Abandoned({h})
  <2>3. /\ w \in Seq(Packets) /\ DOMAIN w = DOMAIN wire /\ Len(w) = Len(wire)
        /\ \A i \in DOMAIN wire :
              /\ w[i].command = wire[i].command /\ w[i].from = wire[i].from
              /\ w[i].to # None => w[i].to = wire[i].to /\ wire[i].to # h
    BY AbandonedTyped
  <2>4. wire' = Append(w, Packet(h)) BY <2>1
  <2> HIDE DEF w
  <2> QED BY <2>1, <2>2, <2>3, <2>4, TransmitSend
<1> QED BY <1>1, <1>2

\* The steps that end requests, and close their connections.
LEMMA StopSend ==
    ASSUME BridgeInv, BridgeInv', OneSender, ConfirmsOwn, NEW hs \in SUBSET Handlers,
           wire' = Abandoned(hs) \/ UNCHANGED wire, UNCHANGED <<told, drawn>>,
           \A h \in Handlers : request'[h] \in {request[h], Idle}
    PROVE  OneSender' /\ ConfirmsOwn'
<1>1. \A i \in DOMAIN wire' :
        /\ i + 0 \in DOMAIN wire
        /\ wire'[i].command = wire[i + 0].command /\ wire'[i].from = wire[i + 0].from
        /\ wire'[i].to # None => wire'[i].to = wire[i + 0].to
  <2>1. \A i \in DOMAIN wire : i + 0 = i BY WireIndices
  <2>2. CASE UNCHANGED wire BY <2>1, <2>2
  <2>3. CASE wire' = Abandoned(hs) BY <2>1, <2>3, AbandonedTyped
  <2> QED BY <2>2, <2>3
<1>2. Fewer(0) BY <1>1 DEF Fewer, DrawnKept
<1>3. \A h \in Handlers : request'[h].at \in {"answered", "tell"} =>
        request[h].at \in {"answered", "tell"}
  BY IdleTyped
<1>4. DOMAIN wire \subseteq Nat /\ DOMAIN wire' \subseteq Nat
  BY WireIndices DEF BridgeInv, BridgeTypes
<1> QED BY <1>2, <1>3, <1>4, FewerSend

\* What each step of a handler does to them.
LEMMA HandleSend ==
    ASSUME IInv, BridgeInv', OneSender, ConfirmsOwn, NEW h \in Handlers, Handle(h)
    PROVE  OneSender' /\ ConfirmsOwn'
<1>0. BridgeInv /\ request \in [Handlers -> Requests \cup {Idle}]
  BY DEF IInv, BridgeInv, BridgeTypes
<1>1. CASE Receive(h) BY <1>1, ReceiveSend DEF IInv
<1>2. CASE Send(h) \/ Retry(h) BY <1>0, <1>2, SendSend
<1>3. CASE DialFails(h) \/ GiveUp(h)
  <2>1. /\ Finish(h) /\ UNCHANGED <<told, drawn>>
        /\ wire' = Abandoned({h}) \/ UNCHANGED wire
    BY <1>3 DEF DialFails, GiveUp, history
  <2>2. \A k \in Handlers : request'[k] \in {request[k], Idle} BY <1>0, <2>1 DEF Finish
  <2> QED BY <1>0, <2>1, <2>2, StopSend
<1>4. CASE Return(h)
  <2>1. /\ request[h].at = "answered" /\ UNCHANGED <<told, drawn, wire>>
        /\ Now(h, "tell", request[h].try) \/ Finish(h)
    BY <1>4 DEF Return, At, history
  <2>2. CASE Finish(h)
    <3>1. \A k \in Handlers : request'[k] \in {request[k], Idle} BY <1>0, <2>2 DEF Finish
    <3> QED BY <1>0, <2>1, <3>1, StopSend
  <2>3. CASE Now(h, "tell", request[h].try)
    <3>1. /\ request'[h].command = request[h].command /\ request'[h].from = request[h].from
          /\ \A k \in Handlers \ {h} : request'[k] = request[k]
      BY <1>0, <2>3 DEF Now, Doing
    <3>2. request[h] # Idle BY <2>1, IdleTyped
    <3>3. \A i \in DOMAIN wire : i + 0 = i BY <1>0, WireIndices
    <3>4. Fewer(0) BY <2>1, <3>1, <3>2, <3>3 DEF Fewer, DrawnKept
    <3>5. \A k \in Handlers : request'[k].at \in {"answered", "tell"} =>
            request[k].at \in {"answered", "tell"}
      BY <2>1, <3>1
    <3> QED BY <1>0, <2>1, <3>4, <3>5, WireIndices, FewerSend
  <2> QED BY <2>1, <2>2, <2>3
<1>5. CASE Tell(h)
  <2>1. /\ request[h].at = "tell" /\ UNCHANGED <<drawn, wire>> /\ Finish(h)
        /\ told' \in {told, told \cup {request[h].code}}
    BY <1>5 DEF Tell, history
  <2>2. /\ request'[h] = Idle /\ request[h] # Idle
        /\ \A k \in Handlers \ {h} : request'[k] = request[k]
    BY <1>0, <2>1, IdleTyped DEF Finish
  <2>3. \A i \in DOMAIN wire : i + 0 = i BY <1>0, WireIndices
  <2>4. Fewer(0) BY <2>1, <2>2, <2>3, TypesConstant DEF Fewer, DrawnKept
  <2>5. \A k \in Handlers : \A c : Busy(k, c)' <=> k # h /\ Busy(k, c)
    BY <2>2, TypesConstant DEF Busy
  <2>6. ASSUME NEW c \in told' \ told
        PROVE  c \in Codes /\ Unsent(c)' /\ \A k \in Handlers : ~Busy(k, c)'
    <3>1. c = request[h].code BY <2>1
    <3>2. /\ request[h].command.op = "register" /\ request[h].code = request[h].command.params[1]
          /\ request[h].command.params[1] \in Codes
      BY <1>0, <2>1, <2>2 DEF BridgeInv, RequestsProper, Proper
    <3>3. Busy(h, c) BY <2>2, <3>1, <3>2 DEF Busy, Carries
    <3>4. Unsent(c) /\ \A k \in Handlers \ {h} : ~Busy(k, c)
      BY <2>1, <3>1, <3>2, <3>3 DEF OneSender
    <3>5. Unsent(c)' BY <2>1, <3>4 DEF Unsent, Sends
    <3> QED BY <2>5, <3>1, <3>2, <3>4, <3>5
  <2>7. \A k \in Handlers : request'[k].at \in {"answered", "tell"} =>
          request[k].at \in {"answered", "tell"}
    BY <2>2, IdleTyped
  <2> QED BY <1>0, <2>1, <2>4, <2>6, <2>7, WireIndices, FewerSend
<1> QED BY <1>1, <1>2, <1>3, <1>4, <1>5 DEF Handle

\* A handler is answered by the last of its commands, after which none is on the wire.
LEMMA ExecuteSend ==
    ASSUME BridgeInv, BridgeInv', OneSender, ConfirmsOwn, Execute \/ Lose
    PROVE  OneSender' /\ ConfirmsOwn'
<1>1. /\ wire # <<>> /\ wire' = Tail(wire) /\ UNCHANGED told
      /\ \/ UNCHANGED request
         \/ Head(wire).to # None /\ At(Head(wire).to, "answered")
  BY DEF Execute, Lose, bridge
<1>2. Head(wire) = wire[1] /\ 1 \in DOMAIN wire /\ Head(wire) \in Packets
  BY <1>1, TailedHead
<1>3. UNCHANGED drawn
  <2>1. CASE Lose BY <2>1 DEF Lose, history
  <2>2. CASE Execute
    <3>1. Head(wire).command \in RconCommands BY <1>2 DEF Packets
    <3> QED BY <2>2, <3>1, PerformKeeps DEF Execute
  <2> QED BY <2>1, <2>2
<1>4. \A i \in DOMAIN wire' : i + 1 \in DOMAIN wire /\ wire'[i] = wire[i + 1] /\ i + 1 # 1
  BY <1>1, <1>3, Tailed
<1>5. DOMAIN wire \subseteq Nat /\ DOMAIN wire' \subseteq Nat
  BY WireIndices DEF BridgeInv, BridgeTypes
<1>6. CASE UNCHANGED request
  <2>1. Fewer(1) BY <1>1, <1>3, <1>4, <1>6, TypesConstant DEF Fewer, DrawnKept
  <2>2. \A k \in Handlers : request'[k].at \in {"answered", "tell"} =>
          request[k].at \in {"answered", "tell"}
    BY <1>6
  <2> QED BY <1>1, <1>5, <2>1, <2>2, FewerSend
<1>7. CASE Head(wire).to # None /\ At(Head(wire).to, "answered")
  <2>1. PICK h \in Handlers : h = wire[1].to BY <1>2, <1>7, OnWire
  <2>2. request[h].at = "wait" /\ request[h].command = wire[1].command
    BY <1>2, <2>1, NoneAssumption DEF BridgeInv, Awaited
  <2>3. /\ request[h] # Idle /\ request'[h].command = request[h].command
        /\ request'[h].from = request[h].from
        /\ \A k \in Handlers \ {h} : request'[k] = request[k]
    BY <1>2, <1>7, <2>1, <2>2, IdleTyped DEF At, Now, Doing, BridgeInv, BridgeTypes
  <2>4. Fewer(1) BY <1>1, <1>3, <1>4, <2>3, TypesConstant DEF Fewer, DrawnKept
  <2>5. ASSUME NEW c \in Codes, NEW k \in Handlers,
               request'[k].at \in {"answered", "tell"}, Busy(k, c)'
        PROVE  request[k].at \in {"answered", "tell"} \/ Unsent(c)'
    <3>1. CASE k # h BY <2>3, <2>5, <3>1
    <3>2. CASE k = h
      <4>1. Sends(1, c) BY <2>2, <2>3, <2>5, <3>2 DEF Sends, Busy
      <4>2. ASSUME NEW i \in DOMAIN wire', Sends(i, c)' PROVE FALSE
        <5>1. i + 1 \in DOMAIN wire /\ i \in Nat /\ i + 1 # 1 BY <1>4, <1>5
        <5>2. Sends(i + 1, c) BY <1>4, <4>2 DEF Sends
        <5>3. i + 1 <= 1 BY <1>2, <2>1, <4>1, <5>1, <5>2, NoneAssumption DEF OneSender
        <5> QED BY <5>1, <5>3
      <4> QED BY <4>2 DEF Unsent
    <3> QED BY <3>1, <3>2
  <2> QED BY <1>1, <1>5, <2>4, <2>5, FewerSend
<1> QED BY <1>1, <1>6, <1>7

\* The game goes on: nothing is sent, and who is told a code in the game had it drawn.
LEMMA PlaySend ==
    ASSUME IInv, OneSender, ConfirmsOwn, DrawnKept, told \subseteq told',
           \A c \in told' \ told : c \in Undrawn,
           UNCHANGED request, UNCHANGED wire \/ wire' = <<>>
    PROVE  OneSender' /\ ConfirmsOwn'
<1>0. BridgeInv BY DEF IInv
<1>1. DOMAIN wire \subseteq Nat /\ DOMAIN wire' \subseteq Nat BY <1>0, WireIndices
<1>2. \A i \in DOMAIN wire' : i + 0 \in DOMAIN wire /\ wire'[i] = wire[i + 0]
  <2>1. CASE UNCHANGED wire
    <3>1. \A i \in DOMAIN wire : i + 0 = i BY <1>1
    <3> QED BY <2>1, <3>1
  <2>2. CASE wire' = <<>> BY <2>2
  <2> QED BY <2>1, <2>2
<1>3. Fewer(0) BY <1>2, TypesConstant DEF Fewer
<1>4. ASSUME NEW c \in told' \ told
      PROVE  c \in Codes /\ Unsent(c)' /\ \A h \in Handlers : ~Busy(h, c)'
  <2>1. drawn[c] = None /\ c \in Codes BY DEF Undrawn
  <2>2. ASSUME NEW i \in DOMAIN wire', Sends(i, c)' PROVE FALSE
    <3>1. i + 0 \in DOMAIN wire /\ Sends(i + 0, c) BY <1>2, <2>2 DEF Sends
    <3>2. Proper(drawn, wire[i + 0].command, wire[i + 0].from) /\ wire[i + 0].from \in People
      BY <1>0, <3>1, OnWire DEF BridgeInv, WireProper
    <3>3. drawn[c] \in Draws BY <3>1, <3>2 DEF Sends, Carries, Proper, Draws
    <3> QED BY <2>1, <3>3
  <2>3. ASSUME NEW h \in Handlers, Busy(h, c)' PROVE FALSE
    <3>1. Busy(h, c) BY <2>3, TypesConstant DEF Busy
    <3>2. Proper(drawn, request[h].command, request[h].from) /\ request[h].from \in People
      BY <1>0, <3>1 DEF Busy, BridgeInv, RequestsProper, BridgeTypes, Requests
    <3>3. drawn[c] \in Draws BY <3>1, <3>2 DEF Busy, Carries, Proper, Draws
    <3> QED BY <2>1, <3>3
  <2> QED BY <2>1, <2>2, <2>3 DEF Unsent
<1> QED BY <1>0, <1>1, <1>3, <1>4, FewerSend

-----------------------------------------------------------------------------
(* The game's side of the refinement: whose entries and links there are, and *)
(* what becomes of the offers.                                               *)

Offered(c, p) == [code |-> c, who |-> p]
With(t, c, e) == [t EXCEPT ![c] = e]
Lives(t, c)   == t[c] # None /\ ~Expired(t[c])

\* What holds for Live(t) in terms of the entries.
LEMMA LiveMembers ==
    ASSUME NEW t
    PROVE  /\ \A c \in Codes : Lives(t, c) => Offered(c, t[c].who) \in Live(t)
           /\ \A o \in Live(t) : \E c \in Codes : Lives(t, c) /\ o = Offered(c, t[c].who)
BY DEF Live, Lives, Offered

\* A table from which entries lapse.
LEMMA LiveShrinks ==
    ASSUME NEW s, NEW t,
           \A c \in Codes : t[c] # None /\ ~Expired(t[c]) =>
               s[c] # None /\ ~Expired(s[c]) /\ s[c].who = t[c].who
    PROVE  Live(t) \subseteq Live(s)
BY DEF Live

\* A table that gets an entry.
LEMMA LiveGrows ==
    ASSUME NEW s \in Tables, NEW c \in Codes, NEW p \in People,
           s[c] # None => s[c].who = p,
           NEW t, t = With(PurgeExpired(s), c, Entry(p))
    PROVE  Live(t) = Live(s) \cup {Offered(c, p)}
<1> DEFINE purged == PurgeExpired(s)
<1>1. /\ purged \in Tables
      /\ \A d \in Codes : purged[d] = IF s[d] # None /\ Expired(s[d]) THEN None ELSE s[d]
  BY PurgeTyped DEF PurgeExpired
<1> HIDE DEF purged
<1>2. /\ t[c] = Entry(p) /\ \A d \in Codes \ {c} : t[d] = purged[d]
  BY <1>1 DEF purged, Tables, With
<1>3. Lives(t, c) /\ t[c].who = p
  <2>1. TTL \in Nat BY BoundsAssumption
  <2>2. Entry(p).left = TTL /\ Entry(p).who = p /\ Entry(p) # None BY EntryTyped
  <2> QED BY <1>2, <2>1, <2>2 DEF Lives, Expired
<1>4. \A d \in Codes \ {c} : /\ Lives(t, d) <=> Lives(s, d)
                             /\ Lives(t, d) => t[d].who = s[d].who
  BY <1>1, <1>2 DEF Lives
<1>5. Lives(s, c) => s[c].who = p BY DEF Lives
<1>6. ASSUME NEW o \in Live(t) PROVE o \in Live(s) \cup {Offered(c, p)}
  <2>1. PICK d \in Codes : Lives(t, d) /\ o = Offered(d, t[d].who) BY LiveMembers
  <2>2. CASE d = c BY <1>3, <2>1, <2>2
  <2>3. CASE d # c
    <3>1. Lives(s, d) /\ o = Offered(d, s[d].who) BY <1>4, <2>1, <2>3
    <3> QED BY <3>1, LiveMembers
  <2> QED BY <2>2, <2>3
<1>7. ASSUME NEW o \in Live(s) PROVE o \in Live(t)
  <2>1. PICK d \in Codes : Lives(s, d) /\ o = Offered(d, s[d].who) BY LiveMembers
  <2>2. Lives(t, d) /\ o = Offered(d, t[d].who) BY <1>3, <1>4, <1>5, <2>1
  <2> QED BY <2>2, LiveMembers
<1>8. Offered(c, p) \in Live(t) BY <1>3, LiveMembers
<1> QED BY <1>6, <1>7, <1>8

\* A table that loses one.
LEMMA LiveLoses ==
    ASSUME NEW s \in Tables, NEW c \in Codes, s[c] # None, NEW t, t = With(s, c, None)
    PROVE  /\ Expired(s[c]) => Live(t) = Live(s)
           /\ ~Expired(s[c]) => /\ Offered(c, s[c].who) \in Live(s)
                                /\ Live(t) = Live(s) \ {Offered(c, s[c].who)}
<1>1. t[c] = None /\ \A d \in Codes \ {c} : t[d] = s[d] BY DEF Tables, With
<1>2. \A d \in Codes : Lives(t, d) <=> d # c /\ Lives(s, d) BY <1>1 DEF Lives
<1>3. ASSUME NEW o \in Live(t)
      PROVE  o \in Live(s) /\ o # Offered(c, s[c].who)
  <2>1. PICK d \in Codes : Lives(t, d) /\ o = Offered(d, t[d].who) BY LiveMembers
  <2>2. d # c /\ Lives(s, d) /\ o = Offered(d, s[d].who) BY <1>1, <1>2, <2>1
  <2>3. o \in Live(s) BY <2>2, LiveMembers
  <2> QED BY <2>2, <2>3 DEF Offered
<1>4. ASSUME NEW o \in Live(s), ~Lives(s, c) \/ o # Offered(c, s[c].who) PROVE o \in Live(t)
  <2>1. PICK d \in Codes : Lives(s, d) /\ o = Offered(d, s[d].who) BY LiveMembers
  <2>2. d # c BY <1>4, <2>1
  <2>3. Lives(t, d) /\ o = Offered(d, t[d].who) BY <1>1, <1>2, <2>1, <2>2
  <2> QED BY <2>3, LiveMembers
<1>5. Lives(s, c) <=> ~Expired(s[c]) BY DEF Lives
<1>6. Lives(s, c) => Offered(c, s[c].who) \in Live(s) BY LiveMembers
<1> QED BY <1>3, <1>4, <1>5, <1>6

\* IsOffer name codes and people.
LEMMA LiveTyped ==
    ASSUME NEW t \in Tables
    PROVE  Live(t) \subseteq Promise!Offers
BY OfTable DEF Live, Promise!Offers

Offering == Live(pending) \cup Live(discordPending)
AbsVars  == <<Offering, links, spent, loads>>

\* The offers of OneTimeCodes.
LEMMA OfferingNext == Offering' = Live(pending') \cup Live(discordPending')
BY DEF Offering, Live, Expired

\* The steps of OneTimeCodes.
LEMMA IsOffer ==
    ASSUME NEW c \in Codes, NEW p \in People, c \notin spent,
           Offering' = Offering \cup {Offered(c, p)}, UNCHANGED <<links, spent, loads>>
    PROVE  Promise!Next
<1>1. Offered(c, p) \in Promise!Offers /\ Offered(c, p).code = c
  BY DEF Offered, Promise!Offers
<1>2. Promise!Offer BY <1>1 DEF Promise!Offer, Offering
<1> QED BY <1>2 DEF Promise!Next

LEMMA IsTake ==
    ASSUME NEW c, NEW p, Offered(c, p) \in Offering, Offering' = Offering \ {Offered(c, p)},
           links' = [links EXCEPT ![p] = p], spent' = spent \cup {c}, UNCHANGED loads
    PROVE  Promise!Next
<1>1. Offered(c, p).code = c /\ Offered(c, p).who = p BY DEF Offered
<1>2. Promise!Take BY <1>1 DEF Promise!Take, Offering
<1> QED BY <1>2 DEF Promise!Next

LEMMA IsLapse ==
    ASSUME Offering' \subseteq Offering, UNCHANGED <<links, spent, loads>>
    PROVE  Promise!Next
BY DEF Promise!Next, Promise!Lapse, Offering

LEMMA IsRemove ==
    ASSUME NEW gone,
           links' = [p \in People |-> IF p \in gone THEN None ELSE links[p]],
           UNCHANGED <<Offering, spent, loads>>
    PROVE  Promise!Next
<1>1. links' = [p \in People |-> IF p \in gone \cap People THEN None ELSE links[p]]
  OBVIOUS
<1>2. Promise!Remove BY <1>1 DEF Promise!Remove, Offering
<1> QED BY <1>2 DEF Promise!Next

\* An entry stays with whom its code was drawn for.
LEMMA OwnedKept ==
    ASSUME NEW s \in Tables, NEW where \in {"game", "discord"}, Owned(s, where), DrawnKept,
           NEW c \in Codes, s[c] # None
    PROVE  drawn'[c] = [who |-> s[c].who, where |-> where]
<1>1. drawn[c] = [who |-> s[c].who, where |-> where] BY DEF Owned
<1>2. s[c].who \in People BY OfTable
<1>3. drawn[c] \in Draws BY <1>1, <1>2 DEF Draws
<1> QED BY <1>1, <1>3, NoneAssumption DEF DrawnKept

\* OdbLink, and a registration: an entry for whom the code was drawn.
LEMMA EntryOwned ==
    ASSUME NEW s \in Tables, NEW where \in {"game", "discord"}, Owned(s, where), DrawnKept,
           NEW c \in Codes, NEW p \in People, NEW t, t = With(PurgeExpired(s), c, Entry(p)),
           drawn'[c] = [who |-> p, where |-> where], NEW d \in Codes, t[d] # None
    PROVE  drawn'[d] = [who |-> t[d].who, where |-> where]
<1> DEFINE purged == PurgeExpired(s)
<1>1. /\ purged \in Tables
      /\ \A e \in Codes : purged[e] # None => purged[e] = s[e]
  BY PurgeTyped
<1> HIDE DEF purged
<1>2. t[c] = Entry(p) /\ \A e \in Codes \ {c} : t[e] = purged[e]
  BY <1>1 DEF purged, Tables, With
<1>3. CASE d = c BY <1>2, <1>3, EntryTyped
<1>4. CASE d # c
  <2>1. t[d] = s[d] /\ s[d] # None BY <1>1, <1>2, <1>4
  <2> QED BY <2>1, OwnedKept
<1> QED BY <1>3, <1>4

SavedTyped == saved \in Links \X Tables \X Tables \X SUBSET Codes

\* What the save holds stays with whom it belongs to.
LEMMA SaveOwnedKept ==
    ASSUME SaveOwned, SavedTyped, DrawnKept, told \subseteq told', UNCHANGED saved
    PROVE  SaveOwned'
<1>1. saved[2] \in Tables /\ saved[3] \in Tables BY DEF SavedTyped
<1> DEFINE s == saved[2]
           t == saved[3]
<1>2. \A c \in Codes : s[c] # None => drawn'[c] = [who |-> s[c].who, where |-> "game"]
  BY <1>1, OwnedKept DEF SaveOwned
<1>3. \A c \in Codes : t[c] # None => drawn'[c] = [who |-> t[c].who, where |-> "discord"]
  BY <1>1, OwnedKept DEF SaveOwned
<1> QED BY <1>2, <1>3 DEF SaveOwned, Owned, Own

\* The tables that a step leaves alone.
LEMMA TableKept ==
    ASSUME GameInv, GameOwned, DrawnKept
    PROVE  /\ UNCHANGED pending => Owned(pending, "game")'
           /\ UNCHANGED discordPending => Owned(discordPending, "discord")'
<1>1. pending \in Tables /\ discordPending \in Tables BY DEF GameInv, GameTypes
<1>2. \A c \in Codes : pending[c] # None => drawn'[c] = [who |-> pending[c].who, where |-> "game"]
  BY <1>1, OwnedKept DEF GameOwned
<1>3. \A c \in Codes : discordPending[c] # None =>
          drawn'[c] = [who |-> discordPending[c].who, where |-> "discord"]
  BY <1>1, OwnedKept DEF GameOwned
<1> QED BY <1>2, <1>3 DEF Owned

\* /odb-link offers a new code.
LEMMA LinkRefines ==
    ASSUME IInv, GameOwned, NEW p \in People, OdbLink(p)
    PROVE  GameOwned' /\ Promise!Next
<1>1. PICK c \in Undrawn :
        /\ DrawFor(c, p, "game") /\ told' = told \cup {c}
        /\ pending' = With(PurgeExpired(pending), c, Entry(p))
  BY DEF OdbLink, With
<1>2. UNCHANGED <<links, discordPending, spent, loads>> BY DEF OdbLink
<1>3. /\ BridgeTypes /\ GameInv /\ pending \in Tables /\ c \in Codes
  BY DEF IInv, BridgeInv, GameInv, GameTypes, Undrawn
<1>4. DrawnKept /\ drawn'[c] = [who |-> p, where |-> "game"] BY <1>1, <1>3, DrawKeeps
<1>5. c \notin spent /\ pending[c] = None
  BY <1>1, <1>3 DEF IInv, ToldRegistered, Registered, GameOwned, Undrawn, GameInv, TablesFit, Fits
<1>6. Owned(pending, "game")'
  <2>1. Owned(pending, "game") BY DEF GameOwned
  <2> DEFINE t == pending'
  <2>2. t = With(PurgeExpired(pending), c, Entry(p)) BY <1>1
  <2> HIDE DEF t
  <2>3. \A d \in Codes : t[d] # None => drawn'[d] = [who |-> t[d].who, where |-> "game"]
    BY <1>3, <1>4, <2>1, <2>2, EntryOwned
  <2> QED BY <2>3 DEF Owned, t
<1>7. GameOwned' BY <1>1, <1>2, <1>3, <1>4, <1>6, TableKept DEF GameOwned, Own
<1>8. Live(pending') = Live(pending) \cup {Offered(c, p)} BY <1>1, <1>3, <1>5, LiveGrows
<1>9. Offering' = Offering \cup {Offered(c, p)} BY <1>2, <1>8, OfferingNext DEF Offering
<1> QED BY <1>2, <1>3, <1>5, <1>7, <1>9, IsOffer

\* A registration offers a code that nobody has used, or offers it again.
LEMMA RegisterRefines ==
    ASSUME IInv, GameOwned, NEW c \in Codes, NEW u \in People, RegisterDiscordCode(c, u),
           drawn[c] = [who |-> u, where |-> "discord"], c \notin told,
           UNCHANGED <<told, loads>>
    PROVE  GameOwned' /\ Promise!Next
<1>1. discordPending' = With(PurgeExpired(discordPending), c, Entry(u))
  BY DEF RegisterDiscordCode, With
<1>2. UNCHANGED <<links, pending, drawn, spent>> BY DEF RegisterDiscordCode
<1>3. /\ GameInv /\ discordPending \in Tables /\ DrawnKept
  BY <1>2 DEF IInv, GameInv, GameTypes, DrawnKept
<1>4. c \notin spent /\ (discordPending[c] # None => discordPending[c].who = u)
  <2>1. c \notin spent BY DEF GameOwned
  <2>2. ASSUME discordPending[c] # None PROVE discordPending[c].who = u
    <3>1. drawn[c] = [who |-> discordPending[c].who, where |-> "discord"]
      BY <2>2 DEF GameOwned, Owned
    <3>2. drawn[c].who = u OBVIOUS
    <3> QED BY <3>1, <3>2
  <2> QED BY <2>1, <2>2
<1>5. Owned(discordPending, "discord")'
  <2>1. Owned(discordPending, "discord") BY DEF GameOwned
  <2> DEFINE t == discordPending'
  <2>2. t = With(PurgeExpired(discordPending), c, Entry(u)) BY <1>1
  <2>3. drawn'[c] = [who |-> u, where |-> "discord"] BY <1>2
  <2> HIDE DEF t
  <2>4. \A d \in Codes : t[d] # None => drawn'[d] = [who |-> t[d].who, where |-> "discord"]
    BY <1>3, <2>1, <2>2, <2>3, EntryOwned
  <2> QED BY <2>4 DEF Owned, t
<1>6. GameOwned' BY <1>2, <1>3, <1>5, TableKept DEF GameOwned, Own
<1>7. Live(discordPending') = Live(discordPending) \cup {Offered(c, u)}
  BY <1>1, <1>3, <1>4, LiveGrows
<1>8. Offering' = Offering \cup {Offered(c, u)} BY <1>2, <1>7, OfferingNext DEF Offering
<1> QED BY <1>2, <1>4, <1>6, <1>8, IsOffer

\* An entry is taken from one table; the other has no offer of that code.
LEMMA ElsewhereDrawn ==
    ASSUME GameOwned, NEW c \in Codes, NEW p
    PROVE  /\ drawn[c].where = "game" => Offered(c, p) \notin Live(discordPending)
           /\ drawn[c].where = "discord" => Offered(c, p) \notin Live(pending)
<1>1. ASSUME NEW s, NEW where, Owned(s, where), Offered(c, p) \in Live(s)
      PROVE  drawn[c].where = where
  <2>1. PICK d \in Codes : Lives(s, d) /\ Offered(c, p) = Offered(d, s[d].who)
    BY <1>1, LiveMembers
  <2>2. d = c /\ s[c] # None BY <2>1 DEF Offered, Lives
  <2>3. drawn[c] = [who |-> s[c].who, where |-> where] BY <1>1, <2>2 DEF Owned
  <2> QED BY <2>3
<1>2. "game" # "discord" OBVIOUS
<1> QED BY <1>1, <1>2 DEF GameOwned

\* A confirmation takes the offer, finds nothing, or removes an entry that lapsed.
LEMMA ConfirmRefines ==
    ASSUME IInv, GameOwned, NEW c \in told, NEW u \in People, ConfirmLink(c, u),
           drawn[c] = [who |-> u, where |-> "game"], UNCHANGED <<told, loads>>
    PROVE  GameOwned' /\ [Promise!Next]_AbsVars
<1>0. GameInv /\ pending \in Tables /\ links \in Links /\ c \in Codes
  BY DEF IInv, GameInv, GameTypes, BridgeInv, BridgeTypes
<1>1. CASE pending[c] = None
  <2>1. UNCHANGED <<links, pending, discordPending, drawn, spent>>
    BY <1>1 DEF ConfirmLink, storage, history
  <2>2. DrawnKept BY <2>1 DEF DrawnKept
  <2>3. GameOwned' BY <1>0, <2>1, <2>2, TableKept DEF GameOwned, Own
  <2> QED BY <2>1, <2>3, OfferingNext DEF AbsVars, Offering
<1>2. CASE pending[c] # None
  <2>1. /\ pending' = With(pending, c, None) /\ UNCHANGED <<discordPending, drawn>>
        /\ IF Expired(pending[c]) THEN UNCHANGED <<links, spent>>
           ELSE links' = [links EXCEPT ![pending[c].who] = u] /\ spent' = spent \cup {c}
    BY <1>2 DEF ConfirmLink, With
  <2>2. DrawnKept BY <2>1 DEF DrawnKept
  <2>3. pending[c].who = u
    <3>1. drawn[c] = [who |-> pending[c].who, where |-> "game"]
      BY <1>0, <1>2 DEF GameOwned, Owned
    <3>2. drawn[c].who = u OBVIOUS
    <3> QED BY <3>1, <3>2
  <2>4. Owned(pending, "game")'
    <3>1. \A d \in Codes : pending'[d] # None => pending'[d] = pending[d] /\ pending[d] # None
      BY <1>0, <2>1 DEF Tables, With
    <3> QED BY <2>1, <3>1 DEF GameOwned, Owned
  <2>5. Own(links)' /\ spent' \subseteq told'
    BY <1>0, <2>1, <2>3 DEF GameOwned, Own, Links
  <2>6. GameOwned' BY <1>0, <2>1, <2>2, <2>4, <2>5, TableKept DEF GameOwned
  <2>7. CASE Expired(pending[c])
    <3>1. Live(pending') = Live(pending) BY <1>0, <1>2, <2>1, <2>7, LiveLoses
    <3> QED BY <2>1, <2>6, <2>7, <3>1, OfferingNext DEF AbsVars, Offering
  <2>8. CASE ~Expired(pending[c])
    <3>0. /\ Offered(c, pending[c].who) \in Live(pending)
          /\ Live(pending') = Live(pending) \ {Offered(c, pending[c].who)}
      BY <1>0, <1>2, <2>1, <2>8, LiveLoses
    <3>1. /\ Offered(c, u) \in Live(pending) /\ Live(pending') = Live(pending) \ {Offered(c, u)}
      BY <2>3, <3>0
    <3>2. Offered(c, u) \notin Live(discordPending) BY <1>0, ElsewhereDrawn
    <3>3. Offering' = Offering \ {Offered(c, u)} /\ Offered(c, u) \in Offering
      BY <2>1, <3>1, <3>2, OfferingNext DEF Offering
    <3>4. links' = [links EXCEPT ![u] = u] /\ spent' = spent \cup {c} BY <2>1, <2>3, <2>8
    <3> QED BY <2>6, <3>3, <3>4, IsTake
  <2> QED BY <2>7, <2>8
<1> QED BY <1>1, <1>2

\* So does /odb-discord-link.
LEMMA DiscordLinkRefines ==
    ASSUME IInv, GameOwned, NEW p \in People, OdbDiscordLink(p)
    PROVE  GameOwned' /\ [Promise!Next]_AbsVars
<1>1. PICK c \in told :
        /\ drawn[c] = [who |-> p, where |-> "discord"] /\ discordPending[c] # None
        /\ discordPending' = With(discordPending, c, None)
        /\ IF Expired(discordPending[c]) THEN UNCHANGED <<links, spent>>
           ELSE links' = [links EXCEPT ![p] = discordPending[c].who] /\ spent' = spent \cup {c}
  BY DEF OdbDiscordLink, With
<1>2. UNCHANGED <<pending, told, drawn, loads>> BY DEF OdbDiscordLink
<1>3. /\ GameInv /\ discordPending \in Tables /\ links \in Links /\ c \in Codes /\ DrawnKept
  BY <1>2 DEF IInv, GameInv, GameTypes, BridgeInv, BridgeTypes, DrawnKept
<1>4. discordPending[c].who = p
  <2>1. drawn[c] = [who |-> discordPending[c].who, where |-> "discord"]
    BY <1>1, <1>3 DEF GameOwned, Owned
  <2>2. drawn[c].who = p BY <1>1
  <2> QED BY <2>1, <2>2
<1>5. Owned(discordPending, "discord")'
  <2>1. \A d \in Codes : discordPending'[d] # None =>
          discordPending'[d] = discordPending[d] /\ discordPending[d] # None
    BY <1>1, <1>3 DEF Tables, With
  <2> QED BY <1>2, <2>1 DEF GameOwned, Owned
<1>6. Own(links)' /\ spent' \subseteq told'
  BY <1>1, <1>2, <1>3, <1>4 DEF GameOwned, Own, Links
<1>7. GameOwned' BY <1>2, <1>3, <1>5, <1>6, TableKept DEF GameOwned
<1>8. CASE Expired(discordPending[c])
  <2>1. Live(discordPending') = Live(discordPending) BY <1>1, <1>3, <1>8, LiveLoses
  <2> QED BY <1>1, <1>2, <1>7, <1>8, <2>1, OfferingNext DEF AbsVars, Offering
<1>9. CASE ~Expired(discordPending[c])
  <2>0. /\ Offered(c, discordPending[c].who) \in Live(discordPending)
        /\ Live(discordPending')
              = Live(discordPending) \ {Offered(c, discordPending[c].who)}
    BY <1>1, <1>3, <1>9, LiveLoses
  <2>1. /\ Offered(c, p) \in Live(discordPending)
        /\ Live(discordPending') = Live(discordPending) \ {Offered(c, p)}
    BY <1>4, <2>0
  <2>2. drawn[c].where = "discord" BY <1>1
  <2>3. Offered(c, p) \notin Live(pending) BY <1>3, <2>2, ElsewhereDrawn
  <2>4. Offering' = Offering \ {Offered(c, p)} /\ Offered(c, p) \in Offering
    BY <1>2, <2>1, <2>3, OfferingNext DEF Offering
  <2>5. links' = [links EXCEPT ![p] = p] /\ spent' = spent \cup {c} BY <1>1, <1>4, <1>9
  <2> QED BY <1>2, <1>7, <2>4, <2>5, IsTake
<1> QED BY <1>8, <1>9

\* An unlinking removes links.
LEMMA UnlinkRefines ==
    ASSUME IInv, GameOwned, NEW players, Unlink(players), UNCHANGED <<told, loads>>
    PROVE  GameOwned' /\ [Promise!Next]_AbsVars
<1>1. /\ links' = [p \in People |-> IF p \in players THEN None ELSE links[p]]
      /\ UNCHANGED <<pending, discordPending, drawn, spent>>
  BY DEF Unlink, history
<1>2. GameInv /\ DrawnKept BY <1>1 DEF IInv, DrawnKept
<1>3. GameOwned' BY <1>1, <1>2, TableKept DEF GameOwned, Own
<1>4. UNCHANGED Offering BY <1>1, OfferingNext DEF Offering
<1> QED BY <1>1, <1>3, <1>4, IsRemove

\* Offers lapse.
LEMMA TickRefines ==
    ASSUME IInv, GameOwned, Tick
    PROVE  GameOwned' /\ Promise!Next
<1>1. /\ pending' = Older(pending) /\ discordPending' = Older(discordPending)
      /\ UNCHANGED <<links, told, drawn, spent, loads>>
  BY DEF Tick, counts
<1>2. pending \in Tables /\ discordPending \in Tables BY DEF IInv, GameInv, GameTypes
<1>3. ASSUME NEW s \in Tables, NEW c \in Codes, Older(s)[c] # None
      PROVE  /\ s[c] # None /\ Older(s)[c].who = s[c].who
             /\ ~Expired(Older(s)[c]) => ~Expired(s[c])
  <2>1. s[c] # None BY <1>3, OlderTyped
  <2>2. Older(s)[c].who = s[c].who BY <2>1, OlderTyped
  <2>3. Older(s)[c].left = IF s[c].left < 0 THEN s[c].left ELSE s[c].left - 1
    BY <2>1, OlderTyped
  <2>4. ~Expired(Older(s)[c]) => ~Expired(s[c]) BY <2>3 DEF Expired
  <2> QED BY <2>1, <2>2, <2>4
<1>4. ASSUME NEW s \in Tables PROVE Live(Older(s)) \subseteq Live(s)
  BY <1>3, LiveShrinks
<1>5. Offering' \subseteq Offering BY <1>1, <1>2, <1>4, OfferingNext DEF Offering
<1>6. Owned(pending, "game")' /\ Owned(discordPending, "discord")'
  BY <1>1, <1>2, <1>3 DEF GameOwned, Owned
<1>7. GameOwned' BY <1>1, <1>6 DEF GameOwned, Own
<1> QED BY <1>1, <1>5, <1>7, IsLapse

LEMMA NewGameOwned ==
    /\ NewGame[2] = NoEntries /\ NewGame[3] = NoEntries /\ NewGame[4] = {}
    /\ NewGame[1] = [p \in People |-> None] /\ NewGame \in Links \X Tables \X Tables \X SUBSET Codes
BY DEF NewGame, NoEntries, Links, Tables

\* The save that is loaded holds what was offered and linked.
LEMMA LoadRefines ==
    ASSUME IInv, GameOwned, SaveOwned, Load
    PROVE  GameOwned' /\ SaveOwned' /\ Promise!Next
<1>1. PICK file \in {NewGame, saved} :
        /\ links' = file[1] /\ pending' = file[2] /\ discordPending' = file[3]
        /\ spent' = file[4] /\ saved' = file
  BY DEF Load
<1>2. UNCHANGED <<told, drawn>> /\ loads' = loads + 1 BY DEF Load
<1>3. /\ file \in Links \X Tables \X Tables \X SUBSET Codes
      /\ Owned(file[2], "game") /\ Owned(file[3], "discord") /\ Own(file[1])
      /\ file[4] \subseteq told
  <2>1. CASE file = saved BY <2>1 DEF IInv, SavedInv, SaveOwned
  <2>2. CASE file = NewGame
    BY <2>2, NewGameOwned DEF Owned, Own, NoEntries
  <2> QED BY <1>1, <2>1, <2>2
<1>4. GameOwned' /\ SaveOwned' BY <1>1, <1>2, <1>3 DEF GameOwned, SaveOwned, Owned, Own
<1>5. Promise!Load
  <2>1. pending' \in Tables /\ discordPending' \in Tables /\ spent' \subseteq Codes
    BY <1>1, <1>3
  <2>2. Offering' \subseteq Promise!Offers BY <2>1, LiveTyped, OfferingNext
  <2>3. Promise!OwnLinks(links') BY <1>1, <1>3 DEF Promise!OwnLinks, Own
  <2> QED BY <1>2, <2>1, <2>2, <2>3 DEF Promise!Load, Offering
<1> QED BY <1>4, <1>5 DEF Promise!Next

\* The other steps of the bridge and of the wire are none of the game's.
LEMMA OthersRefine ==
    ASSUME IInv, GameOwned, DrawnKept, told \subseteq told',
           UNCHANGED <<links, pending, discordPending, spent, loads>>
    PROVE  GameOwned' /\ UNCHANGED AbsVars
<1>1. GameOwned' BY TableKept DEF IInv, GameOwned, Own
<1> QED BY <1>1, OfferingNext DEF AbsVars, Offering

\* What a command that arrives does, late, twice or in time.
LEMMA ExecuteRefines ==
    ASSUME IInv, GameOwned, OneSender, ConfirmsOwn, Execute
    PROVE  GameOwned' /\ [Promise!Next]_AbsVars
<1> DEFINE e == Head(wire)
           k == e.command
<1>1. wire # <<>> /\ Perform(k) /\ UNCHANGED <<told, loads>> BY DEF Execute, counts
<1>2. BridgeInv BY DEF IInv
<1>3. e = wire[1] /\ 1 \in DOMAIN wire /\ e \in Packets BY <1>1, <1>2, TailedHead
<1>4. k \in RconCommands /\ e.from \in People BY <1>3 DEF Packets
<1>5. Proper(drawn, k, e.from) /\ OwnCode(k, e.from)
  BY <1>2, <1>3 DEF BridgeInv, WireProper, ConfirmsOwn
<1>6. \A c \in told : ~Carries(k, c) BY <1>3 DEF OneSender, Unsent, Sends
<1> HIDE DEF e
<1>7. CASE k.op = "confirm"
  <2>1. ConfirmLink(k.params[1], k.params[2]) BY <1>1, <1>7 DEF Perform
  <2>2. k.params[1] \in Codes /\ k.params[2] = e.from BY <1>5, <1>7 DEF Proper
  <2>3. k.params[1] \in told /\ drawn[k.params[1]] = [who |-> e.from, where |-> "game"]
    BY <1>5, <1>7 DEF OwnCode
  <2>4. PICK c \in told, u \in People : c = k.params[1] /\ u = k.params[2]
    BY <1>4, <2>2, <2>3
  <2>5. ConfirmLink(c, u) /\ drawn[c] = [who |-> u, where |-> "game"]
    BY <2>1, <2>2, <2>3, <2>4
  <2> QED BY <1>1, <2>5, ConfirmRefines
<1>8. CASE k.op = "register"
  <2>1. RegisterDiscordCode(k.params[1], k.params[2]) BY <1>1, <1>8 DEF Perform
  <2>2. /\ k.params[1] \in Codes /\ k.params[2] = e.from
        /\ drawn[k.params[1]] = [who |-> e.from, where |-> "discord"]
    BY <1>5, <1>8 DEF Proper
  <2>3. k.params[1] \notin told BY <1>6, <1>8 DEF Carries
  <2>4. PICK c \in Codes, u \in People : c = k.params[1] /\ u = k.params[2]
    BY <1>4, <2>2
  <2>5. /\ RegisterDiscordCode(c, u) /\ drawn[c] = [who |-> u, where |-> "discord"]
        /\ c \notin told
    BY <2>1, <2>2, <2>3, <2>4
  <2> QED BY <1>1, <2>5, RegisterRefines
<1>9. CASE k.op \in {"unlink-discord", "unlink-player", "unlink-all"}
  <2>1. \E players : Unlink(players) BY <1>1, <1>9 DEF Perform
  <2> QED BY <1>1, <2>1, UnlinkRefines
<1> QED BY <1>4, <1>7, <1>8, <1>9 DEF RconCommands

LEMMA InitRefines == Init => RefInv /\ Promise!Init
<1> SUFFICES ASSUME Init PROVE RefInv /\ Promise!Init OBVIOUS
<1>1. IInv BY InitInv
<1>2. DOMAIN wire = {} /\ \A h \in Handlers : request[h] = Idle
  <2>1. DOMAIN <<>> = {} OBVIOUS
  <2> QED BY <2>1 DEF Init
<1>3. OneSender BY <1>2, IdleTyped DEF Init, OneSender, Busy
<1>4. ConfirmsOwn BY <1>2 DEF ConfirmsOwn
<1>5. /\ \A c \in Codes : pending[c] = None /\ discordPending[c] = None
      /\ \A p \in People : links[p] = None
      /\ spent = {} /\ loads = 0
  BY DEF Init, NoEntries
<1>6. GameOwned BY <1>5 DEF GameOwned, Owned, Own
<1>7. SaveOwned
  <2>1. saved = NewGame BY DEF Init
  <2> QED BY <2>1, NewGameOwned DEF SaveOwned, Owned, Own, NoEntries
<1>8. Offering = {} BY <1>5 DEF Offering, Live
<1>9. Promise!Init BY <1>5, <1>8 DEF Init, Promise!Init, Offering
<1> QED BY <1>1, <1>3, <1>4, <1>6, <1>7, <1>9 DEF RefInv

LEMMA NextRefines ==
    ASSUME RefInv, [Next]_vars
    PROVE  RefInv' /\ [Promise!Next]_AbsVars
<1>0. IInv /\ OneSender /\ ConfirmsOwn /\ GameOwned /\ SaveOwned /\ SavedTyped
  BY DEF RefInv, IInv, SavedInv, SavedTyped
<1>1. IInv' /\ BridgeInv' /\ BridgeInv BY <1>0, NextInv DEF IInv
<1>2. CASE \E h \in Handlers : Handle(h)
  <2>1. PICK h \in Handlers : Handle(h) BY <1>2
  <2>2. OneSender' /\ ConfirmsOwn' BY <1>0, <1>1, <2>1, HandleSend
  <2>3. UNCHANGED <<links, pending, discordPending, spent, loads, saved>>
    BY <2>1 DEF Handle, Receive, Send, DialFails, Retry, GiveUp, Return, Tell,
                storage, history, counts
  <2>4. DrawnKept /\ told \subseteq told'
    <3>1. CASE Receive(h) BY <1>1, <3>1, ReceiveInv
    <3>2. CASE ~Receive(h)
      BY <2>1, <3>2 DEF Handle, Send, DialFails, Retry, GiveUp, Return, Tell, history, DrawnKept
    <3> QED BY <3>1, <3>2
  <2>5. GameOwned' /\ UNCHANGED AbsVars BY <1>0, <2>3, <2>4, OthersRefine
  <2>6. SaveOwned' BY <1>0, <2>3, <2>4, SaveOwnedKept
  <2> QED BY <1>1, <2>2, <2>5, <2>6 DEF RefInv
<1>3. CASE BridgeRestarts \/ Lose \/ Save \/ UNCHANGED vars
  <2>1. UNCHANGED <<links, pending, discordPending, spent, loads, drawn, told>>
    BY <1>3 DEF BridgeRestarts, Lose, Save, vars, storage, history, counts
  <2>2. DrawnKept BY <2>1 DEF DrawnKept
  <2>3. GameOwned' /\ UNCHANGED AbsVars BY <1>0, <2>1, <2>2, OthersRefine
  <2>4. SaveOwned'
    <3>1. CASE UNCHANGED saved BY <1>0, <2>1, <2>2, <3>1, SaveOwnedKept
    <3>2. CASE saved' = <<links, pending, discordPending, spent>>
      BY <2>1, <2>3, <3>2 DEF GameOwned, SaveOwned, Owned, Own
    <3> QED BY <1>3, <3>1, <3>2 DEF BridgeRestarts, Lose, Save, vars
  <2>5. OneSender' /\ ConfirmsOwn'
    <3>1. CASE BridgeRestarts
      <4>1. /\ wire' = Abandoned(Handlers) /\ request' = [h \in Handlers |-> Idle]
        BY <3>1 DEF BridgeRestarts
      <4> QED BY <1>0, <1>1, <2>1, <4>1, StopSend
    <3>2. CASE Lose BY <1>0, <1>1, <3>2, ExecuteSend
    <3>3. CASE Save \/ UNCHANGED vars
      <4>1. UNCHANGED <<wire, request>> BY <3>3 DEF Save, vars, bridge
      <4> QED BY <1>0, <2>1, <2>2, <4>1, PlaySend
    <3> QED BY <1>3, <3>1, <3>2, <3>3
  <2> QED BY <1>1, <2>3, <2>4, <2>5 DEF RefInv
<1>4. CASE Execute
  <2>1. GameOwned' /\ [Promise!Next]_AbsVars BY <1>0, <1>4, ExecuteRefines
  <2>2. OneSender' /\ ConfirmsOwn' BY <1>0, <1>1, <1>4, ExecuteSend
  <2>3. UNCHANGED <<saved, told, drawn>>
    <3>1. Perform(Head(wire).command) /\ wire # <<>> /\ UNCHANGED <<saved, told>>
      BY <1>4 DEF Execute
    <3>2. Head(wire).command \in RconCommands BY <1>1, <3>1, TailedHead DEF Packets
    <3> QED BY <3>1, <3>2, PerformKeeps
  <2>4. SaveOwned' BY <1>0, <2>3, SaveOwnedKept DEF DrawnKept
  <2> QED BY <1>1, <2>1, <2>2, <2>4 DEF RefInv
<1>5. CASE \E p \in People : Play(p)
  <2>1. PICK p \in People : Play(p) BY <1>5
  <2>2. UNCHANGED <<saved, wire, request, loads>>
    BY <2>1 DEF Play, OdbLink, OdbDiscordLink, OdbUnlink, bridge
  <2>3. /\ GameOwned' /\ [Promise!Next]_AbsVars
        /\ DrawnKept /\ told \subseteq told' /\ \A c \in told' \ told : c \in Undrawn
    <3>1. CASE OdbLink(p)
      <4>1. PICK c \in Undrawn : DrawFor(c, p, "game") /\ told' = told \cup {c}
        BY <3>1 DEF OdbLink
      <4>2. DrawnKept BY <1>1, <4>1, DrawKeeps DEF BridgeInv
      <4> QED BY <1>0, <3>1, <4>1, <4>2, LinkRefines
    <3>2. CASE OdbDiscordLink(p)
      <4>1. UNCHANGED <<told, drawn>> BY <3>2 DEF OdbDiscordLink
      <4> QED BY <1>0, <3>2, <4>1, DiscordLinkRefines DEF DrawnKept
    <3>3. CASE OdbUnlink(p)
      <4>1. Unlink({p}) /\ UNCHANGED <<told, loads, drawn>>
        BY <3>3 DEF OdbUnlink, Unlink, history
      <4> QED BY <1>0, <4>1, UnlinkRefines DEF DrawnKept
    <3> QED BY <2>1, <3>1, <3>2, <3>3 DEF Play
  <2>4. OneSender' /\ ConfirmsOwn' BY <1>0, <2>2, <2>3, PlaySend
  <2>5. SaveOwned' BY <1>0, <2>2, <2>3, SaveOwnedKept
  <2> QED BY <1>1, <2>3, <2>4, <2>5 DEF RefInv
<1>6. CASE Tick
  <2>1. GameOwned' /\ Promise!Next BY <1>0, <1>6, TickRefines
  <2>2. UNCHANGED <<saved, wire, request, told, drawn>> BY <1>6 DEF Tick, bridge
  <2>3. DrawnKept BY <2>2 DEF DrawnKept
  <2>4. OneSender' /\ ConfirmsOwn' BY <1>0, <2>2, <2>3, PlaySend
  <2>5. SaveOwned' BY <1>0, <2>2, <2>3, SaveOwnedKept
  <2> QED BY <1>1, <2>1, <2>4, <2>5 DEF RefInv
<1>7. CASE Load
  <2>1. GameOwned' /\ SaveOwned' /\ Promise!Next BY <1>0, <1>7, LoadRefines
  <2>2. wire' = <<>> /\ UNCHANGED <<request, told, drawn>> BY <1>7 DEF Load, bridge
  <2>3. DrawnKept BY <2>2 DEF DrawnKept
  <2>4. OneSender' /\ ConfirmsOwn' BY <1>0, <2>2, <2>3, PlaySend
  <2> QED BY <1>1, <2>1, <2>4 DEF RefInv
<1> QED BY <1>2, <1>3, <1>4, <1>5, <1>6, <1>7 DEF Next

\* Linking by code implements OneTimeCodes: whatever is repeated, lost, late or restarted,
\* a code makes one link at most, in its time, between the player and the user of the
\* person it was drawn for (control.lua:299-406, main.go:424-443).
THEOREM ImplementsCodes == Spec => ImplementsOneTimeCodes
<1>1. RefInv /\ [Next]_vars => RefInv' /\ [Promise!Next]_AbsVars BY NextRefines
<1>2. [Promise!Next]_AbsVars =>
        [Promise!Next]_<<Live(pending) \cup Live(discordPending), links, spent, loads>>
  BY DEF AbsVars, Offering
<1> QED BY InitRefines, <1>1, <1>2, PTL DEF Spec, ImplementsOneTimeCodes, Promise!Spec

=============================================================================
