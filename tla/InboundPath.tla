------------------------------ MODULE InboundPath ------------------------------
(***************************************************************************)
(* Discord -> game: a message is cut into /odb-incoming commands            *)
(* (cmd/bridge/inbound.go), which go one by one through the RCON client     *)
(* that all callers share (internal/rcon/rcon.go) and are printed in the    *)
(* game's chat (companion-mod/control.lua).                                 *)
(*                                                                          *)
(* The handler of every message runs in a goroutine of its own.  A message  *)
(* is the sequence of the sizes, in bytes, that its runes have in JSON, and  *)
(* the size of a command without it, which the author's name decides; a      *)
(* command is the message and the number of the piece it carries.            *)
(***************************************************************************)
EXTENDS Integers, Sequences, FiniteSets, SequencesExt

CONSTANTS
    Messages, None,
    Inputs,         \* what each message may be
    MaxCommandLen,  \* rcon.MaxCommandLen
    MaxDials        \* bound: how many connections are made

ASSUME NoneAssumption == None \notin Messages \cup Nat
ASSUME SizesAssumption ==
    /\ MaxCommandLen \in Nat /\ MaxDials \in Nat
    /\ \A m \in Messages : Inputs[m] \subseteq [overhead : Nat, runes : Seq(Nat \ {0})]

-----------------------------------------------------------------------------
(* incomingCommands.                                                        *)

Sum(runes) == FoldSeq(LAMBDA a, b : a + b, 0, runes)
Fits(input, runes) == input.overhead + Sum(runes) <= MaxCommandLen
Budget(input) == MaxCommandLen - input.overhead

\* How many runes the next piece takes: the budget is only a first guess.
Taken(input, runes) ==
    LET fitting == {n \in 0 .. Len(runes) :
                        n <= Budget(input) /\ Fits(input, SubSeq(runes, 1, n))}
    IN CHOOSE n \in fitting : \A other \in fitting : other <= n

\* The pieces of a message; a rune that fits nowhere ends them.
Pieces(input) ==
    LET length == Len(input.runes)
        from[i \in 1 .. length + 1] ==
            LET left == SubSeq(input.runes, i, length)
                n == Taken(input, left)
            IN IF n = 0 THEN <<>> ELSE <<SubSeq(left, 1, n)>> \o from[i + n]
    IN from[1]

\* Faulty variant: the growth of the text by its escapes is not looked at.
IncomingCommandsUnescaped(input) ==
    LET n == Budget(input) \div 2
    IN IF Fits(input, input.runes) \/ n <= 0 \/ Len(input.runes) <= n
       THEN <<input.runes>>
       ELSE <<SubSeq(input.runes, 1, n), SubSeq(input.runes, n + 1, Len(input.runes))>>

IncomingCommands(input) ==
    IF Fits(input, input.runes) \/ Budget(input) <= 0 THEN <<input.runes>>
    ELSE Pieces(input)

-----------------------------------------------------------------------------
VARIABLES
    input,          \* each message, once it arrived
    cmds,           \* what incomingCommands returned for it: the text of each piece
    next,           \* the piece each message's handler executes; 0 before it starts
    holder,         \* the handler that holds Client.mu
    stage,          \* where that handler is in Execute
    attempt,        \* the first or the second conn.Execute
    conn,           \* Client.conn, a number or None
    dead,           \* conn is set but broken
    dials,          \* how many connections have been made
    wire,           \* the commands sent and not yet executed by the game
    replies,        \* the commands whose reply waits on conn
    chat,           \* the commands whose text was printed in the game
    late,           \* history: the command whose reply may still come on conn, after the
                    \* handler has gone on; empty until a retry has failed on it
    acked           \* history: the commands whose Execute returned no error, read with
                    \* no reply outstanding

client == <<holder, stage, attempt, conn, dead, dials, late>>
vars == <<input, cmds, next, client, wire, replies, chat, acked>>

Init ==
    /\ input \in [Messages -> {[overhead |-> 0, runes |-> <<>>]}]
    /\ cmds = [m \in Messages |-> <<>>]
    /\ next = [m \in Messages |-> 0]
    /\ holder = None /\ stage = "none" /\ attempt = 1
    /\ conn = None /\ dead = FALSE /\ dials = 0 /\ late = {}
    /\ wire = <<>> /\ replies = <<>> /\ chat = <<>> /\ acked = {}

Command(m) == [msg |-> m, n |-> next[m]]
Runes(c) == cmds[c.msg][c.n]
TextFits(c) == Fits(input[c.msg], Runes(c))

\* handleMessage passes the message of a relayed channel to onInbound.
Receive(m) ==
    /\ next[m] = 0
    /\ \E in \in Inputs[m] :
          /\ input' = [input EXCEPT ![m] = in]
          /\ cmds' = [cmds EXCEPT ![m] = IncomingCommands(in)]
    /\ next' = [next EXCEPT ![m] = 1]
    /\ UNCHANGED <<client, wire, replies, chat, acked>>

\* The loop of onInbound calls Execute with the next command, which locks.
Lock(m) ==
    /\ holder = None
    /\ next[m] \in 1 .. Len(cmds[m])
    /\ holder' = m /\ attempt' = 1
    /\ stage' = IF conn = None THEN "dial" ELSE "send"
    /\ UNCHANGED <<input, cmds, next, conn, dead, dials, late, wire, replies, chat, acked>>

\* Execute returns and unlocks; the loop goes on in any case, an error is logged.
Return(ok) ==
    /\ holder' = None /\ stage' = "none"
    /\ next' = [next EXCEPT ![holder] = @ + 1]
    /\ acked' = IF ok /\ late = {} THEN acked \cup {Command(holder)} ELSE acked

Dial ==
    /\ stage = "dial"
    /\ dials < MaxDials
    /\ dials' = dials + 1 /\ conn' = dials + 1 /\ dead' = FALSE /\ late' = {}
    /\ replies' = <<>>
    /\ stage' = "send"
    /\ UNCHANGED <<input, cmds, next, holder, attempt, wire, chat, acked>>

\* Faulty variant: the early return leaves the mutex locked.
DialFailsKeepsLock ==
    /\ stage = "dial"
    /\ stage' = "none"
    /\ next' = [next EXCEPT ![holder] = @ + 1]
    /\ UNCHANGED <<input, cmds, holder, attempt, conn, dead, dials, late, wire, replies, chat,
                   acked>>

DialFails ==
    /\ stage = "dial"
    /\ Return(FALSE)
    /\ UNCHANGED <<input, cmds, attempt, conn, dead, dials, late, wire, replies, chat>>

\* gorcon rejects a command that is too long before it touches the connection.
TooLong ==
    /\ stage = "send"
    /\ ~TextFits(Command(holder))
    /\ Return(FALSE)
    /\ UNCHANGED <<input, cmds, attempt, conn, dead, dials, late, wire, replies, chat>>

\* conn.Execute writes the command; on a broken connection it gets nowhere.
Send ==
    /\ stage = "send"
    /\ TextFits(Command(holder))
    /\ wire' \in {wire} \cup
            (IF dead THEN {} ELSE {Append(wire, [conn |-> conn, cmd |-> Command(holder)])})
    /\ stage' = "read"
    /\ UNCHANGED <<input, cmds, next, holder, attempt, conn, dead, dials, late, replies, chat,
                   acked>>

\* It reads a reply: the next one on the connection.  When one was outstanding, that
\* was it, and the command's own is outstanding now.
ReadReply ==
    /\ stage = "read"
    /\ replies # <<>>
    /\ replies' = Tail(replies)
    /\ Return(TRUE)
    /\ late' = IF late = {} THEN {} ELSE {Command(holder)}
    /\ UNCHANGED <<input, cmds, attempt, conn, dead, dials, wire, chat>>

\* Faulty variant: the retry uses the connection that failed.
RetrySameConn ==
    /\ stage = "read" /\ attempt = 1
    /\ attempt' = 2 /\ stage' = "send"
    /\ UNCHANGED <<input, cmds, next, holder, conn, dead, dials, late, wire, replies, chat, acked>>

\* The write or the read fails: the connection is closed and dialed again.
Retry ==
    /\ stage = "read" /\ attempt = 1
    /\ attempt' = 2 /\ stage' = "dial"
    /\ conn' = None /\ dead' = FALSE /\ late' = {} /\ replies' = <<>>
    /\ UNCHANGED <<input, cmds, next, holder, dials, wire, chat, acked>>

\* Faulty variant: it is retried again.
RetryFailsAgain ==
    /\ stage = "read" /\ attempt = 2
    /\ stage' = "dial"
    /\ conn' = None /\ dead' = FALSE /\ late' = {} /\ replies' = <<>>
    /\ UNCHANGED <<input, cmds, next, holder, attempt, dials, wire, chat, acked>>

\* The retry fails as well.  The connection is kept, broken or, after a timeout,
\* alive.
RetryFails ==
    /\ stage = "read" /\ attempt = 2
    /\ Return(FALSE)
    /\ \/ dead' = TRUE /\ replies' = <<>> /\ UNCHANGED late
       \/ late' = {Command(holder)} /\ UNCHANGED <<dead, replies>>
    /\ UNCHANGED <<input, cmds, attempt, conn, dials, wire, chat>>

\* The game executes a command, in order on each connection; handle_incoming prints
\* its text, and the reply finds the connection open or not.
PrintLine(i) ==
    /\ \A j \in 1 .. i - 1 : wire[j].conn # wire[i].conn
    /\ chat' = Append(chat, wire[i].cmd)
    /\ replies' = IF wire[i].conn = conn /\ ~dead THEN Append(replies, wire[i].cmd)
                  ELSE replies
    /\ wire' = RemoveAt(wire, i)
    /\ UNCHANGED <<input, cmds, next, client, acked>>

\* The connection breaks, or the game stops, before it reads the command.
Lose(i) ==
    /\ wire' = RemoveAt(wire, i)
    /\ UNCHANGED <<input, cmds, next, client, replies, chat, acked>>

ExecuteStep == Dial \/ DialFails \/ TooLong \/ Send \/ ReadReply \/ Retry \/ RetryFails

Next == \/ \E m \in Messages : Receive(m) \/ Lock(m)
        \/ ExecuteStep
        \/ \E i \in DOMAIN wire : PrintLine(i) \/ Lose(i)

Spec == Init /\ [][Next]_vars

\* The I/O of Execute returns or times out, and Go's mutex starves nobody.
FairSpec == Spec /\ WF_vars(ExecuteStep)
                 /\ \A m \in Messages : SF_vars(Lock(m))

-----------------------------------------------------------------------------
IsCommand(c) == c.msg \in Messages /\ c.n \in DOMAIN cmds[c.msg]

\* Types; the number of attempts is in the lines of the chat.
TypeOK ==
    /\ \A m \in Messages :
          /\ input[m].overhead \in Nat /\ input[m].runes \in Seq(Nat)
          /\ cmds[m] \in Seq(Seq(Nat))
          /\ next[m] \in 0 .. Len(cmds[m]) + 1
    /\ holder \in Messages \cup {None}
    /\ stage \in {"none", "dial", "send", "read"} /\ (stage = "none" <=> holder = None)
    /\ attempt \in {1, 2} /\ dead \in BOOLEAN /\ dials \in 0 .. MaxDials
    /\ conn \in (1 .. dials) \cup {None}
    /\ \A c \in late : IsCommand(c) /\ late = {c}
    /\ stage \in {"send", "read"} \/ late # {} => conn # None
    /\ \A i \in DOMAIN wire : wire[i].conn \in 1 .. dials /\ IsCommand(wire[i].cmd)
    /\ \A i \in DOMAIN replies : IsCommand(replies[i])
    /\ \A i \in DOMAIN chat : IsCommand(chat[i])
    /\ \A c \in acked : IsCommand(c)

Printed(c) == {i \in DOMAIN chat : chat[i] = c}
First(c) == CHOOSE i \in Printed(c) : \A j \in Printed(c) : i <= j

\* The reply that Execute is about to read is that of its own command or, after a
\* retry failed on the connection, that of the one command before it: the mutex and the
\* closing of a connection after its first failure keep requests and replies, which
\* carry no identity, in step but for one (rcon.go:35-55).
RepliesInStep ==
    stage = "read" => \A i \in DOMAIN replies : replies[i] \in late \cup {Command(holder)}

\* A command that Execute reports as done, with no reply outstanding from before, is in
\* the chat, and before every later piece of its message, whatever failed, was sent
\* again or was executed late.
AckedInOrder ==
    \A c \in acked :
        /\ Printed(c) # {}
        /\ \A i \in DOMAIN chat :
              chat[i].msg = c.msg /\ chat[i].n > c.n => First(c) < i

\* A retry may print a line twice, never more often (rcon.go:28-29).
AtMostTwice == \A i \in DOMAIN chat : \E j \in DOMAIN chat :
                   Printed(chat[i]) \subseteq {i, j}

\* inbound.go:10-17: a long message is split, "instead of losing content": when no
\* call failed, the lines in the chat, repeats aside, are the whole message, as long
\* as the name leaves room for the largest of its runes.
Splittable(m) == \A i \in DOMAIN input[m].runes :
    input[m].overhead + input[m].runes[i] <= MaxCommandLen

WorkedOff(m) == next[m] > Len(cmds[m])
Delivered(m) == \A n \in DOMAIN cmds[m] :
    [msg |-> m, n |-> n] \in acked \/ ~Fits(input[m], cmds[m][n])

\* The lines of a message, repeats aside, and a set of line numbers in their order.
Lines(m) == {i \in DOMAIN chat : chat[i].msg = m /\ First(chat[i]) = i}
InOrder(S) == CHOOSE s \in [1 .. Cardinality(S) -> S] :
                  \A j, k \in DOMAIN s : j < k => s[j] < s[k]

MessageIsWhole ==
    \A m \in Messages : Splittable(m) /\ WorkedOff(m) /\ Delivered(m) =>
            LET lines == InOrder(Lines(m))
            IN FlattenSeq([k \in DOMAIN lines |-> Runes(chat[lines[k]])]) = input[m].runes

\* Every message that was received is worked off, in spite of failing calls and of
\* the handlers that compete for the client.
EventuallyWorkedOff ==
    \A m \in Messages : next[m] = 1 ~> WorkedOff(m)
=============================================================================
