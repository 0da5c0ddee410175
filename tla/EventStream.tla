----------------------------- MODULE EventStream -----------------------------
(***************************************************************************)
(* The event path from the companion mod to the bridge: write_event in      *)
(* companion-mod/control.lua writes JSON lines to events.jsonl, and the     *)
(* Tailer of internal/transport polls that file and hands each complete     *)
(* line to onLine (cmd/bridge/main.go).                                     *)
(*                                                                          *)
(* A byte is its stamp: the number of bytes the mod produced before it,     *)
(* plus one.  LineEnds is the set of stamps that are newlines, so the n-th  *)
(* event is the run of stamps up to the n-th member of LineEnds.  Stamps    *)
(* make lost, repeated, reordered and torn lines all visible without        *)
(* looking at the text.                                                     *)
(***************************************************************************)
EXTENDS Integers, Sequences

CONSTANTS
    LineEnds,       \* the stamps that are newlines
    MaxStarts,      \* bound: how often the bridge process is started
    RegrowthRace,   \* may a new session's file outgrow the old offset unseen?
    StatMayFail     \* may the very first Stat of a bridge run fail?

ASSUME LineEndsAssumption == LineEnds \subseteq Nat \ {0}
ASSUME MaxStartsAssumption == MaxStarts \in Nat
ASSUME SwitchesAssumption == RegrowthRace \in BOOLEAN /\ StatMayFail \in BOOLEAN

VARIABLES
    file,           \* events.jsonl, a sequence of stamps
    next,           \* the stamp of the next byte the mod produces
    writing,        \* write_file has been called and has not written its newline
    truncated,      \* truncated_this_session of control.lua
    pc,             \* where the Tailer's loop is
    offset,         \* Tailer.Run: how much of the file has been read
    buf,            \* Tailer.Run: the bytes read and not yet emitted
    lines,          \* history: the lines handed to onLine, over all bridge runs
    starts,         \* history: the value of next when each bridge run started
    clean,          \* history: Len(lines) when a first Stat last failed
    lastRead        \* history: the last stamp read since then

gameVars   == <<file, next, writing, truncated>>
tailerVars == <<pc, offset, buf>>
history    == <<lines, starts, clean, lastRead>>
vars       == <<gameVars, tailerVars, history>>

-----------------------------------------------------------------------------
(* Sequence helpers, written as functions the provers can expand.           *)

Stamps(from, to) == [i \in 1 .. (to - from + 1) |-> from + i - 1]
UpTo(s, n) == [i \in 1 .. n |-> s[i]]
From(s, n) == IF n >= Len(s) THEN <<>>
                             ELSE [i \in 1 .. (Len(s) - n) |-> s[n + i]]
LastOr(s, default) == IF s = <<>> THEN default ELSE s[Len(s)]

\* The newline that ends the line the next byte belongs to.
IsLineEnd(e) == /\ e \in LineEnds /\ e >= next
                /\ \A f \in LineEnds : f >= next => e <= f

-----------------------------------------------------------------------------
Init ==
    /\ file = <<>> /\ next = 1 /\ writing = FALSE /\ truncated = FALSE
    /\ pc = "down" /\ offset = 0 /\ buf = <<>>
    /\ lines = <<>> /\ starts = <<>> /\ clean = 0 /\ lastRead = 0

-----------------------------------------------------------------------------
(* The mod.  The game is single threaded: one write_event at a time.        *)

\* write_event: the first write of a session overwrites the file.
WriteEvent ==
    /\ ~writing
    /\ \E e \in LineEnds : IsLineEnd(e)
    /\ writing' = TRUE
    /\ file' = IF truncated THEN file ELSE <<>>
    /\ truncated' = TRUE
    /\ UNCHANGED <<next, tailerVars, history>>

\* The usual pace: a file that was overwritten stays shorter than the Tailer's
\* offset until a poll has seen it.
NoticedInTime(newLen) ==
    pc = "down" \/ offset <= Len(file) \/ newLen < offset

\* The bytes of a line reach the file in one or several pieces.
Flush ==
    /\ writing
    /\ \E e \in LineEnds :
        /\ IsLineEnd(e)
        /\ \E k \in next .. e :
            /\ RegrowthRace \/ NoticedInTime(Len(file) + k - next + 1)
            /\ file' = file \o Stamps(next, k)
            /\ next' = k + 1
            /\ writing' = (k # e)
    /\ UNCHANGED <<truncated, tailerVars, history>>

\* The game stops, or crashes in the middle of a line, and a session begins:
\* the Lua local is FALSE again, and the rest of a cut line is never written.
NewSession ==
    /\ truncated
    /\ truncated' = FALSE
    /\ writing' = FALSE
    /\ IF writing /\ next - 1 \notin LineEnds
       THEN \E e \in LineEnds : IsLineEnd(e) /\ next' = e + 1
       ELSE UNCHANGED next
    /\ UNCHANGED <<file, tailerVars, history>>

-----------------------------------------------------------------------------
(* The Tailer.                                                              *)

\* Run: begin at the end of the file if the first Stat answers, else at 0.
StartAt(o) ==
    /\ pc = "down"
    /\ Len(starts) < MaxStarts
    /\ pc' = "poll" /\ offset' = o /\ buf' = <<>>
    /\ starts' = Append(starts, next)
    /\ UNCHANGED <<gameVars, lines>>

\* Faulty variant: every run reads the file from its beginning.
StartFromZero ==
    /\ StartAt(0)
    /\ UNCHANGED <<clean, lastRead>>

Start ==
    /\ StartAt(Len(file))
    /\ UNCHANGED <<clean, lastRead>>

StartStatFails ==
    /\ StatMayFail
    /\ StartAt(0)
    /\ clean' = Len(lines)
    /\ lastRead' = 0

\* Faulty variants of Poll: the partial line survives a truncation; a
\* truncation goes unnoticed.
PollKeepsBuf ==
    /\ pc = "poll"
    /\ offset' = IF Len(file) < offset THEN 0 ELSE offset
    /\ pc' = IF Len(file) = offset' THEN "poll" ELSE "read"
    /\ UNCHANGED <<gameVars, buf, history>>

PollIgnoresShrink ==
    /\ pc = "poll"
    /\ pc' = IF Len(file) <= offset THEN "poll" ELSE "read"
    /\ UNCHANGED <<gameVars, offset, buf, history>>

\* One tick whose Stat answers: a shorter file is a new session.
Poll ==
    /\ pc = "poll"
    /\ LET shrunk == Len(file) < offset
           o      == IF shrunk THEN 0 ELSE offset
       IN /\ offset' = o
          /\ buf' = IF shrunk THEN <<>> ELSE buf
          /\ pc' = IF Len(file) = o THEN "poll" ELSE "read"
    /\ UNCHANGED <<gameVars, history>>

\* Faulty variant: the offset does not move past what was read.
ReadKeepsOffset ==
    /\ pc = "read"
    /\ buf' = buf \o From(file, offset)
    /\ lastRead' = LastOr(From(file, offset), lastRead)
    /\ pc' = "emit"
    /\ UNCHANGED <<gameVars, offset, lines, starts, clean>>

\* Read(offset): everything from offset to the end of the file as it is now.
Read ==
    /\ pc = "read"
    /\ LET data == From(file, offset)
       IN /\ offset' = offset + Len(data)
          /\ buf' = buf \o data
          /\ lastRead' = LastOr(data, lastRead)
    /\ pc' = "emit"
    /\ UNCHANGED <<gameVars, lines, starts, clean>>

ReadFails ==
    /\ pc = "read"
    /\ pc' = "poll"
    /\ UNCHANGED <<gameVars, offset, buf, history>>

\* emitLines, one complete line a step: a blank line is dropped.
EmitLine ==
    /\ pc = "emit"
    /\ \E i \in 1 .. Len(buf) :
        /\ buf[i] \in LineEnds
        /\ \A j \in 1 .. (i - 1) : buf[j] \notin LineEnds
        /\ lines' = IF i = 1 THEN lines ELSE Append(lines, UpTo(buf, i - 1))
        /\ buf' = From(buf, i)
    /\ UNCHANGED <<gameVars, pc, offset, starts, clean, lastRead>>

\* Faulty variant: the partial line after the last newline is thrown away.
EmitDoneDropsRest ==
    /\ pc = "emit"
    /\ \A i \in 1 .. Len(buf) : buf[i] \notin LineEnds
    /\ pc' = "poll" /\ buf' = <<>>
    /\ UNCHANGED <<gameVars, offset, history>>

EmitDone ==
    /\ pc = "emit"
    /\ \A i \in 1 .. Len(buf) : buf[i] \notin LineEnds
    /\ pc' = "poll"
    /\ UNCHANGED <<gameVars, offset, buf, history>>

\* The bridge stops or crashes anywhere in the loop; nothing is persisted.
BridgeStops ==
    /\ pc # "down"
    /\ pc' = "down"
    /\ UNCHANGED <<gameVars, offset, buf, history>>

-----------------------------------------------------------------------------
Game   == WriteEvent \/ Flush \/ NewSession
Tailer == Start \/ StartStatFails \/ Poll \/ Read \/ ReadFails
              \/ EmitLine \/ EmitDone \/ BridgeStops
Next   == Game \/ Tailer

Spec == Init /\ [][Next]_vars

\* The ticker keeps firing, emitLines terminates, write_file returns, and of
\* endlessly many reads of a reachable file one succeeds.
Fairness ==
    /\ WF_vars(Flush)
    /\ WF_vars(Poll)
    /\ WF_vars(EmitLine)
    /\ WF_vars(EmitDone)
    /\ SF_vars(Read)

FairSpec == Spec /\ Fairness

-----------------------------------------------------------------------------
(* What an event line is, for the properties.                               *)

\* json.Unmarshal accepts a line exactly when it is one whole event.
Whole(l) ==
    /\ l # <<>>
    /\ l[1] = 1 \/ l[1] - 1 \in LineEnds
    /\ l[Len(l)] + 1 \in LineEnds
    /\ \A i \in 1 .. Len(l) : l[i] = l[1] + i - 1 /\ l[i] \notin LineEnds

\* The first byte of the line that newline e ends.
LineStart(e) ==
    CHOOSE s \in 1 .. e :
        /\ s = 1 \/ s - 1 \in LineEnds
        /\ \A x \in s .. (e - 1) : x \notin LineEnds

\* Newline e is in the file and its whole line was written in this bridge run.
Pending(e) ==
    /\ pc # "down"
    /\ LineStart(e) >= LastOr(starts, 1)
    /\ \E p \in 1 .. Len(file) : file[p] = e

Emitted(e) == \E n \in 1 .. Len(lines) :
                  Whole(lines[n]) /\ lines[n][Len(lines[n])] + 1 = e

-----------------------------------------------------------------------------
TypeOK ==
    /\ file \in Seq(Nat) /\ buf \in Seq(Nat) /\ lines \in Seq(Seq(Nat))
    /\ next \in Nat /\ offset \in Nat /\ clean \in Nat /\ lastRead \in Nat
    /\ writing \in BOOLEAN /\ truncated \in BOOLEAN
    /\ pc \in {"down", "poll", "read", "emit"}
    /\ starts \in Seq(Nat)

\* No byte is handed to onLine twice and none overtakes an earlier one, over
\* sessions, truncations and bridge restarts, from one failed first Stat to the
\* next ("so a restart doesn't replay history", transport.go:25-27).
DeliveredInOrder ==
    \A m, n \in (clean + 1) .. Len(lines) :
        m < n => \A a \in 1 .. Len(lines[m]), b \in 1 .. Len(lines[n]) :
                     lines[m][a] < lines[n][b]

\* Why the order holds: stamps grow along the file, along the buffer and from
\* the emitted lines to the buffer, and what the offset has still to cover, or
\* will cover once the truncation is noticed, is newer than all that was read.
Increasing(s) == \A i, j \in 1 .. Len(s) : i < j => s[i] < s[j]
AllBelow(s, n) == \A i \in 1 .. Len(s) : s[i] < n
AllAbove(n, s) == \A i \in 1 .. Len(s) : n < s[i]

FileGrows    == Increasing(file) /\ AllBelow(file, next) /\ AllAbove(0, file)
BufGrows     == Increasing(buf) /\ AllBelow(buf, lastRead + 1)
UnreadIsNew  == \A i \in 1 .. Len(file) :
                   i > offset \/ offset > Len(file) => lastRead < file[i]
LinesBehind  == \A n \in (clean + 1) .. Len(lines) :
                   \A a \in 1 .. Len(lines[n]) :
                       lines[n][a] <= lastRead /\ AllAbove(lines[n][a], buf)
OrderInv     == /\ TypeOK
                /\ lastRead < next /\ clean <= Len(lines)
                /\ FileGrows /\ BufGrows /\ UnreadIsNew /\ LinesBehind
                /\ DeliveredInOrder

\* onLine only ever gets whole events: the one exception is the rest of a line
\* that was being written when the bridge started (transport.go:72-89).
TornOnlyAtStart ==
    \A n \in 1 .. Len(lines) :
        Whole(lines[n]) \/ \E s \in 1 .. Len(starts) : lines[n][1] = starts[s]

\* A Tailer waiting for the next tick with nothing left to read has emitted
\* every event that is whole in the file and was written since the bridge
\* started: truncation by a new session loses none of the new session's lines.
CaughtUp ==
    (pc = "poll" /\ offset = Len(file))
        => \A e \in LineEnds : Pending(e) => Emitted(e)

\* Every event written while the bridge runs is emitted, unless the bridge
\* stops or a new session overwrites the file first (transport.go:44-68).
EventuallyEmitted ==
    \A e \in LineEnds : Pending(e) ~> (Emitted(e) \/ ~Pending(e))

-----------------------------------------------------------------------------
(* The refinement.  An event is known by the stamp of its newline.          *)

EventOf(l) == IF Whole(l) THEN l[Len(l)] + 1 ELSE 0
Accepted == {n \in (clean + 1) .. Len(lines) : Whole(lines[n])}

Feed == INSTANCE EventFeed WITH
            Events <- LineEnds,
            sent <- {e \in LineEnds : e < next},
            got  <- [n \in DOMAIN lines |-> EventOf(lines[n])],
            pos  <- IF Accepted = {} THEN 0
                    ELSE EventOf(lines[CHOOSE n \in Accepted : \A m \in Accepted : m <= n])

\* The Tailer implements EventFeed: events reach onLine at most once and in the
\* order write_event produced them, up to a rewind (transport.go:33-70).
ImplementsFeed == Feed!Spec
=============================================================================
