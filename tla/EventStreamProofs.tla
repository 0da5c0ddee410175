-------------------------- MODULE EventStreamProofs --------------------------
(***************************************************************************)
(* TLAPS proofs about EventStream, for every set of newline stamps, every   *)
(* bound on bridge runs, with and without the regrowth race and failing     *)
(* first Stats.                                                             *)
(***************************************************************************)
EXTENDS EventStream, SequenceTheorems, WellFoundedInduction, TLAPS

-----------------------------------------------------------------------------
(* The sequence helpers.                                                    *)

\* Stamps(from, to) lists from .. to: what write_file adds to the file.
LEMMA StampsFacts ==
    ASSUME NEW from \in Nat, NEW to \in Nat, to >= from - 1
    PROVE  /\ Stamps(from, to) \in Seq(Nat)
           /\ Len(Stamps(from, to)) = to - from + 1
           /\ \A i \in 1 .. Len(Stamps(from, to)) :
                  Stamps(from, to)[i] = from + i - 1
  BY DEF Stamps

\* From(s, n) drops the first n elements: what Read(offset) returns.
LEMMA FromFacts ==
    ASSUME NEW s \in Seq(Nat), NEW n \in Nat
    PROVE  /\ From(s, n) \in Seq(Nat)
           /\ Len(From(s, n)) = IF n <= Len(s) THEN Len(s) - n ELSE 0
           /\ \A i \in 1 .. Len(From(s, n)) : From(s, n)[i] = s[n + i]
  <1>1. CASE n < Len(s)
    BY <1>1 DEF From
  <1>2. CASE n >= Len(s)
    BY <1>2 DEF From
  <1> QED
    BY <1>1, <1>2

\* UpTo(s, n) keeps the first n elements: the line emitLines cuts off.
LEMMA UpToFacts ==
    ASSUME NEW s \in Seq(Nat), NEW n \in 0 .. Len(s)
    PROVE  /\ UpTo(s, n) \in Seq(Nat)
           /\ Len(UpTo(s, n)) = n
           /\ \A i \in 1 .. n : UpTo(s, n)[i] = s[i]
  BY DEF UpTo

\* What \o does, index by index.
LEMMA ConcatFacts ==
    ASSUME NEW s \in Seq(Nat), NEW t \in Seq(Nat)
    PROVE  /\ s \o t \in Seq(Nat)
           /\ Len(s \o t) = Len(s) + Len(t)
           /\ \A i \in 1 .. Len(s) : (s \o t)[i] = s[i]
           /\ \A i \in (Len(s) + 1) .. (Len(s) + Len(t)) :
                  i - Len(s) \in 1 .. Len(t) /\ (s \o t)[i] = t[i - Len(s)]
  BY ConcatProperties, LenProperties

\* Appending newer stamps keeps a sequence increasing.
LEMMA IncreasingConcat ==
    ASSUME NEW s \in Seq(Nat), NEW t \in Seq(Nat), NEW n \in Nat,
           Increasing(s), Increasing(t), AllBelow(s, n + 1), AllAbove(n, t)
    PROVE  Increasing(s \o t)
  <1> DEFINE u == s \o t
  <1>1. /\ Len(u) = Len(s) + Len(t)
        /\ \A i \in 1 .. Len(s) : u[i] = s[i]
        /\ \A i \in (Len(s) + 1) .. (Len(s) + Len(t)) :
               i - Len(s) \in 1 .. Len(t) /\ u[i] = t[i - Len(s)]
    BY ConcatFacts
  <1>2. Len(s) \in Nat /\ Len(t) \in Nat
    BY LenProperties
  <1>3. /\ \A i \in 1 .. Len(s) : s[i] \in Nat
        /\ \A i \in 1 .. Len(t) : t[i] \in Nat
    BY ElementOfSeq
  <1> HIDE DEF u
  <1> SUFFICES ASSUME NEW i \in 1 .. Len(u), NEW j \in 1 .. Len(u), i < j
               PROVE  u[i] < u[j]
    BY DEF Increasing, u
  <1>4. CASE j <= Len(s)
    <2>1. i \in 1 .. Len(s) /\ j \in 1 .. Len(s)
      BY <1>2, <1>4
    <2>2. s[i] < s[j]
      BY <2>1 DEF Increasing
    <2>3. u[i] = s[i] /\ u[j] = s[j]
      BY <1>1, <2>1
    <2> QED
      BY <2>2, <2>3
  <1>5. CASE i <= Len(s) /\ j > Len(s)
    <2>1. u[i] = s[i] /\ i \in 1 .. Len(s)
      BY <1>1, <1>2, <1>5
    <2>2. u[j] = t[j - Len(s)] /\ j - Len(s) \in 1 .. Len(t)
      BY <1>1, <1>2, <1>5
    <2>3. s[i] < n + 1 /\ n < t[j - Len(s)]
      BY <2>1, <2>2 DEF AllBelow, AllAbove
    <2>4. s[i] \in Nat /\ t[j - Len(s)] \in Nat
      BY <1>3, <2>1, <2>2
    <2>5. s[i] < t[j - Len(s)]
      BY <2>3, <2>4
    <2> QED
      BY <2>1, <2>2, <2>5
  <1>6. CASE i > Len(s)
    <2>1. u[i] = t[i - Len(s)] /\ i - Len(s) \in 1 .. Len(t)
      BY <1>1, <1>2, <1>6
    <2>2. u[j] = t[j - Len(s)] /\ j - Len(s) \in 1 .. Len(t)
      BY <1>1, <1>2, <1>6
    <2>3. i - Len(s) < j - Len(s)
      BY <1>2, <2>1, <2>2
    <2>4. t[i - Len(s)] < t[j - Len(s)]
      BY <2>1, <2>2, <2>3 DEF Increasing
    <2> QED
      BY <2>1, <2>2, <2>4
  <1> QED
    BY <1>2, <1>4, <1>5, <1>6

\* Bounds survive concatenation.
LEMMA BoundsConcat ==
    ASSUME NEW s \in Seq(Nat), NEW t \in Seq(Nat), NEW n \in Nat
    PROVE  /\ AllBelow(s, n) /\ AllBelow(t, n) => AllBelow(s \o t, n)
           /\ AllAbove(n, s) /\ AllAbove(n, t) => AllAbove(n, s \o t)
  <1> DEFINE u == s \o t
  <1>1. /\ Len(u) = Len(s) + Len(t)
        /\ \A i \in 1 .. Len(s) : u[i] = s[i]
        /\ \A i \in (Len(s) + 1) .. (Len(s) + Len(t)) :
               i - Len(s) \in 1 .. Len(t) /\ u[i] = t[i - Len(s)]
    BY ConcatFacts
  <1>2. Len(s) \in Nat /\ Len(t) \in Nat
    BY LenProperties
  <1> HIDE DEF u
  <1>3. ASSUME NEW i \in 1 .. Len(u)
        PROVE  \/ i \in 1 .. Len(s) /\ u[i] = s[i]
               \/ i - Len(s) \in 1 .. Len(t) /\ u[i] = t[i - Len(s)]
    BY <1>1, <1>2
  <1>4. AllBelow(s, n) /\ AllBelow(t, n) => AllBelow(u, n)
    BY <1>3 DEF AllBelow
  <1>5. AllAbove(n, s) /\ AllAbove(n, t) => AllAbove(n, u)
    BY <1>3 DEF AllAbove
  <1> QED
    BY <1>4, <1>5 DEF u

\* Order and bounds survive dropping a prefix.
LEMMA FromOrder ==
    ASSUME NEW s \in Seq(Nat), NEW n \in Nat, NEW b \in Nat
    PROVE  /\ Increasing(s) => Increasing(From(s, n))
           /\ AllBelow(s, b) => AllBelow(From(s, n), b)
           /\ AllAbove(b, s) => AllAbove(b, From(s, n))
  <1> DEFINE u == From(s, n)
  <1>1. /\ Len(u) = IF n <= Len(s) THEN Len(s) - n ELSE 0
        /\ \A i \in 1 .. Len(u) : u[i] = s[n + i]
    BY FromFacts
  <1>2. Len(s) \in Nat
    BY LenProperties
  <1> HIDE DEF u
  <1>3. ASSUME NEW i \in 1 .. Len(u)
        PROVE  n + i \in 1 .. Len(s) /\ u[i] = s[n + i]
    BY <1>1, <1>2
  <1>4. ASSUME Increasing(s), NEW i \in 1 .. Len(u), NEW j \in 1 .. Len(u), i < j
        PROVE  u[i] < u[j]
    <2>1. n + i < n + j
      BY <1>1, <1>2, <1>4
    <2>2. s[n + i] < s[n + j]
      BY <1>3, <1>4, <2>1 DEF Increasing
    <2> QED
      BY <1>3, <2>2
  <1>5. Increasing(s) => Increasing(u)
    BY <1>4 DEF Increasing
  <1>6. AllBelow(s, b) => AllBelow(u, b)
    BY <1>3 DEF AllBelow
  <1>7. AllAbove(b, s) => AllAbove(b, u)
    BY <1>3 DEF AllAbove
  <1> QED
    BY <1>5, <1>6, <1>7 DEF u

\* A line cut off an increasing buffer is below what stays in the buffer.
LEMMA CutOrder ==
    ASSUME NEW s \in Seq(Nat), NEW n \in 1 .. Len(s), NEW b \in Nat,
           Increasing(s), AllBelow(s, b)
    PROVE  \A a \in 1 .. Len(UpTo(s, n - 1)) :
               /\ UpTo(s, n - 1)[a] < b
               /\ AllAbove(UpTo(s, n - 1)[a], From(s, n))
  <1>1. Len(s) \in Nat
    BY LenProperties
  <1>2. n - 1 \in 0 .. Len(s) /\ n \in Nat
    BY <1>1
  <1>3. /\ Len(UpTo(s, n - 1)) = n - 1
        /\ \A i \in 1 .. (n - 1) : UpTo(s, n - 1)[i] = s[i]
    BY <1>2, UpToFacts
  <1>4. /\ Len(From(s, n)) = IF n <= Len(s) THEN Len(s) - n ELSE 0
        /\ \A i \in 1 .. Len(From(s, n)) : From(s, n)[i] = s[n + i]
    BY <1>2, FromFacts
  <1> TAKE a \in 1 .. Len(UpTo(s, n - 1))
  <1>5. a \in 1 .. Len(s) /\ UpTo(s, n - 1)[a] = s[a]
    BY <1>1, <1>2, <1>3
  <1>6. ASSUME NEW i \in 1 .. Len(From(s, n))
        PROVE  s[a] < From(s, n)[i]
    <2>1. n + i \in 1 .. Len(s) /\ a < n + i
      BY <1>1, <1>2, <1>3, <1>4
    <2>2. s[a] < s[n + i]
      BY <1>5, <2>1 DEF Increasing
    <2> QED
      BY <1>4, <2>2
  <1>7. s[a] < b
    BY <1>5 DEF AllBelow
  <1> QED
    BY <1>5, <1>6, <1>7 DEF AllAbove

\* New stamps are increasing and within their bounds.
LEMMA StampsOrder ==
    ASSUME NEW from \in Nat, NEW to \in Nat, to >= from - 1,
           NEW b \in Nat, b < from
    PROVE  /\ Increasing(Stamps(from, to))
           /\ AllBelow(Stamps(from, to), to + 1)
           /\ AllAbove(b, Stamps(from, to))
  <1>1. /\ Len(Stamps(from, to)) = to - from + 1
        /\ \A i \in 1 .. Len(Stamps(from, to)) : Stamps(from, to)[i] = from + i - 1
    BY StampsFacts
  <1> QED
    BY <1>1 DEF Increasing, AllBelow, AllAbove

-----------------------------------------------------------------------------
\* Every variable keeps its type.
LEMMA TypeStep ==
    ASSUME TypeOK, [Next]_vars
    PROVE  TypeOK'
  <1> USE DEF TypeOK, gameVars, tailerVars, history
  <1>1. CASE WriteEvent
    BY <1>1 DEF WriteEvent
  <1>2. CASE Flush
    <2>1. PICK e \in LineEnds : /\ IsLineEnd(e)
                                /\ \E k \in next .. e :
                                     /\ file' = file \o Stamps(next, k)
                                     /\ next' = k + 1
                                     /\ writing' = (k # e)
      BY <1>2 DEF Flush
    <2>2. PICK k \in next .. e : /\ file' = file \o Stamps(next, k)
                                 /\ next' = k + 1
                                 /\ writing' = (k # e)
      BY <2>1
    <2>3. k \in Nat /\ k >= next - 1
      BY LineEndsAssumption
    <2>4. Stamps(next, k) \in Seq(Nat)
      BY <2>3, StampsFacts
    <2> QED
      BY <1>2, <2>2, <2>3, <2>4 DEF Flush
  <1>3. CASE NewSession
    <2>1. next' = next \/ \E e \in LineEnds : next' = e + 1
      BY <1>3, Zenon DEF NewSession
    <2>2. next' \in Nat
      BY <2>1, LineEndsAssumption
    <2>3. truncated' \in BOOLEAN /\ writing' \in BOOLEAN
      BY <1>3, Zenon DEF NewSession
    <2>4. UNCHANGED <<file, tailerVars, history>>
      BY <1>3 DEF NewSession
    <2> QED
      BY <2>2, <2>3, <2>4
  <1>4. CASE Start
    BY <1>4 DEF Start, StartAt
  <1>5. CASE StartStatFails
    BY <1>5 DEF StartStatFails, StartAt
  <1>6. CASE Poll
    BY <1>6 DEF Poll
  <1>7. CASE Read
    <2>1. /\ From(file, offset) \in Seq(Nat)
          /\ Len(From(file, offset)) \in Nat
      BY FromFacts
    <2>2. LastOr(From(file, offset), lastRead) \in Nat
      BY <2>1 DEF LastOr
    <2> QED
      BY <1>7, <2>1, <2>2 DEF Read
  <1>8. CASE ReadFails
    BY <1>8 DEF ReadFails
  <1>9. CASE EmitLine
    <2>1. PICK i \in 1 .. Len(buf) :
             /\ lines' = IF i = 1 THEN lines ELSE Append(lines, UpTo(buf, i - 1))
             /\ buf' = From(buf, i)
      BY <1>9 DEF EmitLine
    <2>2. UpTo(buf, i - 1) \in Seq(Nat)
      BY UpToFacts
    <2>3. From(buf, i) \in Seq(Nat)
      BY FromFacts
    <2> QED
      BY <1>9, <2>1, <2>2, <2>3 DEF EmitLine
  <1>10. CASE EmitDone
    BY <1>10 DEF EmitDone
  <1>11. CASE BridgeStops
    BY <1>11 DEF BridgeStops
  <1>12. CASE UNCHANGED vars
    BY <1>12 DEF vars
  <1> QED
    BY <1>1, <1>2, <1>3, <1>4, <1>5, <1>6, <1>7, <1>8, <1>9, <1>10, <1>11, <1>12
       DEF Next, Game, Tailer

\* Type correctness of EventStream.
THEOREM TypeCorrect == Spec => []TypeOK
  <1>1. Init => TypeOK
    <2>1. <<>> \in Seq(Nat) /\ <<>> \in Seq(Seq(Nat)) /\ 0 \in Nat /\ 1 \in Nat
      OBVIOUS
    <2> QED
      BY <2>1, Zenon DEF Init, TypeOK
  <1> QED
    BY <1>1, TypeStep, PTL DEF Spec

-----------------------------------------------------------------------------
\* Every step keeps the stamps in order.
LEMMA OrderStep ==
    ASSUME OrderInv, [Next]_vars
    PROVE  OrderInv'
  <1>a. TypeOK /\ TypeOK'
    BY TypeStep DEF OrderInv
  <1>b. /\ file \in Seq(Nat) /\ buf \in Seq(Nat) /\ lines \in Seq(Seq(Nat))
        /\ next \in Nat /\ offset \in Nat /\ clean \in Nat /\ lastRead \in Nat
    BY <1>a DEF TypeOK
  <1>n. /\ next \in Nat /\ offset \in Nat /\ clean \in Nat /\ lastRead \in Nat
        /\ Len(file) \in Nat /\ Len(buf) \in Nat /\ Len(lines) \in Nat
    BY <1>b, LenProperties
  <1>i. /\ lastRead < next /\ clean <= Len(lines)
        /\ FileGrows /\ BufGrows /\ UnreadIsNew /\ LinesBehind /\ DeliveredInOrder
    BY DEF OrderInv
  <1>e. Increasing(<<>>) /\ AllBelow(<<>>, lastRead + 1)
    BY DEF Increasing, AllBelow
  <1> USE DEF gameVars, tailerVars, history
  <1>1. CASE WriteEvent
    <2>1. file' = file \/ file' = <<>>
      BY <1>1, Zenon DEF WriteEvent
    <2>2. UNCHANGED <<next, tailerVars, history>>
      BY <1>1 DEF WriteEvent
    <2>3. FileGrows' /\ UnreadIsNew'
      BY <1>i, <2>1, <2>2 DEF FileGrows, UnreadIsNew, Increasing, AllBelow,
                              AllAbove
    <2>4. BufGrows' /\ LinesBehind' /\ DeliveredInOrder'
      BY <1>i, <2>2 DEF BufGrows, LinesBehind, DeliveredInOrder, Increasing,
                        AllBelow, AllAbove
    <2> QED
      BY <1>a, <1>i, <2>2, <2>3, <2>4 DEF OrderInv
  <1>2. CASE Flush
    <2>1. PICK e \in LineEnds : \E k \in next .. e :
                                  /\ file' = file \o Stamps(next, k)
                                  /\ next' = k + 1
      BY <1>2 DEF Flush
    <2>2. PICK k \in next .. e : /\ file' = file \o Stamps(next, k)
                                 /\ next' = k + 1
      BY <2>1
    <2>3. k \in Nat /\ k >= next - 1 /\ k >= next
      BY <1>n, LineEndsAssumption
    <2>4. UNCHANGED <<tailerVars, history>>
      BY <1>2 DEF Flush
    <2> DEFINE new == Stamps(next, k)
    <2>5. /\ new \in Seq(Nat)
          /\ \A i \in 1 .. Len(new) : new[i] = next + i - 1
      BY <1>n, <2>3, StampsFacts
    <2>6. Increasing(new) /\ AllBelow(new, k + 1)
      BY <1>n, <1>i, <2>3, StampsOrder
    <2>7. next - 1 \in Nat /\ next - 1 < next
      BY <1>n, <1>i
    <2>8. AllAbove(next - 1, new)
      BY <1>n, <2>3, <2>7, StampsOrder
    <2> HIDE DEF new
    <2>9. AllBelow(file, next - 1 + 1) /\ AllBelow(file, k + 1)
      <3>1. \A i \in 1 .. Len(file) : file[i] \in Nat /\ file[i] < next
        BY <1>b, <1>i, ElementOfSeq DEF FileGrows, AllBelow
      <3> QED
        BY <1>n, <2>3, <3>1 DEF AllBelow
    <2>10. FileGrows'
      <3>1. Increasing(file \o new)
        BY <1>b, <1>i, <2>5, <2>6, <2>7, <2>8, <2>9, IncreasingConcat DEF FileGrows
      <3>2. AllBelow(file \o new, k + 1)
        BY <1>b, <2>3, <2>5, <2>6, <2>9, BoundsConcat
      <3>3. AllAbove(0, new)
        BY <1>n, <1>i, <2>3, StampsOrder DEF new
      <3>4. AllAbove(0, file \o new)
        BY <1>b, <1>i, <2>5, <3>3, BoundsConcat DEF FileGrows
      <3> QED
        BY <2>2, <3>1, <3>2, <3>4 DEF FileGrows, new
    <2>11. UnreadIsNew'
      <3>1. /\ Len(file') = Len(file) + Len(new)
            /\ \A i \in 1 .. Len(file) : file'[i] = file[i]
            /\ \A i \in (Len(file) + 1) .. (Len(file) + Len(new)) :
                   i - Len(file) \in 1 .. Len(new) /\ file'[i] = new[i - Len(file)]
        BY <1>b, <2>2, <2>5, ConcatFacts DEF new
      <3>2. Len(new) \in Nat
        BY <2>5, LenProperties
      <3> SUFFICES ASSUME NEW i \in 1 .. Len(file'),
                          i > offset \/ offset > Len(file')
                   PROVE  lastRead < file'[i]
        BY <2>4 DEF UnreadIsNew
      <3>3. CASE i <= Len(file)
        <4>1. i \in 1 .. Len(file) /\ (i > offset \/ offset > Len(file))
          BY <1>n, <3>1, <3>2, <3>3
        <4> QED
          BY <1>i, <3>1, <4>1 DEF UnreadIsNew
      <3>4. CASE i > Len(file)
        <4>1. i - Len(file) \in 1 .. Len(new) /\ file'[i] = new[i - Len(file)]
          BY <1>n, <3>1, <3>2, <3>4
        <4>2. file'[i] = next + (i - Len(file)) - 1
          BY <2>5, <4>1
        <4> QED
          BY <1>n, <1>i, <4>1, <4>2
      <3> QED
        BY <1>n, <3>3, <3>4
    <2>12. BufGrows' /\ LinesBehind' /\ DeliveredInOrder'
      BY <1>i, <2>4 DEF BufGrows, LinesBehind, DeliveredInOrder, Increasing,
                        AllBelow, AllAbove
    <2>13. lastRead' < next' /\ clean' <= Len(lines')
      BY <1>n, <1>i, <2>2, <2>3, <2>4
    <2> QED
      BY <1>a, <2>10, <2>11, <2>12, <2>13 DEF OrderInv
  <1>3. CASE NewSession
    <2>1. next' = next \/ \E e \in LineEnds : e >= next /\ next' = e + 1
      BY <1>3, Zenon DEF NewSession, IsLineEnd
    <2>2. next' \in Nat /\ next' >= next
      BY <1>n, <2>1, LineEndsAssumption
    <2>3. UNCHANGED <<file, tailerVars, history>>
      BY <1>3 DEF NewSession
    <2>4. \A i \in 1 .. Len(file) : file[i] \in Nat
      BY <1>b, ElementOfSeq
    <2>5. FileGrows'
      BY <1>n, <1>i, <2>2, <2>3, <2>4 DEF FileGrows, Increasing, AllBelow, AllAbove
    <2>6. UnreadIsNew' /\ BufGrows' /\ LinesBehind' /\ DeliveredInOrder'
      BY <1>i, <2>3 DEF UnreadIsNew, BufGrows, LinesBehind, DeliveredInOrder,
                        Increasing, AllBelow, AllAbove
    <2>7. lastRead' < next' /\ clean' <= Len(lines')
      BY <1>n, <1>i, <2>2, <2>3
    <2> QED
      BY <1>a, <2>5, <2>6, <2>7 DEF OrderInv
  <1>4. CASE Start
    <2>1. buf' = <<>> /\ offset' = Len(file)
      BY <1>4 DEF Start, StartAt
    <2>2. UNCHANGED <<gameVars, lines, clean, lastRead>>
      BY <1>4 DEF Start, StartAt
    <2>3. FileGrows' /\ DeliveredInOrder'
      BY <1>i, <2>2 DEF FileGrows, DeliveredInOrder, Increasing, AllBelow,
                        AllAbove
    <2>4. BufGrows' /\ LinesBehind'
      BY <1>i, <1>e, <2>1, <2>2 DEF BufGrows, LinesBehind, AllAbove
    <2>5. UnreadIsNew'
      BY <1>n, <2>1, <2>2 DEF UnreadIsNew
    <2> QED
      BY <1>a, <1>i, <2>2, <2>3, <2>4, <2>5 DEF OrderInv
  <1>5. CASE StartStatFails
    <2>1. /\ buf' = <<>> /\ offset' = 0
          /\ clean' = Len(lines) /\ lastRead' = 0
      BY <1>5 DEF StartStatFails, StartAt
    <2>2. UNCHANGED <<gameVars, lines>>
      BY <1>5 DEF StartStatFails, StartAt
    <2>3. FileGrows'
      BY <1>i, <2>2 DEF FileGrows, Increasing, AllBelow, AllAbove
    <2>4. BufGrows'
      BY <2>1 DEF BufGrows, Increasing, AllBelow
    <2>5. LinesBehind' /\ DeliveredInOrder'
      BY <1>n, <2>1, <2>2 DEF LinesBehind, DeliveredInOrder
    <2>6. UnreadIsNew'
      BY <1>i, <2>1, <2>2 DEF UnreadIsNew, FileGrows, AllAbove
    <2>7. lastRead' < next' /\ clean' <= Len(lines')
      BY <1>n, <1>i, <2>1, <2>2
    <2> QED
      BY <1>a, <2>3, <2>4, <2>5, <2>6, <2>7 DEF OrderInv
  <1>6. CASE Poll
    <2>1. \/ buf' = <<>> /\ offset' = 0 /\ Len(file) < offset
          \/ buf' = buf /\ offset' = offset
      BY <1>6 DEF Poll
    <2>2. UNCHANGED <<gameVars, history>>
      BY <1>6 DEF Poll
    <2>3. FileGrows' /\ DeliveredInOrder'
      BY <1>i, <2>2 DEF FileGrows, DeliveredInOrder, Increasing, AllBelow,
                        AllAbove
    <2>4. UnreadIsNew'
      BY <1>i, <2>1, <2>2 DEF UnreadIsNew
    <2>5. BufGrows' /\ LinesBehind'
      BY <1>i, <1>e, <2>1, <2>2 DEF BufGrows, LinesBehind, Increasing, AllBelow,
                                    AllAbove
    <2> QED
      BY <1>a, <1>i, <2>2, <2>3, <2>4, <2>5 DEF OrderInv
  <1>7. CASE Read
    <2> DEFINE data == From(file, offset)
    <2>1. /\ offset' = offset + Len(data)
          /\ buf' = buf \o data
          /\ lastRead' = LastOr(data, lastRead)
      BY <1>7 DEF Read
    <2>2. UNCHANGED <<gameVars, lines, starts, clean>>
      BY <1>7 DEF Read
    <2>3. /\ data \in Seq(Nat)
          /\ Len(data) = IF offset <= Len(file) THEN Len(file) - offset ELSE 0
          /\ \A i \in 1 .. Len(data) : data[i] = file[offset + i]
      BY <1>b, FromFacts
    <2>4. Increasing(data) /\ AllBelow(data, next)
      BY <1>b, <1>i, FromOrder DEF FileGrows
    <2>5. AllAbove(lastRead, data)
      BY <1>n, <1>i, <2>3 DEF UnreadIsNew, AllAbove
    <2> HIDE DEF data
    <2>6. \A i \in 1 .. Len(data) : data[i] \in Nat
      BY <2>3, ElementOfSeq
    <2>7. Len(data) \in Nat /\ (data = <<>> <=> Len(data) = 0)
      BY <2>3, LenProperties, EmptySeq
    <2>8. /\ lastRead' \in Nat /\ lastRead <= lastRead' /\ lastRead' < next
          /\ AllBelow(data, lastRead' + 1)
      <3>1. CASE data = <<>>
        BY <1>n, <1>i, <2>1, <2>7, <3>1 DEF LastOr, AllBelow
      <3>2. CASE data # <<>>
        <4>1. lastRead' = data[Len(data)] /\ Len(data) \in 1 .. Len(data)
          BY <2>1, <2>7, <3>2 DEF LastOr
        <4>2. data[Len(data)] \in Nat /\ data[Len(data)] < next
          BY <2>4, <2>6, <4>1 DEF AllBelow
        <4>3. lastRead < data[Len(data)]
          BY <2>5, <4>1 DEF AllAbove
        <4>4. ASSUME NEW i \in 1 .. Len(data)
              PROVE  data[i] < data[Len(data)] + 1
          <5>1. CASE i = Len(data)
            BY <4>2, <5>1
          <5>2. CASE i # Len(data)
            <6>1. i < Len(data)
              BY <2>7, <5>2
            <6>2. data[i] < data[Len(data)]
              BY <2>4, <4>1, <6>1 DEF Increasing
            <6> QED
              BY <2>6, <4>2, <6>2
          <5> QED
            BY <5>1, <5>2
        <4> QED
          BY <1>n, <4>1, <4>2, <4>3, <4>4 DEF AllBelow
      <3> QED
        BY <3>1, <3>2
    <2>9. FileGrows' /\ DeliveredInOrder'
      BY <1>i, <2>2 DEF FileGrows, DeliveredInOrder, Increasing, AllBelow,
                        AllAbove
    <2>10. UnreadIsNew'
      <3>1. offset' >= Len(file) /\ (offset' > Len(file) => offset > Len(file)
                                                            /\ Len(data) = 0)
        BY <1>n, <2>1, <2>3
      <3>2. offset > Len(file) /\ Len(data) = 0 => lastRead' = lastRead
        BY <2>1, <2>7 DEF LastOr
      <3>3. offset' \in Nat /\ file' = file
        BY <1>n, <2>1, <2>2, <2>7
      <3> SUFFICES ASSUME NEW i \in 1 .. Len(file),
                          i > offset' \/ offset' > Len(file)
                   PROVE  lastRead' < file[i]
        BY <3>3 DEF UnreadIsNew
      <3>4. offset > Len(file) /\ lastRead' = lastRead
        BY <1>n, <3>1, <3>2, <3>3
      <3> QED
        BY <1>i, <3>4 DEF UnreadIsNew
    <2>11. BufGrows'
      <3>1. \A i \in 1 .. Len(buf) : buf[i] \in Nat
        BY <1>b, ElementOfSeq
      <3>2. AllBelow(buf, lastRead' + 1)
        BY <1>n, <1>i, <2>8, <3>1 DEF BufGrows, AllBelow
      <3>3. Increasing(buf \o data)
        BY <1>b, <1>i, <2>3, <2>4, <2>5, IncreasingConcat DEF BufGrows
      <3>4. AllBelow(buf \o data, lastRead' + 1)
        BY <1>b, <2>3, <2>8, <3>2, BoundsConcat
      <3> QED
        BY <2>1, <3>3, <3>4 DEF BufGrows
    <2>12. LinesBehind'
      <3> SUFFICES ASSUME NEW n \in (clean + 1) .. Len(lines),
                          NEW a \in 1 .. Len(lines[n])
                   PROVE  lines[n][a] <= lastRead' /\ AllAbove(lines[n][a], buf')
        BY <2>2 DEF LinesBehind
      <3>1. lines[n] \in Seq(Nat)
        BY <1>b, <1>n, ElementOfSeq
      <3>2. lines[n][a] \in Nat
        BY <3>1, ElementOfSeq
      <3>3. lines[n][a] <= lastRead /\ AllAbove(lines[n][a], buf)
        BY <1>i DEF LinesBehind
      <3>4. AllAbove(lines[n][a], data)
        BY <1>n, <2>5, <2>6, <3>2, <3>3 DEF AllAbove
      <3>5. AllAbove(lines[n][a], buf \o data)
        BY <1>b, <2>3, <3>2, <3>3, <3>4, BoundsConcat
      <3>6. lines[n][a] <= lastRead'
        BY <1>n, <2>8, <3>2, <3>3
      <3> QED
        BY <2>1, <3>5, <3>6
    <2> QED
      BY <1>a, <1>i, <2>2, <2>8, <2>9, <2>10, <2>11, <2>12 DEF OrderInv
  <1>8. CASE EmitLine
    <2>1. PICK i \in 1 .. Len(buf) :
             /\ lines' = IF i = 1 THEN lines ELSE Append(lines, UpTo(buf, i - 1))
             /\ buf' = From(buf, i)
      BY <1>8 DEF EmitLine
    <2>2. UNCHANGED <<gameVars, offset, starts, clean, lastRead>>
      BY <1>8 DEF EmitLine
    <2> DEFINE line == UpTo(buf, i - 1)
    <2>3. i \in Nat /\ i - 1 \in 0 .. Len(buf)
      BY <1>n
    <2>4. line \in Seq(Nat)
      BY <1>b, <2>3, UpToFacts
    <2>5. FileGrows' /\ UnreadIsNew'
      BY <1>i, <2>2 DEF FileGrows, UnreadIsNew, Increasing, AllBelow, AllAbove
    <2>6. BufGrows'
      BY <1>b, <1>n, <1>i, <2>1, <2>2, <2>3, FromOrder DEF BufGrows
    <2>7. \A a \in 1 .. Len(line) : /\ line[a] < lastRead + 1
                                     /\ AllAbove(line[a], buf')
      BY <1>b, <1>n, <1>i, <2>1, CutOrder DEF BufGrows
    <2>8. ASSUME NEW n \in (clean + 1) .. Len(lines), NEW a \in 1 .. Len(lines[n])
          PROVE  /\ lines[n][a] \in Nat /\ lines[n][a] <= lastRead
                 /\ AllAbove(lines[n][a], buf')
                 /\ AllAbove(lines[n][a], line)
      <3>1. lines[n] \in Seq(Nat)
        BY <1>b, <1>n, ElementOfSeq
      <3>2. lines[n][a] \in Nat
        BY <3>1, ElementOfSeq
      <3>3. lines[n][a] <= lastRead /\ AllAbove(lines[n][a], buf)
        BY <1>i DEF LinesBehind
      <3>4. AllAbove(lines[n][a], buf')
        BY <1>b, <2>1, <2>3, <3>2, <3>3, FromOrder
      <3>5. /\ Len(line) = i - 1
            /\ \A j \in 1 .. (i - 1) : line[j] = buf[j]
        BY <1>b, <2>3, UpToFacts
      <3>6. AllAbove(lines[n][a], line)
        <4> HIDE DEF line
        <4>1. \A j \in 1 .. Len(line) : j \in 1 .. Len(buf) /\ line[j] = buf[j]
          BY <1>n, <3>5
        <4> QED
          BY <3>3, <4>1 DEF AllAbove
      <3> QED
        BY <3>2, <3>3, <3>4, <3>6
    <2> HIDE DEF line
    <2>9. CASE i = 1
      <3>1. lines' = lines
        BY <2>1, <2>9
      <3>2. LinesBehind' /\ DeliveredInOrder'
        BY <1>i, <2>2, <2>8, <3>1 DEF LinesBehind, DeliveredInOrder
      <3> QED
        BY <1>a, <1>i, <2>2, <2>5, <2>6, <3>1, <3>2 DEF OrderInv
    <2>10. CASE i # 1
      <3>1. lines' = Append(lines, line)
        BY <2>1, <2>10 DEF line
      <3>2. /\ Len(lines') = Len(lines) + 1
            /\ lines'[Len(lines) + 1] = line
            /\ \A n \in 1 .. Len(lines) : lines'[n] = lines[n]
        BY <1>b, <2>4, <3>1, AppendProperties
      <3>3. \A a \in 1 .. Len(line) : line[a] \in Nat /\ line[a] <= lastRead
        BY <1>n, <2>4, <2>7, ElementOfSeq
      <3>4. LinesBehind'
        <4> SUFFICES ASSUME NEW n \in (clean + 1) .. Len(lines'),
                            NEW a \in 1 .. Len(lines'[n])
                     PROVE  /\ lines'[n][a] <= lastRead
                            /\ AllAbove(lines'[n][a], buf')
          BY <2>2 DEF LinesBehind
        <4>1. CASE n = Len(lines) + 1
          BY <2>7, <3>2, <3>3, <4>1
        <4>2. CASE n # Len(lines) + 1
          <5>1. n \in (clean + 1) .. Len(lines) /\ n \in 1 .. Len(lines)
            BY <1>n, <3>2, <4>2
          <5>2. lines'[n] = lines[n]
            BY <3>2, <5>1
          <5> QED
            BY <2>8, <5>1, <5>2
        <4> QED
          BY <4>1, <4>2
      <3>5. DeliveredInOrder'
        <4> SUFFICES ASSUME NEW m \in (clean + 1) .. Len(lines'),
                            NEW n \in (clean + 1) .. Len(lines'), m < n,
                            NEW a \in 1 .. Len(lines'[m]),
                            NEW b \in 1 .. Len(lines'[n])
                     PROVE  lines'[m][a] < lines'[n][b]
          BY <2>2 DEF DeliveredInOrder
        <4>1. m \in (clean + 1) .. Len(lines) /\ m \in 1 .. Len(lines)
          BY <1>n, <3>2
        <4>2. lines'[m] = lines[m]
          BY <3>2, <4>1
        <4>3. CASE n = Len(lines) + 1
          BY <2>8, <3>2, <4>1, <4>2, <4>3 DEF AllAbove
        <4>4. CASE n # Len(lines) + 1
          <5>1. n \in (clean + 1) .. Len(lines) /\ n \in 1 .. Len(lines)
            BY <1>n, <3>2, <4>4
          <5>2. lines'[n] = lines[n]
            BY <3>2, <5>1
          <5> QED
            BY <1>i, <4>1, <4>2, <5>1, <5>2 DEF DeliveredInOrder
        <4> QED
          BY <4>3, <4>4
      <3>6. clean' <= Len(lines')
        BY <1>n, <1>i, <2>2, <3>2
      <3> QED
        BY <1>a, <1>i, <2>2, <2>5, <2>6, <3>4, <3>5, <3>6 DEF OrderInv
    <2> QED
      BY <2>9, <2>10
  <1>9. CASE ReadFails \/ EmitDone \/ BridgeStops \/ UNCHANGED vars
    <2>1. UNCHANGED <<gameVars, offset, buf, history>>
      BY <1>9 DEF ReadFails, EmitDone, BridgeStops, vars
    <2>2. FileGrows' /\ BufGrows' /\ UnreadIsNew'
      BY <1>i, <2>1 DEF FileGrows, BufGrows, UnreadIsNew, Increasing, AllBelow,
                        AllAbove
    <2>3. LinesBehind' /\ DeliveredInOrder'
      BY <1>i, <2>1 DEF LinesBehind, DeliveredInOrder, AllAbove
    <2> QED
      BY <1>a, <1>i, <2>1, <2>2, <2>3 DEF OrderInv
  <1> QED
    BY <1>1, <1>2, <1>3, <1>4, <1>5, <1>6, <1>7, <1>8, <1>9 DEF Next, Game, Tailer

LEMMA OrderInit == Init => OrderInv
  <1> SUFFICES ASSUME Init PROVE OrderInv
    OBVIOUS
  <1>1. <<>> \in Seq(Nat) /\ <<>> \in Seq(Seq(Nat)) /\ 0 \in Nat /\ 1 \in Nat
    BY EmptySeq
  <1>2. TypeOK
    BY <1>1, Zenon DEF Init, TypeOK
  <1>3. Len(<<>>) = 0
    OBVIOUS
  <1>4. /\ file = <<>> /\ buf = <<>> /\ lines = <<>>
        /\ clean = 0 /\ lastRead = 0 /\ next = 1
    BY Zenon DEF Init
  <1>5. FileGrows /\ BufGrows /\ UnreadIsNew
    BY <1>3, <1>4 DEF FileGrows, BufGrows, UnreadIsNew, Increasing, AllBelow,
                      AllAbove
  <1>6. LinesBehind /\ DeliveredInOrder
    BY <1>3, <1>4 DEF LinesBehind, DeliveredInOrder
  <1> QED
    BY <1>2, <1>3, <1>4, <1>5, <1>6 DEF OrderInv

\* Events reach onLine in order and at most once, from one bridge start whose
\* first Stat fails to the next, whatever the sessions and restarts.
THEOREM InOrder == Spec => []DeliveredInOrder
  <1>1. OrderInv => DeliveredInOrder
    BY DEF OrderInv
  <1> QED
    BY <1>1, OrderInit, OrderStep, PTL DEF Spec

-----------------------------------------------------------------------------
(* Lines are whole.  While the Tailer sees every truncation, the file is a   *)
(* run of consecutive bytes that begins with a line, and the buffer is the   *)
(* end of what was read of it.                                               *)

LineBegins(x) == x = 1 \/ x - 1 \in LineEnds
MayBegin(x) == LineBegins(x) \/ \E s \in 1 .. Len(starts) : x = starts[s]
Consecutive(s) == \A i \in 1 .. Len(s) : s[i] = s[1] + i - 1
NextUnread == IF offset < Len(file) THEN file[offset + 1] ELSE next

FileIsWhole ==
    /\ Consecutive(file) /\ (file # <<>> => LineBegins(file[1]))
    /\ ~writing \/ file = <<>> => LineBegins(next)
    /\ writing => truncated
    /\ truncated /\ file # <<>> => file[Len(file)] = next - 1

BufFitsFile ==
    pc # "down" =>
        /\ Consecutive(buf) /\ Len(buf) <= offset
        /\ buf # <<>> => MayBegin(buf[1])
        /\ offset <= Len(file) =>
               IF buf = <<>> THEN MayBegin(NextUnread)
                             ELSE buf[Len(buf)] = file[offset]

TornInv == TypeOK /\ FileIsWhole /\ BufFitsFile /\ TornOnlyAtStart

\* Bytes that follow on one another, joined or cut.
LEMMA ConsecutiveConcat ==
    ASSUME NEW s \in Seq(Nat), NEW t \in Seq(Nat), Consecutive(s), Consecutive(t),
           s # <<>> /\ t # <<>> => t[1] = s[Len(s)] + 1
    PROVE  Consecutive(s \o t)
  <1>1. CASE s = <<>> \/ t = <<>>
    <2>1. s \o t = IF s = <<>> THEN t ELSE s
      BY <1>1, ConcatEmptySeq
    <2> QED
      BY <2>1
  <1>2. CASE s # <<>> /\ t # <<>>
    <2> DEFINE u == s \o t
    <2>1. /\ Len(u) = Len(s) + Len(t)
          /\ \A i \in 1 .. Len(s) : u[i] = s[i]
          /\ \A i \in (Len(s) + 1) .. (Len(s) + Len(t)) :
                 i - Len(s) \in 1 .. Len(t) /\ u[i] = t[i - Len(s)]
      BY ConcatFacts
    <2>2. Len(s) \in Nat \ {0} /\ Len(t) \in Nat \ {0} /\ s[1] \in Nat
      BY <1>2, LenProperties, EmptySeq, ElementOfSeq
    <2> HIDE DEF u
    <2>3. t[1] = s[1] + Len(s)
      <3>1. Len(s) \in 1 .. Len(s)
        BY <2>2
      <3>2. s[Len(s)] = s[1] + Len(s) - 1
        BY <3>1 DEF Consecutive
      <3> QED
        BY <1>2, <2>2, <3>2
    <2>4. u[1] = s[1]
      BY <2>1, <2>2
    <2>5. ASSUME NEW i \in 1 .. Len(u) PROVE u[i] = u[1] + i - 1
      <3>1. CASE i <= Len(s)
        <4>1. i \in 1 .. Len(s)
          BY <2>1, <2>2, <3>1
        <4>2. s[i] = s[1] + i - 1
          BY <4>1 DEF Consecutive
        <4> QED
          <5>1. u[i] = s[i]
            BY <2>1, <4>1
          <5> QED
            BY <2>4, <4>2, <5>1
      <3>2. CASE i > Len(s)
        <4>1. i - Len(s) \in 1 .. Len(t) /\ u[i] = t[i - Len(s)]
          BY <2>1, <2>2, <3>2
        <4>2. t[i - Len(s)] = t[1] + (i - Len(s)) - 1
          BY <4>1 DEF Consecutive
        <4> QED
          BY <2>1, <2>2, <2>3, <2>4, <4>1, <4>2
      <3> QED
        BY <2>2, <3>1, <3>2
    <2> QED
      BY <2>5 DEF Consecutive, u
  <1> QED
    BY <1>1, <1>2

LEMMA ConsecutiveFrom ==
    ASSUME NEW s \in Seq(Nat), NEW n \in Nat, Consecutive(s)
    PROVE  /\ Consecutive(From(s, n))
           /\ From(s, n) = <<>> <=> n >= Len(s)
           /\ n < Len(s) => /\ From(s, n)[1] = s[n + 1]
                            /\ From(s, n)[Len(From(s, n))] = s[Len(s)]
                            /\ s[n + 1] = s[1] + n
  <1> DEFINE u == From(s, n)
  <1>1. /\ u \in Seq(Nat)
        /\ Len(u) = IF n <= Len(s) THEN Len(s) - n ELSE 0
        /\ \A i \in 1 .. Len(u) : u[i] = s[n + i]
    BY FromFacts
  <1>2. Len(s) \in Nat
    BY LenProperties
  <1> HIDE DEF u
  <1>3. u = <<>> <=> Len(u) = 0
    BY <1>1, EmptySeq
  <1>4. CASE n >= Len(s)
    BY <1>1, <1>2, <1>3, <1>4 DEF Consecutive, u
  <1>5. CASE n < Len(s)
    <2>1. Len(u) = Len(s) - n /\ 1 \in 1 .. Len(u) /\ Len(u) \in 1 .. Len(u)
      BY <1>1, <1>2, <1>5
    <2>2. s[1] \in Nat /\ s[n + 1] = s[1] + n
      <3>1. 1 \in 1 .. Len(s) /\ n + 1 \in 1 .. Len(s)
        BY <1>2, <1>5
      <3>2. s[1] \in Nat
        BY <3>1, ElementOfSeq
      <3> QED
        BY <3>1, <3>2 DEF Consecutive
    <2>3. u[1] = s[n + 1] /\ u[Len(u)] = s[Len(s)]
      <3>1. u[1] = s[n + 1] /\ u[Len(u)] = s[n + Len(u)]
        BY <1>1, <2>1
      <3>2. n + Len(u) = Len(s)
        BY <1>2, <2>1
      <3> QED
        BY <3>1, <3>2
    <2>4. ASSUME NEW i \in 1 .. Len(u) PROVE u[i] = u[1] + i - 1
      <3>1. n + i \in 1 .. Len(s) /\ u[i] = s[n + i]
        BY <1>1, <1>2, <2>1
      <3>2. s[n + i] = s[1] + (n + i) - 1
        BY <3>1 DEF Consecutive
      <3> QED
        BY <2>2, <2>3, <3>1, <3>2
    <2> QED
      BY <1>2, <1>3, <1>5, <2>1, <2>2, <2>3, <2>4 DEF Consecutive, u
  <1> QED
    BY <1>2, <1>4, <1>5

\* What Flush adds to the file.
LEMMA FlushFacts ==
    ASSUME TypeOK, Flush
    PROVE  \E e \in LineEnds, k \in Nat :
              /\ writing /\ next <= k /\ k <= e
              /\ RegrowthRace \/ NoticedInTime(Len(file) + k - next + 1)
              /\ file' = file \o Stamps(next, k)
              /\ next' = k + 1
              /\ writing' = (k # e)
              /\ UNCHANGED <<truncated, tailerVars, history>>
              /\ Stamps(next, k) \in Seq(Nat) /\ Consecutive(Stamps(next, k))
              /\ Len(Stamps(next, k)) = k - next + 1
              /\ Stamps(next, k)[1] = next /\ Stamps(next, k)[k - next + 1] = k
              /\ Len(file') = Len(file) + k - next + 1
              /\ \A i \in 1 .. Len(file) : file'[i] = file[i]
              /\ file'[Len(file) + 1] = next /\ file'[Len(file')] = k
  <1>1. PICK e \in LineEnds : \E k \in next .. e :
              /\ RegrowthRace \/ NoticedInTime(Len(file) + k - next + 1)
              /\ file' = file \o Stamps(next, k)
              /\ next' = k + 1
              /\ writing' = (k # e)
    BY DEF Flush
  <1>2. PICK k \in next .. e :
              /\ RegrowthRace \/ NoticedInTime(Len(file) + k - next + 1)
              /\ file' = file \o Stamps(next, k)
              /\ next' = k + 1
              /\ writing' = (k # e)
    BY <1>1
  <1>3. /\ next \in Nat /\ e \in Nat /\ k \in Nat /\ next <= k /\ k <= e
        /\ file \in Seq(Nat) /\ Len(file) \in Nat
    BY LineEndsAssumption, LenProperties DEF TypeOK
  <1> DEFINE new == Stamps(next, k)
  <1>4. /\ new \in Seq(Nat) /\ Len(new) = k - next + 1
        /\ \A i \in 1 .. Len(new) : new[i] = next + i - 1
    <2>1. k >= next - 1
      BY <1>3
    <2> QED
      BY <1>3, <2>1, StampsFacts
  <1>5. new[1] = next /\ new[k - next + 1] = k /\ Consecutive(new)
    <2>1. 1 \in 1 .. Len(new) /\ k - next + 1 \in 1 .. Len(new)
      BY <1>3, <1>4
    <2> QED
      BY <1>3, <1>4, <2>1 DEF Consecutive
  <1>6. /\ file \o new \in Seq(Nat) /\ Len(file \o new) = Len(file) + Len(new)
        /\ \A i \in 1 .. Len(file) : (file \o new)[i] = file[i]
        /\ \A i \in (Len(file) + 1) .. (Len(file) + Len(new)) :
               i - Len(file) \in 1 .. Len(new) /\ (file \o new)[i] = new[i - Len(file)]
    BY <1>3, <1>4, ConcatFacts
  <1>7. /\ (file \o new)[Len(file) + 1] = new[1]
        /\ (file \o new)[Len(file) + Len(new)] = new[Len(new)]
    <2> HIDE DEF new
    <2>1. /\ Len(file) + 1 \in (Len(file) + 1) .. (Len(file) + Len(new))
          /\ Len(file) + Len(new) \in (Len(file) + 1) .. (Len(file) + Len(new))
          /\ (Len(file) + 1) - Len(file) = 1
          /\ (Len(file) + Len(new)) - Len(file) = Len(new)
      BY <1>3, <1>4
    <2> QED
      BY <1>6, <2>1
  <1>8. writing /\ UNCHANGED <<truncated, tailerVars, history>>
    BY DEF Flush
  <1>9. /\ Len(file') = Len(file) + k - next + 1
        /\ \A i \in 1 .. Len(file) : file'[i] = file[i]
        /\ file'[Len(file) + 1] = next /\ file'[Len(file')] = k
    <2> HIDE DEF new
    <2>1. file' = file \o new
      BY <1>2 DEF new
    <2> QED
      BY <1>3, <1>4, <1>5, <1>6, <1>7, <2>1
  <1> QED
    BY <1>2, <1>3, <1>4, <1>5, <1>8, <1>9

\* The mod writes whole lines, from the first byte of its file on.
LEMMA FileStep ==
    ASSUME TypeOK, TypeOK', FileIsWhole, [Next]_vars
    PROVE  FileIsWhole'
  <1>t. /\ file \in Seq(Nat) /\ next \in Nat /\ Len(file) \in Nat
        /\ writing \in BOOLEAN /\ truncated \in BOOLEAN
    BY LenProperties DEF TypeOK
  <1>e. Consecutive(<<>>)
    BY DEF Consecutive
  <1>1. CASE WriteEvent
    <2>1. /\ ~writing /\ writing' /\ truncated' /\ next' = next
          /\ file' = IF truncated THEN file ELSE <<>>
      BY <1>1 DEF WriteEvent
    <2> QED
      BY <1>e, <2>1 DEF FileIsWhole, LineBegins
  <1>2. CASE Flush
    <2>1. PICK e \in LineEnds, k \in Nat :
              /\ writing /\ next <= k /\ k <= e
              /\ file' = file \o Stamps(next, k)
              /\ next' = k + 1
              /\ writing' = (k # e)
              /\ UNCHANGED <<truncated, tailerVars, history>>
              /\ Stamps(next, k) \in Seq(Nat) /\ Consecutive(Stamps(next, k))
              /\ Stamps(next, k)[1] = next
              /\ Len(file') = Len(file) + k - next + 1
              /\ \A i \in 1 .. Len(file) : file'[i] = file[i]
              /\ file'[Len(file) + 1] = next /\ file'[Len(file')] = k
      BY <1>2, FlushFacts
    <2>2. truncated /\ truncated'
      BY <2>1 DEF FileIsWhole
    <2>3. file # <<>> => next = file[Len(file)] + 1
      <3> SUFFICES ASSUME file # <<>> PROVE next = file[Len(file)] + 1
        OBVIOUS
      <3>1. file[Len(file)] = next - 1
        BY <2>2 DEF FileIsWhole
      <3> QED
        BY <1>t, <3>1
    <2>4. Consecutive(file')
      BY <1>t, <2>1, <2>3, ConsecutiveConcat DEF FileIsWhole
    <2>5. LineBegins(file'[1])
      <3>1. CASE file = <<>>
        BY <1>t, <2>1, <3>1 DEF FileIsWhole
      <3>2. CASE file # <<>>
        <4>1. 1 \in 1 .. Len(file)
          BY <1>t, <3>2, EmptySeq
        <4> QED
          BY <2>1, <3>2, <4>1 DEF FileIsWhole
      <3> QED
        BY <3>1, <3>2
    <2>6. file' # <<>>
      BY <1>t, <2>1
    <2>7. ~writing' => LineBegins(k + 1)
      <3>1. k = e => k \in LineEnds /\ (k + 1) - 1 = k
        BY <2>1
      <3>2. ~writing' => k = e
        BY <2>1, Zenon
      <3> QED
        BY <3>1, <3>2 DEF LineBegins
    <2>8. \A x : LineBegins(x)' <=> LineBegins(x)
      BY DEF LineBegins
    <2> QED
      BY <2>1, <2>2, <2>4, <2>5, <2>6, <2>7, <2>8 DEF FileIsWhole, LineBegins
  <1>3. CASE NewSession
    <2>1. /\ ~truncated' /\ ~writing' /\ file' = file
          /\ \/ writing /\ next - 1 \notin LineEnds
                /\ \E e \in LineEnds : next' = e + 1
             \/ ~(writing /\ next - 1 \notin LineEnds) /\ next' = next
      BY <1>3 DEF NewSession
    <2>2. LineBegins(next')
      <3>1. CASE \E e \in LineEnds : next' = e + 1
        BY <3>1, LineEndsAssumption DEF LineBegins
      <3>2. CASE ~(writing /\ next - 1 \notin LineEnds) /\ next' = next
        BY <3>2 DEF FileIsWhole, LineBegins
      <3> QED
        BY <2>1, <3>1, <3>2
    <2> QED
      BY <2>1, <2>2 DEF FileIsWhole, LineBegins
  <1>4. CASE Tailer \/ UNCHANGED vars
    <2>1. UNCHANGED gameVars
      BY <1>4 DEF Tailer, Start, StartStatFails, StartAt, Poll, Read, ReadFails,
                  EmitLine, EmitDone, BridgeStops, vars
    <2> QED
      BY <2>1 DEF gameVars, FileIsWhole, LineBegins, Consecutive
  <1> QED
    BY <1>1, <1>2, <1>3, <1>4 DEF Next, Game

\* Where a line may begin stays such a place.
LEMMA MayBeginStays ==
    ASSUME TypeOK, [Next]_vars, NEW x, MayBegin(x)
    PROVE  /\ MayBegin(x)'
           /\ \A s \in 1 .. Len(starts) : s \in 1 .. Len(starts') /\ starts'[s] = starts[s]
  <1>1. starts' = starts \/ starts' = Append(starts, next)
    BY DEF Next, Game, Tailer, WriteEvent, Flush, NewSession, Start, StartStatFails,
           StartAt, Poll, Read, ReadFails, EmitLine, EmitDone, BridgeStops, vars, history
  <1>2. starts \in Seq(Nat) /\ Len(starts) \in Nat /\ next \in Nat
    BY LenProperties DEF TypeOK
  <1>3. \A s \in 1 .. Len(starts) : s \in 1 .. Len(starts') /\ starts'[s] = starts[s]
    BY <1>1, <1>2, AppendProperties
  <1> QED
    BY <1>3 DEF MayBegin, LineBegins

\* What EmitLine cuts off, and what stays.
LEMMA EmitFacts ==
    ASSUME TypeOK, EmitLine
    PROVE  \E i \in 1 .. Len(buf) :
              /\ pc = "emit" /\ buf[i] \in LineEnds
              /\ \A j \in 1 .. (i - 1) : buf[j] \notin LineEnds
              /\ lines' = IF i = 1 THEN lines ELSE Append(lines, UpTo(buf, i - 1))
              /\ buf' = From(buf, i)
              /\ UpTo(buf, i - 1) \in Seq(Nat) /\ Len(UpTo(buf, i - 1)) = i - 1
              /\ \A j \in 1 .. (i - 1) : UpTo(buf, i - 1)[j] = buf[j]
              /\ From(buf, i) \in Seq(Nat) /\ Len(From(buf, i)) = Len(buf) - i
              /\ \A j \in 1 .. (Len(buf) - i) : From(buf, i)[j] = buf[i + j]
              /\ UNCHANGED <<gameVars, pc, offset, starts, clean, lastRead>>
  <1>1. PICK i \in 1 .. Len(buf) :
              /\ buf[i] \in LineEnds
              /\ \A j \in 1 .. (i - 1) : buf[j] \notin LineEnds
              /\ lines' = IF i = 1 THEN lines ELSE Append(lines, UpTo(buf, i - 1))
              /\ buf' = From(buf, i)
    BY DEF EmitLine
  <1>2. buf \in Seq(Nat) /\ Len(buf) \in Nat
    BY LenProperties DEF TypeOK
  <1>3. i - 1 \in 0 .. Len(buf) /\ i \in Nat /\ i <= Len(buf)
    BY <1>2
  <1>4. /\ UpTo(buf, i - 1) \in Seq(Nat) /\ Len(UpTo(buf, i - 1)) = i - 1
        /\ \A j \in 1 .. (i - 1) : UpTo(buf, i - 1)[j] = buf[j]
    BY <1>2, <1>3, UpToFacts
  <1>5. /\ From(buf, i) \in Seq(Nat) /\ Len(From(buf, i)) = Len(buf) - i
        /\ \A j \in 1 .. (Len(buf) - i) : From(buf, i)[j] = buf[i + j]
    BY <1>2, <1>3, FromFacts
  <1> QED
    BY <1>1, <1>4, <1>5 DEF EmitLine

\* The buffer stays the end of what was read, and its first byte a place where
\* a line may begin.
LEMMA BufStep ==
    ASSUME ~RegrowthRace, TypeOK, TypeOK', FileIsWhole, BufFitsFile, [Next]_vars
    PROVE  BufFitsFile'
  <1>t. /\ file \in Seq(Nat) /\ buf \in Seq(Nat) /\ next \in Nat /\ offset \in Nat
        /\ Len(file) \in Nat /\ Len(buf) \in Nat /\ (buf = <<>> <=> Len(buf) = 0)
    BY LenProperties, EmptySeq DEF TypeOK
  <1>e. Consecutive(<<>>) /\ Len(<<>>) = 0
    BY DEF Consecutive
  <1>m. \A x : MayBegin(x) => MayBegin(x)'
    BY MayBeginStays
  <1>l. \A x : LineBegins(x) => MayBegin(x) /\ MayBegin(x)'
    BY DEF MayBegin, LineBegins
  <1>f. FileIsWhole'
    BY FileStep
  <1>s. ASSUME UNCHANGED <<file, next, offset, buf>>, pc' # "down" => pc # "down"
        PROVE  BufFitsFile'
    <2>1. NextUnread' = NextUnread
      BY <1>s DEF NextUnread
    <2> QED
      BY <1>s, <1>m, <2>1 DEF BufFitsFile, Consecutive
  <1>0. ASSUME offset' = 0, buf' = <<>>, UNCHANGED <<file, next>>
        PROVE  BufFitsFile'
    <2>1. MayBegin(NextUnread)'
      <3>1. CASE file = <<>>
        <4>1. NextUnread' = next /\ LineBegins(next)
          BY <1>0, <1>e, <3>1 DEF NextUnread, FileIsWhole
        <4> QED
          BY <1>l, <4>1 DEF MayBegin, LineBegins
      <3>2. CASE file # <<>>
        <4>1. Len(file) > 0 /\ LineBegins(file[1])
          BY <1>t, <3>2, EmptySeq DEF FileIsWhole
        <4>2. NextUnread' = file[1]
          BY <1>0, <4>1 DEF NextUnread
        <4> QED
          BY <1>l, <4>1, <4>2 DEF MayBegin, LineBegins
      <3> QED
        BY <3>1, <3>2
    <2> QED
      BY <1>0, <1>e, <1>t, <2>1 DEF BufFitsFile, Consecutive
  <1>1. CASE WriteEvent
    <2>1. /\ file' = IF truncated THEN file ELSE <<>>
          /\ next' = next /\ ~writing
          /\ UNCHANGED <<pc, offset, buf, starts>>
      BY <1>1 DEF WriteEvent, tailerVars, history
    <2>2. CASE file' = file
      BY <1>s, <2>1, <2>2
    <2>3. CASE file' = <<>>
      <3> SUFFICES ASSUME pc # "down" PROVE BufFitsFile'
        BY <2>1 DEF BufFitsFile
      <3>1. Consecutive(buf) /\ Len(buf) <= offset /\ (buf # <<>> => MayBegin(buf[1])')
        BY <1>m, <2>1 DEF BufFitsFile
      <3>2. offset <= 0 => buf = <<>>
        BY <1>t, <3>1
      <3>3. offset <= 0 => MayBegin(NextUnread)'
        <4>1. LineBegins(next)
          BY <2>1 DEF FileIsWhole
        <4>2. offset <= 0 => NextUnread' = next
          BY <1>e, <1>t, <2>1, <2>3 DEF NextUnread
        <4> QED
          BY <1>l, <4>1, <4>2 DEF MayBegin, LineBegins
      <3> QED
        BY <1>e, <2>1, <2>3, <3>1, <3>2, <3>3 DEF BufFitsFile, Consecutive
    <2> QED
      BY <2>1, <2>2, <2>3
  <1>2. CASE Flush
    <2>1. PICK e \in LineEnds, k \in Nat :
              /\ next <= k
              /\ NoticedInTime(Len(file) + k - next + 1)
              /\ UNCHANGED <<pc, offset, buf, starts>>
              /\ Len(file') = Len(file) + k - next + 1
              /\ \A i \in 1 .. Len(file) : file'[i] = file[i]
              /\ file'[Len(file) + 1] = next
      BY <1>2, FlushFacts DEF tailerVars, history
    <2> SUFFICES ASSUME pc # "down" PROVE BufFitsFile'
      BY <2>1 DEF BufFitsFile
    <2>2. Consecutive(buf) /\ Len(buf) <= offset /\ (buf # <<>> => MayBegin(buf[1])')
      BY <1>m, <2>1 DEF BufFitsFile
    <2>3. ASSUME offset <= Len(file)
          PROVE  IF buf = <<>> THEN MayBegin(NextUnread)' ELSE buf[Len(buf)] = file'[offset]
      <3>1. CASE buf = <<>>
        <4>1. MayBegin(NextUnread)
          BY <2>3, <3>1 DEF BufFitsFile
        <4>2. CASE offset < Len(file)
          <5>1. NextUnread' = file'[offset + 1] /\ NextUnread = file[offset + 1]
            BY <1>t, <2>1, <4>2 DEF NextUnread
          <5>2. file'[offset + 1] = file[offset + 1]
            BY <1>t, <2>1, <4>2
          <5> QED
            BY <1>m, <3>1, <4>1, <5>1, <5>2 DEF MayBegin, LineBegins
        <4>3. CASE offset = Len(file)
          <5>1. NextUnread' = file'[offset + 1] /\ NextUnread = next
            BY <1>t, <2>1, <4>3 DEF NextUnread
          <5>2. file'[offset + 1] = next
            BY <2>1, <4>3
          <5> QED
            BY <1>m, <3>1, <4>1, <5>1, <5>2 DEF MayBegin, LineBegins
        <4> QED
          BY <1>t, <2>3, <4>2, <4>3
      <3>2. CASE buf # <<>>
        <4>1. buf[Len(buf)] = file[offset] /\ offset \in 1 .. Len(file)
          BY <1>t, <2>2, <2>3, <3>2 DEF BufFitsFile
        <4> QED
          BY <2>1, <3>2, <4>1
      <3> QED
        BY <3>1, <3>2
    <2>4. offset <= Len(file') => offset <= Len(file)
      BY <1>t, <2>1 DEF NoticedInTime
    <2> QED
      BY <2>1, <2>2, <2>3, <2>4 DEF BufFitsFile, Consecutive
  <1>3. CASE NewSession
    <2>1. ~writing' /\ file' = file /\ UNCHANGED <<pc, offset, buf, starts>>
      BY <1>3 DEF NewSession, tailerVars, history
    <2>2. LineBegins(next')
      <3>1. LineBegins(next)'
        BY <1>f, <2>1 DEF FileIsWhole
      <3> QED
        BY <3>1 DEF LineBegins
    <2>3. NextUnread' = NextUnread \/ NextUnread' = next'
      BY <2>1 DEF NextUnread
    <2>4. MayBegin(NextUnread) => MayBegin(NextUnread)'
      BY <1>l, <1>m, <2>2, <2>3 DEF MayBegin, LineBegins
    <2> QED
      BY <1>m, <2>1, <2>4 DEF BufFitsFile, Consecutive
  <1>4. CASE Start
    <2>1. /\ offset' = Len(file) /\ buf' = <<>> /\ starts' = Append(starts, next)
          /\ UNCHANGED <<file, next>>
      BY <1>4 DEF Start, StartAt, gameVars
    <2>2. NextUnread' = next
      BY <1>t, <2>1 DEF NextUnread
    <2>3. \E s \in 1 .. Len(starts') : starts'[s] = next
      <3>1. /\ Len(starts') = Len(starts) + 1 /\ starts'[Len(starts) + 1] = next
            /\ Len(starts) \in Nat
        BY <2>1, AppendProperties, LenProperties DEF TypeOK
      <3> QED
        BY <3>1
    <2>4. MayBegin(NextUnread)'
      BY <2>2, <2>3 DEF MayBegin
    <2> QED
      BY <1>e, <1>t, <2>1, <2>4 DEF BufFitsFile, Consecutive
  <1>5. CASE StartStatFails
    BY <1>0, <1>5 DEF StartStatFails, StartAt, gameVars
  <1>6. CASE Poll
    <2>1. /\ UNCHANGED <<file, next>> /\ pc # "down"
          /\ \/ offset' = 0 /\ buf' = <<>>
             \/ offset' = offset /\ buf' = buf
      BY <1>6 DEF Poll, gameVars
    <2> QED
      BY <1>0, <1>s, <2>1
  <1>7. CASE Read
    <2> DEFINE data == From(file, offset)
    <2>1. /\ pc = "read" /\ UNCHANGED <<file, next, starts>>
          /\ offset' = offset + Len(data) /\ buf' = buf \o data
      BY <1>7 DEF Read, gameVars
    <2>2. /\ data \in Seq(Nat) /\ Len(data) = IF offset <= Len(file) THEN Len(file) - offset ELSE 0
          /\ data = <<>> <=> offset >= Len(file)
          /\ Consecutive(data)
      BY <1>t, FromFacts, ConsecutiveFrom DEF FileIsWhole
    <2>3. CASE offset >= Len(file)
      <3>1. data = <<>> /\ Len(data) = 0
        BY <2>2, <2>3
      <3>2. buf \o <<>> = buf
        BY <1>t, ConcatEmptySeq
      <3>3. UNCHANGED <<file, next, offset, buf>>
        BY <1>t, <2>1, <3>1, <3>2
      <3> QED
        BY <1>s, <2>1, <3>3
    <2>4. CASE offset < Len(file)
      <3>1. /\ data[1] = file[offset + 1] /\ data[Len(data)] = file[Len(file)]
            /\ data # <<>> /\ Len(data) = Len(file) - offset
            /\ file[offset + 1] = file[1] + offset
        BY <1>t, <2>2, <2>4, ConsecutiveFrom DEF FileIsWhole
      <3> HIDE DEF data
      <3>2. /\ Consecutive(buf) /\ Len(buf) <= offset /\ (buf # <<>> => MayBegin(buf[1]))
            /\ buf # <<>> => buf[Len(buf)] = file[offset]
            /\ buf = <<>> => MayBegin(file[offset + 1])
        BY <1>t, <2>1, <2>4 DEF BufFitsFile, NextUnread
      <3>3. buf # <<>> => data[1] = buf[Len(buf)] + 1
        <4> SUFFICES ASSUME buf # <<>> PROVE data[1] = buf[Len(buf)] + 1
          OBVIOUS
        <4>1. offset \in 1 .. Len(file) /\ 1 \in 1 .. Len(file)
          BY <1>t, <2>4, <3>2
        <4>2. file[offset] = file[1] + offset - 1 /\ file[1] \in Nat
          BY <1>t, <4>1, ElementOfSeq DEF FileIsWhole, Consecutive
        <4>3. data[1] = file[1] + offset
          BY <3>1
        <4>4. buf[Len(buf)] = file[1] + offset - 1
          BY <3>2, <4>2
        <4> QED
          BY <4>1, <4>2, <4>3, <4>4
      <3>4. Consecutive(buf')
        BY <1>t, <2>1, <2>2, <3>2, <3>3, ConsecutiveConcat
      <3>5. /\ Len(buf') = Len(buf) + Len(data)
            /\ \A i \in 1 .. Len(buf) : buf'[i] = buf[i]
            /\ \A i \in (Len(buf) + 1) .. (Len(buf) + Len(data)) :
                  i - Len(buf) \in 1 .. Len(data) /\ buf'[i] = data[i - Len(buf)]
        <4>1. /\ Len(buf \o data) = Len(buf) + Len(data)
              /\ \A i \in 1 .. Len(buf) : (buf \o data)[i] = buf[i]
              /\ \A i \in (Len(buf) + 1) .. (Len(buf) + Len(data)) :
                    i - Len(buf) \in 1 .. Len(data) /\ (buf \o data)[i] = data[i - Len(buf)]
          BY <1>t, <2>2, ConcatFacts
        <4>2. buf' = buf \o data
          BY <2>1
        <4> QED
          BY <4>1, <4>2
      <3>6. offset' = Len(file) /\ Len(buf') <= offset' /\ Len(buf') > 0
        BY <1>t, <2>1, <2>4, <3>1, <3>2, <3>5
      <3>7. buf'[Len(buf')] = file[Len(file)]
        <4>1. /\ Len(buf') \in (Len(buf) + 1) .. (Len(buf) + Len(data))
              /\ Len(buf') - Len(buf) = Len(data)
          BY <1>t, <2>4, <3>1, <3>5
        <4> QED
          BY <3>1, <3>5, <4>1
      <3>8. MayBegin(buf[1])'
        <4>1. CASE buf = <<>>
          <5>1. 1 \in (Len(buf) + 1) .. (Len(buf) + Len(data)) /\ 1 - Len(buf) = 1
            BY <1>t, <2>4, <3>1, <4>1
          <5>2. buf'[1] = file[offset + 1]
            BY <3>1, <3>5, <5>1
          <5> QED
            BY <1>m, <3>2, <4>1, <5>2 DEF MayBegin, LineBegins
        <4>2. CASE buf # <<>>
          <5>1. 1 \in 1 .. Len(buf)
            BY <1>t, <4>2
          <5>2. buf'[1] = buf[1]
            BY <3>5, <5>1
          <5> QED
            BY <1>m, <3>2, <4>2, <5>2 DEF MayBegin, LineBegins
        <4> QED
          BY <4>1, <4>2
      <3>9. buf' # <<>>
        BY <1>e, <3>6
      <3> QED
        BY <1>t, <2>1, <3>4, <3>6, <3>7, <3>8, <3>9 DEF BufFitsFile, Consecutive, MayBegin, LineBegins
    <2> QED
      BY <1>t, <2>3, <2>4
  <1>8. CASE EmitLine
    <2>1. PICK i \in 1 .. Len(buf) :
              /\ pc = "emit" /\ buf[i] \in LineEnds
              /\ buf' = From(buf, i)
              /\ Len(From(buf, i)) = Len(buf) - i
              /\ \A j \in 1 .. (Len(buf) - i) : From(buf, i)[j] = buf[i + j]
              /\ UNCHANGED <<file, next, writing, truncated, offset, starts>>
      BY <1>8, EmitFacts DEF gameVars
    <2>2. /\ Consecutive(buf) /\ Len(buf) <= offset
          /\ offset <= Len(file) => buf[Len(buf)] = file[offset]
      BY <1>t, <2>1 DEF BufFitsFile
    <2>3. Consecutive(buf')
      BY <1>t, <2>1, <2>2, ConsecutiveFrom
    <2>4. Len(buf') = Len(buf) - i /\ Len(buf') <= offset'
      BY <1>t, <2>1, <2>2
    <2>5. buf[i] \in Nat /\ LineBegins(buf[i] + 1)
      <3>1. buf[i] \in Nat /\ (buf[i] + 1) - 1 = buf[i]
        BY <1>t, ElementOfSeq
      <3> QED
        BY <2>1, <3>1 DEF LineBegins
    <2>6. CASE i = Len(buf)
      <3>1. buf' = <<>>
        BY <1>t, <2>1, <2>6, ConsecutiveFrom, <2>2
      <3>2. ASSUME offset <= Len(file) PROVE MayBegin(NextUnread)'
        <4>1. buf[i] = file[offset] /\ offset \in 1 .. Len(file) /\ 1 \in 1 .. Len(file)
          BY <1>t, <2>2, <2>6, <3>2
        <4>2. file[1] \in Nat /\ file[offset] = file[1] + offset - 1
          BY <1>t, <4>1, ElementOfSeq DEF FileIsWhole, Consecutive
        <4>3. CASE offset < Len(file)
          <5>1. offset + 1 \in 1 .. Len(file)
            BY <1>t, <4>3
          <5>2. file[offset + 1] = file[1] + (offset + 1) - 1
            BY <5>1 DEF FileIsWhole, Consecutive
          <5>3. file[offset + 1] = buf[i] + 1
            BY <1>t, <4>1, <4>2, <5>2
          <5>4. NextUnread' = file[offset + 1]
            BY <2>1, <4>3 DEF NextUnread
          <5> QED
            BY <1>l, <2>5, <5>3, <5>4 DEF MayBegin, LineBegins
        <4>4. CASE offset = Len(file)
          <5>1. NextUnread' = next
            BY <1>t, <2>1, <4>4 DEF NextUnread
          <5>2. LineBegins(next)
            <6>1. CASE ~writing
              BY <6>1 DEF FileIsWhole
            <6>2. CASE writing
              <7>1. truncated /\ file # <<>>
                BY <1>e, <4>1, <6>2 DEF FileIsWhole
              <7>2. file[Len(file)] = next - 1
                BY <7>1 DEF FileIsWhole
              <7>3. next = buf[i] + 1
                BY <1>t, <4>1, <4>4, <7>2
              <7> QED
                BY <2>5, <7>3
            <6> QED
              BY <6>1, <6>2
          <5> QED
            BY <1>l, <5>1, <5>2 DEF MayBegin, LineBegins
        <4> QED
          BY <1>t, <3>2, <4>3, <4>4
      <3> QED
        BY <2>1, <2>3, <2>4, <3>1, <3>2 DEF BufFitsFile
    <2>7. CASE i < Len(buf)
      <3>1. /\ buf' # <<>> /\ buf'[1] = buf[i + 1] /\ buf'[Len(buf')] = buf[Len(buf)]
            /\ buf[i + 1] = buf[1] + i
        <4>1. i \in Nat /\ i < Len(buf)
          BY <1>t, <2>7
        <4>2. /\ From(buf, i) # <<>> /\ From(buf, i)[1] = buf[i + 1]
              /\ From(buf, i)[Len(From(buf, i))] = buf[Len(buf)]
              /\ buf[i + 1] = buf[1] + i
          <5>1. ~(i >= Len(buf))
            BY <1>t, <4>1
          <5> QED
            BY <1>t, <2>2, <4>1, <5>1, ConsecutiveFrom
        <4> QED
          BY <2>1, <4>2
      <3>2. buf[i + 1] = buf[i] + 1
        <4>1. 1 \in 1 .. Len(buf)
          BY <1>t
        <4>2. buf[1] \in Nat /\ buf[i] = buf[1] + i - 1
          BY <1>t, <2>2, <4>1, ElementOfSeq DEF Consecutive
        <4> QED
          BY <1>t, <3>1, <4>2
      <3>3. MayBegin(buf[1])'
        BY <1>l, <2>5, <3>1, <3>2 DEF MayBegin, LineBegins
      <3> QED
        BY <2>1, <2>2, <2>3, <2>4, <3>1, <3>3 DEF BufFitsFile
    <2> QED
      BY <1>t, <2>6, <2>7
  <1>9. CASE ReadFails \/ EmitDone \/ BridgeStops \/ UNCHANGED vars
    <2>1. UNCHANGED <<file, next, offset, buf>> /\ (pc' # "down" => pc # "down")
      BY <1>9 DEF ReadFails, EmitDone, BridgeStops, vars, gameVars, tailerVars
    <2> QED
      BY <1>s, <2>1
  <1> QED
    BY <1>1, <1>2, <1>3, <1>4, <1>5, <1>6, <1>7, <1>8, <1>9 DEF Next, Game, Tailer

\* The line that EmitLine cuts off a buffer that begins with a line is whole.
LEMMA EmittedIsWhole ==
    ASSUME TypeOK, BufFitsFile, pc # "down",
           NEW i \in 1 .. Len(buf), i # 1,
           buf[i] \in LineEnds, \A j \in 1 .. (i - 1) : buf[j] \notin LineEnds,
           NEW l \in Seq(Nat), Len(l) = i - 1, \A j \in 1 .. (i - 1) : l[j] = buf[j]
    PROVE  /\ l[1] = buf[1] /\ l[Len(l)] + 1 = buf[i]
           /\ LineBegins(buf[1]) => Whole(l)
  <1>1. buf \in Seq(Nat) /\ Len(buf) \in Nat /\ i \in Nat /\ i >= 2 /\ i <= Len(buf)
    BY LenProperties DEF TypeOK
  <1>2. 1 \in 1 .. Len(buf) /\ i - 1 \in 1 .. Len(buf) /\ i - 1 \in 1 .. (i - 1) /\ 1 \in 1 .. (i - 1)
    BY <1>1
  <1>3. buf[1] \in Nat /\ l[1] = buf[1] /\ l[Len(l)] = buf[i - 1] /\ l # <<>>
    BY <1>1, <1>2, ElementOfSeq
  <1>4. buf[i] = buf[1] + i - 1 /\ buf[i - 1] = buf[1] + (i - 1) - 1
    BY <1>2 DEF BufFitsFile, Consecutive
  <1>5. l[Len(l)] + 1 = buf[i]
    <2>1. buf[1] \in Nat
      BY <1>3
    <2>2. buf[i - 1] + 1 = buf[i]
      <3> DEFINE a == buf[1]
      <3>1. a \in Nat /\ buf[i] = a + i - 1 /\ buf[i - 1] = a + (i - 1) - 1
        BY <1>4, <2>1
      <3> HIDE DEF a
      <3>2. a + (i - 1) - 1 + 1 = a + i - 1
        BY <1>1, <3>1
      <3> QED
        BY <3>1, <3>2
    <2> QED
      BY <1>3, <2>2
  <1>6. ASSUME NEW j \in 1 .. Len(l) PROVE l[j] = l[1] + j - 1 /\ l[j] \notin LineEnds
    <2>1. j \in 1 .. (i - 1) /\ j \in 1 .. Len(buf)
      BY <1>1
    <2>2. buf[j] = buf[1] + j - 1
      BY <2>1 DEF BufFitsFile, Consecutive
    <2> QED
      BY <1>3, <2>1, <2>2
  <1> QED
    BY <1>3, <1>5, <1>6 DEF Whole, LineBegins

\* Only whole lines are handed over, but for the rest of one at each start.
LEMMA TornStep ==
    ASSUME TypeOK, BufFitsFile, TornOnlyAtStart, [Next]_vars
    PROVE  TornOnlyAtStart'
  <1>t. /\ lines \in Seq(Seq(Nat)) /\ Len(lines) \in Nat
        /\ buf \in Seq(Nat) /\ Len(buf) \in Nat
    BY LenProperties DEF TypeOK
  <1>s. \A s \in 1 .. Len(starts) : s \in 1 .. Len(starts') /\ starts'[s] = starts[s]
    BY MayBeginStays DEF MayBegin, LineBegins
  <1>w. \A l : Whole(l)' <=> Whole(l)
    BY DEF Whole
  <1>o. ASSUME NEW n \in 1 .. Len(lines)
        PROVE  Whole(lines[n]) \/ \E s \in 1 .. Len(starts') : lines[n][1] = starts'[s]
    BY <1>s DEF TornOnlyAtStart
  <1>1. CASE lines' = lines
    BY <1>1, <1>o DEF TornOnlyAtStart, Whole
  <1>2. CASE EmitLine
    <2>1. PICK i \in 1 .. Len(buf) :
              /\ pc = "emit" /\ buf[i] \in LineEnds
              /\ \A j \in 1 .. (i - 1) : buf[j] \notin LineEnds
              /\ lines' = IF i = 1 THEN lines ELSE Append(lines, UpTo(buf, i - 1))
              /\ UpTo(buf, i - 1) \in Seq(Nat) /\ Len(UpTo(buf, i - 1)) = i - 1
              /\ \A j \in 1 .. (i - 1) : UpTo(buf, i - 1)[j] = buf[j]
              /\ starts' = starts
      BY <1>2, EmitFacts
    <2>2. CASE i = 1
      BY <1>1, <2>1, <2>2
    <2>3. CASE i # 1
      <3> DEFINE l == UpTo(buf, i - 1)
      <3>1. l[1] = buf[1] /\ (LineBegins(buf[1]) => Whole(l))
        BY <2>1, <2>3, EmittedIsWhole
      <3>2. MayBegin(buf[1])
        BY <1>t, <2>1, EmptySeq DEF BufFitsFile
      <3>3. Whole(l) \/ \E s \in 1 .. Len(starts') : l[1] = starts'[s]
        BY <2>1, <3>1, <3>2 DEF MayBegin
      <3>4. /\ Len(lines') = Len(lines) + 1 /\ lines'[Len(lines) + 1] = l
            /\ \A n \in 1 .. Len(lines) : lines'[n] = lines[n]
        BY <1>t, <2>1, <2>3, AppendProperties
      <3> HIDE DEF l
      <3>5. ASSUME NEW n \in 1 .. Len(lines')
            PROVE  Whole(lines'[n]) \/ \E s \in 1 .. Len(starts') : lines'[n][1] = starts'[s]
        <4>1. CASE n = Len(lines) + 1
          BY <3>3, <3>4, <4>1
        <4>2. CASE n # Len(lines) + 1
          <5>1. n \in 1 .. Len(lines)
            BY <1>t, <3>4, <4>2
          <5> QED
            BY <1>o, <3>4, <5>1
        <4> QED
          BY <4>1, <4>2
      <3> QED
        BY <3>5 DEF TornOnlyAtStart, Whole
    <2> QED
      BY <2>2, <2>3
  <1>3. lines' = lines \/ EmitLine
    BY DEF Next, Game, Tailer, WriteEvent, Flush, NewSession, Start, StartStatFails,
           StartAt, Poll, Read, ReadFails, EmitDone, BridgeStops, vars, history
  <1> QED
    BY <1>1, <1>2, <1>3

LEMMA TornInit == Init => TornInv
  <1> SUFFICES ASSUME Init PROVE TornInv
    OBVIOUS
  <1>1. <<>> \in Seq(Nat) /\ <<>> \in Seq(Seq(Nat)) /\ 0 \in Nat /\ 1 \in Nat /\ Len(<<>>) = 0
    BY EmptySeq
  <1>2. TypeOK
    BY <1>1, Zenon DEF Init, TypeOK
  <1>3. FileIsWhole
    BY <1>1 DEF Init, FileIsWhole, Consecutive, LineBegins
  <1>4. BufFitsFile /\ TornOnlyAtStart
    BY <1>1 DEF Init, BufFitsFile, TornOnlyAtStart
  <1> QED
    BY <1>2, <1>3, <1>4 DEF TornInv

\* While the Tailer sees every truncation, onLine only gets whole events; the one
\* exception is the rest of a line that was being written when the bridge started.
THEOREM OnlyWholeLines ==
    ASSUME ~RegrowthRace
    PROVE  Spec => []TornOnlyAtStart
  <1>1. TornInv /\ [Next]_vars => TornInv'
    BY TypeStep, FileStep, BufStep, TornStep DEF TornInv
  <1>2. TornInv => TornOnlyAtStart
    BY DEF TornInv
  <1> QED
    BY <1>1, <1>2, TornInit, PTL DEF Spec

-----------------------------------------------------------------------------
(* Nothing is left behind.  A newline that was read and is no longer in the  *)
(* buffer was emitted, if its line began in this run of the bridge.          *)

\* write_event writes at least the two bytes of an empty object before a newline.
NoBlankLines == \A e \in LineEnds : e > 1 /\ e - 1 \notin LineEnds

StartsPast ==
    /\ \A s \in 1 .. Len(starts) : starts[s] <= LastOr(starts, 1)
    /\ LastOr(starts, 1) <= next

ReadIsEmitted ==
    pc # "down" /\ offset <= Len(file) =>
        \A p \in 1 .. (offset - Len(buf)) :
            file[p] \in LineEnds /\ LineStart(file[p]) >= LastOr(starts, 1)
                => Emitted(file[p])

RestIsPartial ==
    pc \in {"poll", "read"} => \A i \in 1 .. Len(buf) : buf[i] \notin LineEnds

CaughtInv == OrderInv /\ TornInv /\ StartsPast /\ ReadIsEmitted /\ RestIsPartial

\* A bounded set of numbers that is not empty has a greatest element.
LEMMA GreatestExists ==
    ASSUME NEW S \in SUBSET Nat, NEW n \in Nat, \A i \in S : i <= n, S # {}
    PROVE  \E i \in S : \A j \in S : j <= i
  <1> DEFINE T == {n - i : i \in S}
  <1>1. T \subseteq Nat /\ T # {}
    <2>1. \A i \in S : n - i \in Nat
      OBVIOUS
    <2> QED
      BY <2>1
  <1>2. PICK x \in T : \A y \in T : ~(<<y, x>> \in OpToRel(<, Nat))
    BY <1>1, NatLessThanWellFounded, WFMin
  <1>3. \A y \in T : ~(y < x)
    BY <1>1, <1>2 DEF OpToRel
  <1>4. PICK i \in S : x = n - i
    OBVIOUS
  <1>5. ASSUME NEW j \in S PROVE j <= i
    <2>1. n - j \in T
      OBVIOUS
    <2>2. ~(n - j < n - i)
      BY <1>3, <1>4, <2>1
    <2> QED
      BY <2>2
  <1> QED
    BY <1>5

\* The first byte of a line is the one place before its newline where a line begins
\* and after which no other newline comes.
LEMMA LineStartIs ==
    ASSUME NEW e \in Nat, NEW x \in 1 .. e, LineBegins(x),
           \A y \in x .. (e - 1) : y \notin LineEnds
    PROVE  LineStart(e) = x
  <1> DEFINE P(s) == /\ s = 1 \/ s - 1 \in LineEnds
                     /\ \A y \in s .. (e - 1) : y \notin LineEnds
  <1>1. P(x)
    BY DEF LineBegins
  <1>2. ASSUME NEW s \in 1 .. e, P(s) PROVE s = x
    <2>1. CASE s < x
      <3>1. x - 1 \in LineEnds /\ x - 1 \in s .. (e - 1)
        BY <2>1 DEF LineBegins
      <3> QED
        BY <1>2, <3>1
    <2>2. CASE s > x
      <3>1. s - 1 \in LineEnds /\ s - 1 \in x .. (e - 1)
        BY <1>2, <2>2
      <3> QED
        BY <3>1
    <2> QED
      BY <2>1, <2>2
  <1>3. LineStart(e) = CHOOSE s \in 1 .. e : P(s)
    BY DEF LineStart
  <1> HIDE DEF P
  <1>4. LineStart(e) \in 1 .. e /\ P(LineStart(e))
    BY <1>1, <1>3
  <1> QED
    BY <1>2, <1>4

\* In the middle of a line, its first byte is further back.
LEMMA LineStartBefore ==
    ASSUME NEW e \in Nat, NEW x \in 1 .. e, ~LineBegins(x),
           \A y \in x .. (e - 1) : y \notin LineEnds
    PROVE  LineStart(e) \in 1 .. (x - 1)
  <1> DEFINE S == {n \in 1 .. (x - 1) : LineBegins(n)}
  <1>1. x # 1 /\ 1 \in S
    BY DEF LineBegins
  <1>2. S \in SUBSET Nat /\ x \in Nat /\ \A n \in S : n <= x
    OBVIOUS
  <1>3. PICK g \in S : \A n \in S : n <= g
    BY <1>1, <1>2, GreatestExists
  <1>4. ASSUME NEW y \in g .. (e - 1) PROVE y \notin LineEnds
    <2>1. CASE y >= x
      BY <2>1
    <2>2. CASE y < x /\ y \in LineEnds
      <3>1. LineBegins(y + 1) /\ y + 1 \in 1 .. x
        <4>1. y \in Nat /\ (y + 1) - 1 = y /\ g >= 1
          OBVIOUS
        <4> QED
          BY <2>2, <4>1 DEF LineBegins
      <3>2. y + 1 \in S
        <4>1. y + 1 # x
          BY <3>1
        <4> QED
          BY <3>1, <4>1
      <3>3. y + 1 <= g
        BY <1>3, <3>2
      <3> QED
        BY <3>3
    <2> QED
      BY <2>1, <2>2
  <1>5. g \in 1 .. e /\ g \in 1 .. (x - 1) /\ LineBegins(g)
    OBVIOUS
  <1> HIDE DEF S
  <1>6. LineStart(e) = g
    BY <1>4, <1>5, LineStartIs
  <1> QED
    BY <1>5, <1>6

LEMMA LineStartBound ==
    ASSUME NEW e \in Nat, e >= 1
    PROVE  LineStart(e) \in 1 .. e
  <1>1. e \in 1 .. e /\ \A y \in e .. (e - 1) : y \notin LineEnds
    OBVIOUS
  <1>2. CASE LineBegins(e)
    BY <1>1, <1>2, LineStartIs
  <1>3. CASE ~LineBegins(e)
    <2>1. LineStart(e) \in 1 .. (e - 1)
      BY <1>1, <1>3, LineStartBefore
    <2> QED
      BY <2>1
  <1> QED
    BY <1>2, <1>3

\* The stamp of the next byte only grows.
LEMMA NextGrows ==
    ASSUME TypeOK, [Next]_vars
    PROVE  next' \in Nat /\ next <= next'
  <1>1. next \in Nat
    BY DEF TypeOK
  <1>2. CASE Flush
    <2>1. PICK e \in LineEnds, k \in Nat : next <= k /\ next' = k + 1
      BY <1>2, FlushFacts
    <2> QED
      BY <1>1, <2>1
  <1>3. CASE NewSession
    <2>1. next' = next \/ \E e \in LineEnds : IsLineEnd(e) /\ next' = e + 1
      BY <1>3 DEF NewSession
    <2> QED
      BY <1>1, <2>1, LineEndsAssumption DEF IsLineEnd
  <1>4. next' = next \/ Flush \/ NewSession
    BY DEF Next, Game, Tailer, WriteEvent, Start, StartStatFails, StartAt, Poll, Read,
           ReadFails, EmitLine, EmitDone, BridgeStops, vars, gameVars
  <1> QED
    BY <1>1, <1>2, <1>3, <1>4

\* The starts are in order, the last one not after the next byte.
LEMMA StartsStep ==
    ASSUME TypeOK, StartsPast, [Next]_vars
    PROVE  StartsPast'
  <1>t. starts \in Seq(Nat) /\ Len(starts) \in Nat /\ next \in Nat
    BY LenProperties DEF TypeOK
  <1>n. next' \in Nat /\ next <= next'
    BY NextGrows
  <1>l. LastOr(starts, 1) \in Nat
    BY <1>t, EmptySeq, ElementOfSeq DEF LastOr
  <1>1. CASE starts' = starts
    <2>1. LastOr(starts, 1) <= next'
      BY <1>t, <1>n, <1>l DEF StartsPast
    <2> QED
      BY <1>1, <2>1 DEF StartsPast
  <1>2. CASE starts' = Append(starts, next) /\ next' = next
    <2>1. /\ Len(starts') = Len(starts) + 1 /\ starts'[Len(starts) + 1] = next
          /\ \A s \in 1 .. Len(starts) : starts'[s] = starts[s]
          /\ starts' # <<>>
      BY <1>t, <1>2, AppendProperties
    <2>2. LastOr(starts, 1)' = next
      BY <2>1 DEF LastOr
    <2>3. ASSUME NEW s \in 1 .. Len(starts') PROVE starts'[s] <= next
      <3>1. CASE s = Len(starts) + 1
        BY <1>t, <2>1, <3>1
      <3>2. CASE s # Len(starts) + 1
        <4>1. s \in 1 .. Len(starts)
          BY <1>t, <2>1, <3>2
        <4>2. starts[s] \in Nat /\ starts[s] <= LastOr(starts, 1) /\ LastOr(starts, 1) <= next
          BY <1>t, <4>1, ElementOfSeq DEF StartsPast
        <4> QED
          BY <1>t, <1>l, <2>1, <4>1, <4>2
      <3> QED
        BY <3>1, <3>2
    <2> QED
      BY <1>t, <1>2, <2>2, <2>3 DEF StartsPast
  <1>3. starts' = starts \/ (starts' = Append(starts, next) /\ next' = next)
    BY DEF Next, Game, Tailer, WriteEvent, Flush, NewSession, Start, StartStatFails,
           StartAt, Poll, Read, ReadFails, EmitLine, EmitDone, BridgeStops, vars,
           gameVars, history
  <1> QED
    BY <1>1, <1>2, <1>3

\* Between two polls the buffer holds no newline.
LEMMA RestStep ==
    ASSUME TypeOK, RestIsPartial, [Next]_vars
    PROVE  RestIsPartial'
  <1>1. Len(<<>>) = 0
    OBVIOUS
  <1>2. CASE pc' \in {"poll", "read"}
    BY <1>1, <1>2 DEF RestIsPartial, Next, Game, Tailer, WriteEvent, Flush, NewSession,
           Start, StartStatFails, StartAt, Poll, Read, ReadFails, EmitLine, EmitDone,
           BridgeStops, vars, tailerVars
  <1> QED
    BY <1>2 DEF RestIsPartial

\* Byte j of the buffer is the byte of the file that it was read from.
LEMMA BufInFile ==
    ASSUME TypeOK, FileIsWhole, BufFitsFile, pc # "down", offset <= Len(file),
           NEW j \in 1 .. Len(buf)
    PROVE  /\ offset - Len(buf) + j \in 1 .. Len(file)
           /\ file[offset - Len(buf) + j] = buf[j]
  <1>1. /\ file \in Seq(Nat) /\ buf \in Seq(Nat) /\ offset \in Nat
        /\ Len(file) \in Nat /\ Len(buf) \in Nat
    BY LenProperties DEF TypeOK
  <1>2. Len(buf) <= offset /\ buf[Len(buf)] = file[offset] /\ Consecutive(buf)
    BY <1>1, EmptySeq DEF BufFitsFile
  <1>3. /\ 1 \in 1 .. Len(buf) /\ Len(buf) \in 1 .. Len(buf)
        /\ 1 \in 1 .. Len(file) /\ offset \in 1 .. Len(file)
        /\ offset - Len(buf) + j \in 1 .. Len(file)
    BY <1>1, <1>2
  <1> DEFINE a == buf[1]
             b == file[1]
  <1>4. a \in Nat /\ b \in Nat
    BY <1>1, <1>3, ElementOfSeq
  <1>5. buf[j] = a + j - 1 /\ buf[Len(buf)] = a + Len(buf) - 1
    BY <1>2, <1>3 DEF Consecutive
  <1>6. /\ file[offset] = b + offset - 1
        /\ file[offset - Len(buf) + j] = b + (offset - Len(buf) + j) - 1
    BY <1>3 DEF FileIsWhole, Consecutive
  <1> HIDE DEF a, b
  <1>7. a + Len(buf) - 1 = b + offset - 1
    BY <1>2, <1>5, <1>6
  <1>8. b + (offset - Len(buf) + j) - 1 = a + j - 1
    BY <1>1, <1>4, <1>7
  <1> QED
    BY <1>3, <1>5, <1>6, <1>8

\* What was emitted stays emitted.
LEMMA EmittedStays ==
    ASSUME TypeOK, [Next]_vars, NEW e, Emitted(e)
    PROVE  Emitted(e)'
  <1>1. lines' = lines \/ \E l \in Seq(Nat) : lines' = Append(lines, l)
    <2>1. CASE EmitLine
      BY <2>1, EmitFacts
    <2>2. lines' = lines \/ EmitLine
      BY DEF Next, Game, Tailer, WriteEvent, Flush, NewSession, Start, StartStatFails,
             StartAt, Poll, Read, ReadFails, EmitDone, BridgeStops, vars, history
    <2> QED
      BY <2>1, <2>2
  <1>2. lines \in Seq(Seq(Nat)) /\ Len(lines) \in Nat
    BY LenProperties DEF TypeOK
  <1>3. \A n \in 1 .. Len(lines) : n \in 1 .. Len(lines') /\ lines'[n] = lines[n]
    <2>1. CASE lines' = lines
      BY <2>1
    <2>2. ASSUME NEW l \in Seq(Nat), lines' = Append(lines, l)
          PROVE  \A n \in 1 .. Len(lines) : n \in 1 .. Len(lines') /\ lines'[n] = lines[n]
      BY <1>2, <2>2, AppendProperties
    <2> QED
      BY <1>1, <2>1, <2>2
  <1>4. PICK n \in 1 .. Len(lines) : Whole(lines[n]) /\ lines[n][Len(lines[n])] + 1 = e
    BY DEF Emitted
  <1>5. n \in 1 .. Len(lines') /\ lines'[n] = lines[n]
    BY <1>3
  <1> QED
    BY <1>4, <1>5 DEF Emitted, Whole

\* A newline that leaves the buffer was emitted, or its line began before this run.
LEMMA EmitsTheLine ==
    ASSUME NoBlankLines, TypeOK, BufFitsFile, StartsPast, pc # "down",
           NEW i \in 1 .. Len(buf), buf[i] \in LineEnds,
           \A j \in 1 .. (i - 1) : buf[j] \notin LineEnds,
           lines' = IF i = 1 THEN lines ELSE Append(lines, UpTo(buf, i - 1)),
           buf[1] >= 1, LineStart(buf[i]) >= LastOr(starts, 1), NEW e, e = buf[i]
    PROVE  Emitted(e)'
  <1>1. /\ buf \in Seq(Nat) /\ Len(buf) \in Nat /\ starts \in Seq(Nat) /\ Len(starts) \in Nat
        /\ lines \in Seq(Seq(Nat)) /\ Len(lines) \in Nat
    BY LenProperties DEF TypeOK
  <1>2. Consecutive(buf) /\ MayBegin(buf[1])
    BY <1>1, EmptySeq DEF BufFitsFile
  <1>3. 1 \in 1 .. Len(buf) /\ buf[1] \in Nat /\ buf[i] \in Nat
    BY <1>1, ElementOfSeq
  <1>4. buf[i] = buf[1] + i - 1
    BY <1>2 DEF Consecutive
  <1>5. ASSUME NEW y \in buf[1] .. (buf[i] - 1) PROVE y \notin LineEnds
    <2> DEFINE a == buf[1]
    <2>0. a \in Nat /\ i \in Nat /\ i <= Len(buf) /\ y \in a .. (a + i - 1 - 1)
      BY <1>1, <1>3, <1>4
    <2> HIDE DEF a
    <2>a. y - a + 1 \in 1 .. (i - 1) /\ y - a + 1 \in 1 .. Len(buf) /\ a + (y - a + 1) - 1 = y
      BY <1>1, <2>0
    <2>1. y - buf[1] + 1 \in 1 .. (i - 1) /\ y - buf[1] + 1 \in 1 .. Len(buf)
      BY <2>a DEF a
    <2>2. buf[y - buf[1] + 1] = buf[1] + (y - buf[1] + 1) - 1
      BY <1>2, <2>1 DEF Consecutive
    <2>3. buf[1] + (y - buf[1] + 1) - 1 = y
      BY <2>a DEF a
    <2> QED
      BY <2>1, <2>2, <2>3
  <1>6. CASE ~LineBegins(buf[1])
    <2>1. PICK s \in 1 .. Len(starts) : buf[1] = starts[s]
      BY <1>2, <1>6 DEF MayBegin
    <2>2. buf[1] <= LastOr(starts, 1) /\ LastOr(starts, 1) \in Nat
      BY <1>1, <2>1, EmptySeq, ElementOfSeq DEF StartsPast, LastOr
    <2>3. buf[1] \in 1 .. buf[i]
      BY <1>3, <1>4
    <2>4. LineStart(buf[i]) \in 1 .. (buf[1] - 1)
      BY <1>3, <1>5, <1>6, <2>3, LineStartBefore
    <2> QED
      BY <1>3, <2>2, <2>4
  <1>7. CASE LineBegins(buf[1])
    <2>1. i # 1
      <3>1. buf[i] > 1 /\ buf[i] - 1 \notin LineEnds
        BY DEF NoBlankLines
      <3> QED
        BY <1>3, <1>7, <3>1 DEF LineBegins
    <2> DEFINE l == UpTo(buf, i - 1)
    <2>2. /\ l \in Seq(Nat) /\ Len(l) = i - 1
          /\ \A j \in 1 .. (i - 1) : l[j] = buf[j]
      <3>1. i - 1 \in 0 .. Len(buf)
        BY <1>1
      <3> QED
        BY <1>1, <3>1, UpToFacts
    <2> HIDE DEF l
    <2>3. Whole(l) /\ l[Len(l)] + 1 = buf[i]
      BY <1>7, <2>1, <2>2, EmittedIsWhole
    <2>4. lines' = Append(lines, l)
      BY <2>1 DEF l
    <2>5. Len(lines') = Len(lines) + 1 /\ lines'[Len(lines) + 1] = l
      BY <1>1, <2>2, <2>4, AppendProperties
    <2>6. Len(lines) + 1 \in 1 .. Len(lines')
      BY <1>1, <2>5
    <2>7. Whole(lines'[Len(lines) + 1]) /\ lines'[Len(lines) + 1][Len(lines'[Len(lines) + 1])] + 1 = buf[i]
      BY <2>3, <2>5
    <2> QED
      BY <2>6, <2>7 DEF Emitted, Whole
  <1> QED
    BY <1>6, <1>7

\* Every newline that leaves the buffer is accounted for.
LEMMA ReadStep ==
    ASSUME ~RegrowthRace, NoBlankLines, CaughtInv, TypeOK', StartsPast', [Next]_vars
    PROVE  ReadIsEmitted'
  <1>i. /\ TypeOK /\ FileIsWhole /\ BufFitsFile /\ StartsPast /\ ReadIsEmitted /\ FileGrows
    BY DEF CaughtInv, TornInv, OrderInv
  <1>t. /\ file \in Seq(Nat) /\ buf \in Seq(Nat) /\ next \in Nat /\ offset \in Nat
        /\ Len(file) \in Nat /\ Len(buf) \in Nat /\ Len(starts) \in Nat
        /\ starts \in Seq(Nat) /\ LastOr(starts, 1) \in Nat
    <2>1. /\ file \in Seq(Nat) /\ buf \in Seq(Nat) /\ next \in Nat /\ offset \in Nat
          /\ starts \in Seq(Nat)
      BY <1>i DEF TypeOK
    <2> QED
      BY <2>1, LenProperties, EmptySeq, ElementOfSeq DEF LastOr
  <1>e. \A e : Emitted(e) => Emitted(e)'
    BY <1>i, EmittedStays
  <1>b. pc # "down" => Len(buf) <= offset
    BY <1>i DEF BufFitsFile
  <1>k. ASSUME starts' = starts, pc # "down", offset' <= Len(file') => offset <= Len(file),
               offset' - Len(buf') = offset - Len(buf),
               offset' <= Len(file') => \A p \in 1 .. (offset - Len(buf)) : file'[p] = file[p]
        PROVE  ReadIsEmitted'
    BY <1>i, <1>e, <1>k DEF ReadIsEmitted, LineStart, LastOr
  <1>0. ASSUME offset' - Len(buf') <= 0
        PROVE  ReadIsEmitted'
    <2>1. offset' \in Nat /\ Len(buf') \in Nat
      BY LenProperties DEF TypeOK
    <2>2. 1 .. (offset' - Len(buf')) = {}
      BY <1>0, <2>1
    <2> QED
      BY <2>2 DEF ReadIsEmitted
  <1>d. ASSUME pc' = "down" PROVE ReadIsEmitted'
    BY <1>d DEF ReadIsEmitted
  <1>z. Len(<<>>) = 0
    OBVIOUS
  <1>1. CASE WriteEvent
    <2>1. /\ file' = IF truncated THEN file ELSE <<>>
          /\ UNCHANGED <<pc, offset, buf, starts>>
      BY <1>1 DEF WriteEvent, tailerVars, history
    <2>2. CASE pc = "down"
      BY <1>d, <2>1, <2>2
    <2>3. CASE pc # "down" /\ file' = file
      BY <1>k, <2>1, <2>3
    <2>4. CASE pc # "down" /\ file' = <<>>
      <3>1. CASE offset = 0
        BY <1>0, <1>t, <2>1, <3>1
      <3>2. CASE offset # 0
        <4>1. ~(offset' <= Len(file'))
          BY <1>t, <1>z, <2>1, <2>4, <3>2
        <4> QED
          BY <4>1 DEF ReadIsEmitted
      <3> QED
        BY <3>1, <3>2
    <2> QED
      BY <2>1, <2>2, <2>3, <2>4
  <1>2. CASE Flush
    <2>1. PICK e \in LineEnds, k \in Nat :
              /\ next <= k
              /\ NoticedInTime(Len(file) + k - next + 1)
              /\ UNCHANGED <<pc, offset, buf, starts>>
              /\ Len(file') = Len(file) + k - next + 1
              /\ \A j \in 1 .. Len(file) : file'[j] = file[j]
      BY <1>2, <1>i, FlushFacts DEF tailerVars, history
    <2>2. CASE pc = "down"
      BY <1>d, <2>1, <2>2
    <2>3. CASE pc # "down"
      <3>1. offset' <= Len(file') => offset <= Len(file)
        BY <1>t, <2>1, <2>3 DEF NoticedInTime
      <3>2. offset' <= Len(file') => \A p \in 1 .. (offset - Len(buf)) : file'[p] = file[p]
        <4>1. offset <= Len(file) => \A p \in 1 .. (offset - Len(buf)) : p \in 1 .. Len(file)
          BY <1>t
        <4> QED
          BY <2>1, <3>1, <4>1
      <3> QED
        BY <1>k, <2>1, <2>3, <3>1, <3>2
    <2> QED
      BY <2>2, <2>3
  <1>3. CASE NewSession
    <2>1. UNCHANGED <<file, pc, offset, buf, starts>>
      BY <1>3 DEF NewSession, tailerVars, history
    <2> QED
      BY <1>d, <1>k, <2>1
  <1>4. CASE Start
    <2>1. /\ buf' = <<>> /\ offset' = Len(file) /\ file' = file
          /\ starts' = Append(starts, next)
      BY <1>4 DEF Start, StartAt, gameVars
    <2>2. LastOr(starts, 1)' = next
      <3>1. /\ Len(starts') = Len(starts) + 1 /\ starts'[Len(starts) + 1] = next
            /\ starts' # <<>>
        BY <1>t, <2>1, AppendProperties
      <3> QED
        BY <3>1 DEF LastOr
    <2>3. ASSUME NEW p \in 1 .. Len(file) PROVE LineStart(file[p]) < next
      <3>1. file[p] \in Nat /\ file[p] >= 1 /\ file[p] < next
        BY <1>i, <1>t, ElementOfSeq DEF FileGrows, AllBelow, AllAbove
      <3>2. LineStart(file[p]) \in 1 .. file[p]
        BY <3>1, LineStartBound
      <3> QED
        BY <1>t, <3>1, <3>2
    <2>4. ASSUME NEW p \in 1 .. Len(file) PROVE ~(LineStart(file[p]) >= next)
      <3>1. file[p] \in Nat /\ file[p] >= 1
        BY <1>i, <1>t, ElementOfSeq DEF FileGrows, AllAbove
      <3>2. LineStart(file[p]) \in Nat
        BY <3>1, LineStartBound
      <3> QED
        BY <1>t, <2>3, <3>2
    <2>5. Len(file) - Len(<<>>) = Len(file)
      BY <1>t, <1>z
    <2> QED
      BY <2>1, <2>2, <2>4, <2>5 DEF ReadIsEmitted, LineStart
  <1>5. CASE StartStatFails
    <2>1. offset' = 0 /\ buf' = <<>>
      BY <1>5 DEF StartStatFails, StartAt
    <2> QED
      BY <1>0, <1>z, <2>1
  <1>6. CASE Poll
    <2>1. /\ UNCHANGED <<file, starts>> /\ pc # "down"
          /\ \/ offset' = 0 /\ buf' = <<>>
             \/ offset' = offset /\ buf' = buf
      BY <1>6 DEF Poll, gameVars, history
    <2>2. CASE offset' = 0 /\ buf' = <<>>
      BY <1>0, <1>z, <2>2
    <2>3. CASE offset' = offset /\ buf' = buf
      BY <1>k, <2>1, <2>3
    <2> QED
      BY <2>1, <2>2, <2>3
  <1>7. CASE Read
    <2> DEFINE data == From(file, offset)
    <2>1. /\ pc = "read" /\ UNCHANGED <<file, starts>>
          /\ offset' = offset + Len(data) /\ buf' = buf \o data
      BY <1>7 DEF Read, gameVars
    <2>2. data \in Seq(Nat) /\ Len(data) \in Nat
      BY <1>t, FromFacts
    <2> HIDE DEF data
    <2>3. Len(buf') = Len(buf) + Len(data)
      BY <1>t, <2>1, <2>2, ConcatFacts
    <2>4. offset' - Len(buf') = offset - Len(buf)
      BY <1>t, <2>1, <2>2, <2>3
    <2>5. offset' <= Len(file') => offset <= Len(file)
      BY <1>t, <2>1, <2>2
    <2> QED
      BY <1>k, <2>1, <2>4, <2>5
  <1>8. CASE EmitLine
    <2>1. PICK i \in 1 .. Len(buf) :
              /\ pc = "emit" /\ buf[i] \in LineEnds
              /\ \A j \in 1 .. (i - 1) : buf[j] \notin LineEnds
              /\ lines' = IF i = 1 THEN lines ELSE Append(lines, UpTo(buf, i - 1))
              /\ buf' = From(buf, i)
              /\ Len(From(buf, i)) = Len(buf) - i
              /\ UNCHANGED <<gameVars, pc, offset, starts>>
      BY <1>8, <1>i, EmitFacts
    <2>2. file' = file /\ offset' = offset /\ starts' = starts
      BY <2>1 DEF gameVars
    <2>3. offset' - Len(buf') = offset - Len(buf) + i
      BY <1>t, <2>1, <2>2
    <2> SUFFICES ASSUME offset <= Len(file), NEW p \in 1 .. (offset - Len(buf) + i),
                        file[p] \in LineEnds, LineStart(file[p]) >= LastOr(starts, 1)
                 PROVE  Emitted(file[p])'
      <3>1. \A e : LineStart(e)' = LineStart(e)
        BY DEF LineStart
      <3>2. LastOr(starts, 1)' = LastOr(starts, 1)
        BY <2>2 DEF LastOr
      <3> QED
        BY <2>2, <2>3, <3>1, <3>2 DEF ReadIsEmitted
    <2>4. \A e : (e = file[p] /\ Emitted(e)') => Emitted(file[p])'
      BY <2>2 DEF Emitted
    <2>5. CASE p <= offset - Len(buf)
      <3>1. p \in 1 .. (offset - Len(buf))
        BY <1>t, <2>5
      <3>2. Emitted(file[p])
        BY <1>i, <2>1, <3>1 DEF ReadIsEmitted
      <3> QED
        BY <1>e, <2>4, <3>2
    <2>6. CASE p > offset - Len(buf)
      <3> DEFINE j == p - (offset - Len(buf))
      <3>1. j \in 1 .. Len(buf) /\ j \in 1 .. i /\ offset - Len(buf) + j = p /\ j \in Int
        BY <1>t, <2>6
      <3> HIDE DEF j
      <3>2. p \in 1 .. Len(file) /\ file[p] = buf[j]
        BY <1>i, <2>1, <3>1, BufInFile
      <3>3. j = i
        <4>1. j \notin 1 .. (i - 1)
          BY <2>1, <3>2
        <4> QED
          BY <1>t, <3>1, <4>1
      <3>4. file[p] = buf[i] /\ LineStart(buf[i]) >= LastOr(starts, 1)
        BY <3>2, <3>3
      <3>5. buf[1] >= 1
        <4>1. 1 \in 1 .. Len(buf)
          BY <1>t
        <4>2. offset - Len(buf) + 1 \in 1 .. Len(file) /\ file[offset - Len(buf) + 1] = buf[1]
          BY <1>i, <2>1, <4>1, BufInFile
        <4>3. 0 < buf[1] /\ buf[1] \in Nat
          BY <1>i, <1>t, <4>1, <4>2, ElementOfSeq DEF FileGrows, AllAbove
        <4> QED
          BY <4>3
      <3>6. pc # "down"
        BY <2>1
      <3>7. \A e : e = buf[i] => Emitted(e)'
        BY <1>i, <2>1, <3>4, <3>5, <3>6, EmitsTheLine
      <3> QED
        BY <2>4, <3>4, <3>7
    <2> QED
      BY <1>t, <2>5, <2>6
  <1>9. CASE BridgeStops
    BY <1>9, <1>d DEF BridgeStops
  <1>10. CASE ReadFails \/ EmitDone \/ UNCHANGED vars
    <2>1. UNCHANGED <<file, offset, buf, starts>> /\ (pc = "down" => pc' = "down")
      BY <1>10 DEF ReadFails, EmitDone, vars, gameVars, tailerVars, history
    <2> QED
      BY <1>d, <1>k, <2>1
  <1> QED
    BY <1>1, <1>2, <1>3, <1>4, <1>5, <1>6, <1>7, <1>8, <1>9, <1>10 DEF Next, Game, Tailer

\* A Tailer that waits with nothing left to read has emitted every event that is whole
\* in the file and was written since the bridge started, if no event is a blank line
\* and the Tailer sees every truncation.
THEOREM NothingIsLeftBehind ==
    ASSUME ~RegrowthRace, NoBlankLines
    PROVE  Spec => []CaughtUp
  <1>1. Init => CaughtInv
    <2> SUFFICES ASSUME Init PROVE CaughtInv
      OBVIOUS
    <2>1. Len(<<>>) = 0
      OBVIOUS
    <2>2. OrderInv
      BY OrderInit
    <2>3. StartsPast /\ ReadIsEmitted /\ RestIsPartial
      BY <2>1 DEF Init, StartsPast, ReadIsEmitted, RestIsPartial, LastOr
    <2> QED
      BY <2>2, <2>3, TornInit DEF CaughtInv
  <1>2. ASSUME CaughtInv, [Next]_vars PROVE CaughtInv'
    <2>1. OrderInv' /\ TypeOK'
      BY <1>2, OrderStep DEF CaughtInv, OrderInv
    <2>2. TornInv' /\ StartsPast' /\ RestIsPartial'
      BY <1>2, TypeStep, FileStep, BufStep, TornStep, StartsStep, RestStep DEF CaughtInv, TornInv
    <2>3. ReadIsEmitted'
      BY <1>2, <2>1, <2>2, ReadStep
    <2> QED
      BY <2>1, <2>2, <2>3 DEF CaughtInv
  <1>3. CaughtInv => CaughtUp
    <2> SUFFICES ASSUME CaughtInv, pc = "poll", offset = Len(file),
                        NEW e \in LineEnds, Pending(e)
                 PROVE  Emitted(e)
      BY DEF CaughtUp
    <2>1. PICK p \in 1 .. Len(file) : file[p] = e
      BY DEF Pending
    <2>2. TypeOK /\ FileIsWhole /\ BufFitsFile /\ ReadIsEmitted /\ RestIsPartial
      BY DEF CaughtInv, TornInv
    <2>3. Len(file) \in Nat /\ Len(buf) \in Nat
      BY <2>2, LenProperties DEF TypeOK
    <2>4. CASE p <= offset - Len(buf)
      <3>1. p \in 1 .. (offset - Len(buf)) /\ offset <= Len(file)
        BY <2>3, <2>4
      <3> QED
        BY <2>1, <2>2, <3>1 DEF ReadIsEmitted, Pending
    <2>5. CASE p > offset - Len(buf)
      <3> DEFINE j == p - (offset - Len(buf))
      <3>1. j \in 1 .. Len(buf) /\ offset - Len(buf) + j = p /\ offset <= Len(file)
        BY <2>3, <2>5
      <3> HIDE DEF j
      <3>2. file[p] = buf[j]
        BY <2>2, <3>1, BufInFile
      <3> QED
        BY <2>1, <2>2, <3>1, <3>2 DEF RestIsPartial
    <2> QED
      BY <2>3, <2>4, <2>5
  <1> QED
    BY <1>1, <1>2, <1>3, PTL DEF Spec

-----------------------------------------------------------------------------
(* The Tailer implements EventFeed.                                         *)

FeedSent == {e \in LineEnds : e < next}
FeedGot == [n \in DOMAIN lines |-> EventOf(lines[n])]
GreatestOf(A) == CHOOSE n \in A : \A m \in A : m <= n
FeedPos == IF Accepted = {} THEN 0 ELSE EventOf(lines[GreatestOf(Accepted)])

\* The last event is that of one of the lines since the last rewind.
LEMMA PosIs ==
    ASSUME TypeOK
    PROVE  \/ FeedPos = 0
           \/ \E n \in Accepted : /\ \A m \in Accepted : m <= n
                                  /\ FeedPos = lines[n][Len(lines[n])] + 1
  <1>1. Len(lines) \in Nat /\ clean \in Nat
    BY LenProperties DEF TypeOK
  <1>2. CASE Accepted # {}
    <2>1. Accepted \in SUBSET (0 .. Len(lines))
      BY <1>1 DEF Accepted
    <2>a. Accepted \in SUBSET Nat /\ \A m \in Accepted : m <= Len(lines)
      BY <1>1, <2>1
    <2>2. \E n \in Accepted : \A m \in Accepted : m <= n
      BY <1>1, <1>2, <2>a, GreatestExists
    <2> DEFINE n == GreatestOf(Accepted)
    <2>3. n \in Accepted /\ \A m \in Accepted : m <= n
      BY <2>2 DEF GreatestOf
    <2>4. FeedPos = EventOf(lines[n])
      BY <1>2 DEF FeedPos
    <2> HIDE DEF n
    <2>5. Whole(lines[n])
      BY <2>3 DEF Accepted
    <2>6. FeedPos = lines[n][Len(lines[n])] + 1
      BY <2>4, <2>5 DEF EventOf
    <2> QED
      BY <2>3, <2>6
  <1> QED
    BY <1>2 DEF FeedPos

\* A line more.
LEMMA LineMore ==
    ASSUME TypeOK, clean <= Len(lines), NEW l \in Seq(Nat),
           lines' = Append(lines, l), clean' = clean
    PROVE  /\ FeedGot' = Append(FeedGot, EventOf(l))
           /\ ~Whole(l) => FeedPos' = FeedPos
           /\ Whole(l) => FeedPos' = EventOf(l)
  <1> DEFINE L == Len(lines)
  <1>1. L \in Nat /\ clean \in Nat /\ DOMAIN lines = 1 .. L /\ lines \in Seq(Seq(Nat))
    BY LenProperties DEF TypeOK
  <1>2. /\ Len(lines') = L + 1 /\ DOMAIN lines' = 1 .. L + 1 /\ lines'[L + 1] = l
        /\ \A n \in 1 .. L : lines'[n] = lines[n]
    <2>1. lines' \in Seq(Seq(Nat)) /\ Len(lines') = L + 1
      BY <1>1, AppendProperties
    <2>2. lines'[L + 1] = l /\ \A n \in 1 .. L : lines'[n] = lines[n]
      BY <1>1, AppendProperties
    <2>3. DOMAIN lines' = 1 .. L + 1
      BY <2>1, LenProperties
    <2> QED
      BY <2>1, <2>2, <2>3
  <1>3. EventOf(l) \in Int /\ \A n \in 1 .. L : EventOf(lines[n]) \in Int
    <2>1. ASSUME NEW s \in Seq(Nat) PROVE EventOf(s) \in Int
      <3>1. Whole(s) => Len(s) \in 1 .. Len(s)
        BY EmptySeq, LenProperties DEF Whole
      <3>2. Whole(s) => s[Len(s)] \in Nat
        BY <3>1
      <3> QED
        BY <3>2 DEF EventOf
    <2> QED
      BY <1>1, <2>1
  <1>4. FeedGot' = Append(FeedGot, EventOf(l))
    <2> DEFINE g == [n \in 1 .. L |-> EventOf(lines[n])]
               h == [n \in 1 .. L + 1 |-> EventOf(lines'[n])]
    <2>1. FeedGot = g
      BY <1>1 DEF FeedGot
    <2>2. FeedGot' = h
      BY <1>2 DEF FeedGot, EventOf, Whole
    <2>3. g \in Seq(Int) /\ Len(g) = L
      BY <1>1, <1>3
    <2>4. \A n \in 1 .. L + 1 : h[n] = IF n = L + 1 THEN EventOf(l) ELSE g[n]
      BY <1>1, <1>2
    <2>5. Append(g, EventOf(l)) = [n \in 1 .. L + 1 |-> IF n = L + 1 THEN EventOf(l) ELSE g[n]]
      <3> HIDE DEF g, L
      <3>1. /\ Append(g, EventOf(l)) \in Seq(Int) /\ Len(Append(g, EventOf(l))) = L + 1
            /\ Append(g, EventOf(l))[L + 1] = EventOf(l)
            /\ \A n \in 1 .. L : Append(g, EventOf(l))[n] = g[n]
        BY <1>3, <2>3, AppendProperties
      <3>2. Append(g, EventOf(l)) \in [1 .. L + 1 -> Int]
        BY <3>1, LenProperties
      <3>3. \A n \in 1 .. L + 1 : n # L + 1 => n \in 1 .. L
        BY <1>1
      <3> QED
        BY <3>1, <3>2, <3>3
    <2> HIDE DEF g, L
    <2>6. h = [n \in 1 .. L + 1 |-> IF n = L + 1 THEN EventOf(l) ELSE g[n]]
      BY <2>4
    <2> QED
      BY <2>1, <2>2, <2>5, <2>6
  <1>5. Accepted' = Accepted \cup (IF Whole(l) THEN {L + 1} ELSE {})
    <2>1. ASSUME NEW n \in Accepted' PROVE n \in Accepted \/ (n = L + 1 /\ Whole(l))
      <3>1. n \in clean + 1 .. L + 1 /\ Whole(lines'[n])
        BY <1>2, <2>1 DEF Accepted, Whole
      <3>2. CASE n \in 1 .. L
        BY <1>1, <1>2, <3>1, <3>2 DEF Accepted
      <3>3. CASE n = L + 1
        BY <1>2, <3>1, <3>3
      <3> QED
        BY <1>1, <3>1, <3>2, <3>3
    <2>2. ASSUME NEW n \in Accepted PROVE n \in Accepted'
      <3>1. n \in clean + 1 .. L /\ n \in clean + 1 .. L + 1 /\ n \in 1 .. L /\ Whole(lines[n])
        BY <1>1, <2>2 DEF Accepted
      <3>2. Whole(lines'[n])
        BY <1>2, <3>1
      <3> QED
        BY <1>2, <3>1, <3>2 DEF Accepted, Whole
    <2>3. ASSUME Whole(l) PROVE L + 1 \in Accepted'
      <3>1. L + 1 \in clean + 1 .. L + 1
        BY <1>1
      <3>2. Whole(lines'[L + 1])
        BY <1>2, <2>3
      <3> HIDE DEF L
      <3> QED
        BY <1>2, <3>1, <3>2 DEF Accepted, Whole
    <2> QED
      BY <2>1, <2>2, <2>3
  <1>6. Accepted \subseteq clean + 1 .. L /\ \A n \in Accepted : n <= L
    BY <1>1 DEF Accepted
  <1>7. ASSUME ~Whole(l) PROVE FeedPos' = FeedPos
    <2>1. Accepted' = Accepted
      BY <1>5, <1>7
    <2>2. CASE Accepted = {}
      BY <2>1, <2>2 DEF FeedPos
    <2>3. CASE Accepted # {}
      <3>1. \E n \in Accepted : \A m \in Accepted : m <= n
        <4>1. Accepted \in SUBSET Nat /\ \A m \in Accepted : m <= L
          BY <1>1, <1>6
        <4> QED
          BY <1>1, <2>3, <4>1, GreatestExists
      <3> DEFINE n == GreatestOf(Accepted)
      <3>2. n \in Accepted
        BY <3>1 DEF GreatestOf
      <3>3. n \in 1 .. L
        <4> HIDE DEF n
        <4> QED
          BY <1>1, <1>6, <3>2
      <3>4. lines'[n] = lines[n]
        BY <1>2, <3>3
      <3>5. FeedPos = EventOf(lines[n])
        BY <2>3 DEF FeedPos
      <3>6. FeedPos' = EventOf(lines'[GreatestOf(Accepted')])
        BY <2>1, <2>3 DEF FeedPos, EventOf, Whole
      <3>7. FeedPos' = EventOf(lines'[n])
        BY <2>1, <3>6
      <3> HIDE DEF n
      <3> QED
        BY <3>4, <3>5, <3>7
    <2> QED
      BY <2>2, <2>3
  <1>8. ASSUME Whole(l) PROVE FeedPos' = EventOf(l)
    <2> DEFINE n == GreatestOf(Accepted')
    <2>1. Accepted' = Accepted \cup {L + 1}
      BY <1>5, <1>8
    <2>2. n = L + 1
      <3>1. L + 1 \in Accepted' /\ \A m \in Accepted' : m <= L + 1 /\ m \in Int
        BY <1>1, <1>6, <2>1
      <3>2. n \in Accepted' /\ \A m \in Accepted' : m <= n
        BY <3>1 DEF GreatestOf
      <3> HIDE DEF n, L
      <3>3. n <= L + 1 /\ L + 1 <= n /\ n \in Int
        BY <3>1, <3>2
      <3> QED
        BY <1>1, <3>3
    <2>3. Accepted' # {}
      BY <2>1
    <2>4. FeedPos' = EventOf(lines'[n])
      BY <2>3 DEF FeedPos, EventOf, Whole
    <2> HIDE DEF n
    <2> QED
      BY <1>2, <2>2, <2>4
  <1> QED
    BY <1>4, <1>7, <1>8

\* Bytes more: those of the line that next belongs to.
LEMMA BytesMore ==
    ASSUME next \in Nat, NEW e \in LineEnds, IsLineEnd(e), NEW k \in next .. e, next' = k + 1
    PROVE  \/ FeedSent' = FeedSent
           \/ /\ e \notin FeedSent /\ FeedSent' = FeedSent \cup {e}
              /\ \A d \in LineEnds : d < e => d \in FeedSent
  <1>1. /\ LineEnds \subseteq Nat /\ e \in Nat /\ e >= next /\ k \in Nat /\ k >= next /\ k <= e
        /\ \A f \in LineEnds : f >= next => e <= f
    BY LineEndsAssumption DEF IsLineEnd
  <1>2. FeedSent' = {f \in LineEnds : f < k + 1}
    BY DEF FeedSent
  <1>3. \A f \in LineEnds : f < next \/ e <= f
    BY <1>1
  <1>4. CASE k = e
    <2>1. \A f \in LineEnds : f < k + 1 <=> f < next \/ f = e
      BY <1>1, <1>3, <1>4
    <2>2. FeedSent' = FeedSent \cup {e}
      BY <1>2, <2>1 DEF FeedSent
    <2>3. e \notin FeedSent
      BY <1>1 DEF FeedSent
    <2>4. \A d \in LineEnds : d < e => d < next
      BY <1>1, <1>3
    <2>5. \A d \in LineEnds : d < e => d \in FeedSent
      BY <2>4 DEF FeedSent
    <2> QED
      BY <2>2, <2>3, <2>5
  <1>5. CASE k # e
    <2>1. \A f \in LineEnds : f < k + 1 <=> f < next
      BY <1>1, <1>3, <1>5
    <2> QED
      BY <1>2, <2>1 DEF FeedSent
  <1> QED
    BY <1>4, <1>5

FeedStays == UNCHANGED <<FeedSent, FeedGot, FeedPos>>

LEMMA FeedUnchanged ==
    ASSUME UNCHANGED <<lines, clean>>
    PROVE  FeedGot' = FeedGot /\ FeedPos' = FeedPos
  BY DEF FeedGot, FeedPos, Accepted, EventOf, Whole

\* An event reaches onLine: it was sent, after the last that was accepted.
LEMMA EmitFeeds ==
    ASSUME OrderInv, EmitLine
    PROVE  FeedStays \/ Feed!Receive \/ Feed!ReceiveTorn
  <1>1. TypeOK /\ clean <= Len(lines) /\ LinesBehind /\ BufGrows /\ lastRead < next
    BY DEF OrderInv
  <1>2. PICK i \in 1 .. Len(buf) :
          /\ buf[i] \in LineEnds
          /\ lines' = IF i = 1 THEN lines ELSE Append(lines, UpTo(buf, i - 1))
    BY DEF EmitLine
  <1>3. UNCHANGED <<next, clean>>
    BY DEF EmitLine, gameVars
  <1>4. FeedSent' = FeedSent
    BY <1>3 DEF FeedSent
  <1>5. CASE i = 1
    BY <1>2, <1>3, <1>4, <1>5, FeedUnchanged DEF FeedStays
  <1> DEFINE l == UpTo(buf, i - 1)
  <1>6. CASE i # 1
    <2>1. buf \in Seq(Nat) /\ Len(buf) \in Nat /\ next \in Nat /\ lastRead \in Nat
          /\ lines \in Seq(Seq(Nat)) /\ Len(lines) \in Nat /\ clean \in Nat
      BY <1>1, LenProperties DEF TypeOK
    <2>2. i - 1 \in 0 .. Len(buf) /\ i - 1 \in 1 .. Len(buf) /\ i - 1 \in 1 .. i - 1
      BY <1>6, <2>1
    <2>3. l \in Seq(Nat) /\ Len(l) = i - 1 /\ l[i - 1] = buf[i - 1]
      BY <2>1, <2>2, UpToFacts
    <2>4. lines' = Append(lines, l)
      BY <1>2, <1>6
    <2> HIDE DEF l
    <2>5. /\ FeedGot' = Append(FeedGot, EventOf(l))
          /\ ~Whole(l) => FeedPos' = FeedPos
          /\ Whole(l) => FeedPos' = EventOf(l)
      BY <1>1, <1>3, <2>3, <2>4, LineMore
    <2>6. CASE ~Whole(l)
      <3>1. EventOf(l) = 0
        BY <2>6 DEF EventOf
      <3>2. FeedGot' = Append(FeedGot, 0) /\ FeedPos' = FeedPos
        BY <2>5, <2>6, <3>1
      <3> QED
        BY <1>4, <3>2 DEF Feed!ReceiveTorn, Feed!Torn, FeedSent, FeedGot, FeedPos, GreatestOf
    <2>7. CASE Whole(l)
      <3>1. EventOf(l) = buf[i - 1] + 1
        BY <2>3, <2>7 DEF EventOf
      <3>2. EventOf(l) \in LineEnds
        BY <2>7 DEF EventOf, Whole
      <3>a. buf[i - 1] \in Nat /\ buf[i] \in Nat /\ i - 1 < i
        BY <2>1, <2>2
      <3>b. buf[i - 1] < buf[i]
        BY <1>1, <2>2, <3>a DEF BufGrows, Increasing
      <3>c. buf[i] < lastRead + 1
        BY <1>1 DEF BufGrows, AllBelow
      <3>3. buf[i - 1] \in Nat /\ buf[i] \in Nat /\ buf[i - 1] < buf[i] /\ buf[i] < lastRead + 1
        BY <3>a, <3>b, <3>c
      <3>4. EventOf(l) < next
        BY <1>1, <2>1, <3>1, <3>3
      <3>5. EventOf(l) \in FeedSent
        BY <3>2, <3>4 DEF FeedSent
      <3>6. FeedPos < EventOf(l)
        <4>1. CASE FeedPos = 0
          BY <3>1, <3>3, <4>1
        <4>2. CASE FeedPos # 0
          <5>1. PICK n \in Accepted : FeedPos = lines[n][Len(lines[n])] + 1
            BY <1>1, <4>2, PosIs
          <5>2. n \in (clean + 1) .. Len(lines) /\ n \in 1 .. Len(lines) /\ Whole(lines[n])
            BY <2>1 DEF Accepted
          <5>3. lines[n] \in Seq(Nat) /\ lines[n] # <<>>
            BY <2>1, <5>2 DEF Whole
          <5>4. Len(lines[n]) \in 1 .. Len(lines[n]) /\ lines[n][Len(lines[n])] \in Nat
            BY <5>3, EmptySeq, LenProperties
          <5>5. lines[n][Len(lines[n])] < buf[i - 1]
            BY <1>1, <2>2, <5>2, <5>4 DEF LinesBehind, AllAbove
          <5> QED
            BY <3>1, <3>3, <5>1, <5>4, <5>5
        <4> QED
          BY <4>1, <4>2
      <3>7. FeedPos' = EventOf(l) /\ FeedGot' = Append(FeedGot, EventOf(l))
        BY <2>5, <2>7
      <3> QED
        BY <1>4, <3>5, <3>6, <3>7 DEF Feed!Receive, FeedSent, FeedGot, FeedPos, GreatestOf
    <2> QED
      BY <2>6, <2>7
  <1> QED
    BY <1>5, <1>6

LEMMA FeedStep ==
    ASSUME OrderInv, [Next]_vars
    PROVE  FeedStays \/ Feed!Next
  <1>1. TypeOK /\ next \in Nat /\ Len(lines) \in Nat
    BY LenProperties DEF OrderInv, TypeOK
  <1>2. ASSUME UNCHANGED <<next, lines, clean>> PROVE FeedStays
    BY <1>2, FeedUnchanged DEF FeedStays, FeedSent
  <1>3. ASSUME NEW e \in LineEnds, IsLineEnd(e), NEW k \in next .. e, next' = k + 1,
               UNCHANGED <<lines, clean>>
        PROVE  FeedStays \/ Feed!Next
    <2>1. FeedGot' = FeedGot /\ FeedPos' = FeedPos
      BY <1>3, FeedUnchanged
    <2>2. CASE FeedSent' = FeedSent
      BY <2>1, <2>2 DEF FeedStays
    <2>3. CASE /\ e \notin FeedSent /\ FeedSent' = FeedSent \cup {e}
               /\ \A d \in LineEnds : d < e => d \in FeedSent
      <3>1. Feed!Send
        BY <2>1, <2>3 DEF Feed!Send, FeedSent, FeedGot, FeedPos, GreatestOf
      <3> QED
        BY <3>1 DEF Feed!Next
    <2> QED
      BY <1>1, <1>3, <2>2, <2>3, BytesMore
  <1>4. CASE WriteEvent
    BY <1>2, <1>4 DEF WriteEvent, tailerVars, history
  <1>5. CASE Flush
    <2>1. PICK e \in LineEnds : IsLineEnd(e) /\ \E k \in next .. e : next' = k + 1
      BY <1>5 DEF Flush
    <2>2. UNCHANGED <<lines, clean>>
      BY <1>5 DEF Flush, history
    <2> QED
      BY <1>3, <2>1, <2>2
  <1>6. CASE NewSession
    <2>1. UNCHANGED <<lines, clean>>
      BY <1>6 DEF NewSession, history
    <2>2. CASE next' = next
      BY <1>2, <2>1, <2>2
    <2>3. CASE \E e \in LineEnds : IsLineEnd(e) /\ next' = e + 1
      <3>1. PICK e \in LineEnds : IsLineEnd(e) /\ next' = e + 1
        BY <2>3
      <3>2. e \in next .. e
        BY <1>1, <3>1, LineEndsAssumption DEF IsLineEnd
      <3> QED
        BY <1>3, <2>1, <3>1, <3>2
    <2> QED
      BY <1>6, <2>2, <2>3 DEF NewSession
  <1>7. CASE Start
    BY <1>2, <1>7 DEF Start, StartAt, gameVars
  <1>8. CASE StartStatFails
    <2>1. UNCHANGED <<next, lines>> /\ clean' = Len(lines)
      BY <1>8 DEF StartStatFails, StartAt, gameVars
    <2>2. Accepted' = {}
      BY <1>1, <2>1 DEF Accepted
    <2>3. FeedPos' = 0
      BY <2>2 DEF FeedPos
    <2>4. FeedSent' = FeedSent /\ FeedGot' = FeedGot
      BY <2>1 DEF FeedSent, FeedGot, EventOf, Whole
    <2>5. Feed!Rewind
      BY <2>3, <2>4 DEF Feed!Rewind, FeedSent, FeedGot, FeedPos, GreatestOf
    <2> QED
      BY <2>5 DEF Feed!Next
  <1>9. CASE Poll \/ Read \/ ReadFails \/ EmitDone \/ BridgeStops
    BY <1>2, <1>9 DEF Poll, Read, ReadFails, EmitDone, BridgeStops, gameVars, history
  <1>10. CASE EmitLine
    BY <1>10, EmitFeeds DEF Feed!Next
  <1>11. CASE UNCHANGED vars
    BY <1>2, <1>11 DEF vars, gameVars, history
  <1> QED
    BY <1>4, <1>5, <1>6, <1>7, <1>8, <1>9, <1>10, <1>11 DEF Next, Game, Tailer

\* The path from write_event to onLine is a channel that loses events but never
\* repeats or reorders them, until a bridge run rewinds it (transport.go:33-70).
THEOREM ImplementsChannel == Spec => ImplementsFeed
  <1>1. Init => Feed!Init
    <2> SUFFICES ASSUME Init PROVE Feed!Init
      OBVIOUS
    <2>1. next = 1 /\ lines = <<>> /\ clean = 0
      BY DEF Init
    <2>2. FeedSent = {}
      <3>1. \A e \in LineEnds : ~(e < 1)
        BY LineEndsAssumption
      <3> QED
        BY <2>1, <3>1 DEF FeedSent
    <2>3. FeedGot = <<>>
      BY <2>1 DEF FeedGot
    <2>4. FeedPos = 0
      BY <2>1 DEF FeedPos, Accepted
    <2> QED
      BY <2>2, <2>3, <2>4 DEF Feed!Init, FeedSent, FeedGot, FeedPos, GreatestOf
  <1>2. OrderInv /\ [Next]_vars =>
          [Feed!Next]_<<FeedSent, FeedGot, FeedPos>>
    BY FeedStep DEF FeedStays
  <1>3. [Feed!Next]_<<FeedSent, FeedGot, FeedPos>> =>
          [Feed!Next]_<<{e \in LineEnds : e < next}, [n \in DOMAIN lines |-> EventOf(lines[n])],
                        IF Accepted = {} THEN 0
                        ELSE EventOf(lines[CHOOSE n \in Accepted : \A m \in Accepted : m <= n])>>
    BY DEF FeedSent, FeedGot, FeedPos, GreatestOf
  <1> QED
    BY <1>1, <1>2, <1>3, OrderInit, OrderStep, PTL DEF Spec, ImplementsFeed, Feed!Spec
=============================================================================
