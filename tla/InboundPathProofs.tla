------------------------- MODULE InboundPathProofs -------------------------
(***************************************************************************)
(* Proofs about InboundPath, for any messages, any limit of a command, any   *)
(* number of pieces and of connections.                                      *)
(*                                                                         *)
(* The first half is about incomingCommands alone: what a recursion over the *)
(* runes of a text returns is found by the least rune at which it would not, *)
(* and that the recursion defines a function at all is a lemma of its own.   *)
(* The second half is about the way of the commands through Execute.         *)
(***************************************************************************)
EXTENDS InboundPath, FiniteSetTheorems, SequenceTheorems, WellFoundedInduction, TLAPS

-----------------------------------------------------------------------------
(* Numbers and recursion.                                                   *)

\* Induction up to a number, on a set.
LEMMA Induct ==
    ASSUME NEW n \in Nat, NEW T,
           \A i \in 1 .. n : (\A j \in 1 .. i - 1 : j \in T) => i \in T
    PROVE  1 .. n \subseteq T
<1> SUFFICES ASSUME (1 .. n) \ T # {} PROVE FALSE
  OBVIOUS
<1> DEFINE R == (1 .. n) \ T
<1>1. R \subseteq Nat /\ R # {} OBVIOUS
<1>2. PICK i \in R : \A j \in R : ~(<<j, i>> \in OpToRel(<, Nat))
  <2> HIDE DEF R
  <2> QED BY <1>1, NatLessThanWellFounded, WFMin
<1>3. \A j \in R : ~(j < i)
  <2> HIDE DEF R
  <2> QED BY <1>1, <1>2 DEF OpToRel
<1>4. \A j \in 1 .. i - 1 : j \in T BY <1>3
<1> QED BY <1>4

\* A bounded set of numbers that is not empty has a greatest element.
LEMMA GreatestExists ==
    ASSUME NEW n \in Nat, NEW S \in SUBSET (0 .. n), S # {}
    PROVE  \E i \in S : \A j \in S : j <= i
<1> DEFINE T == {n - i : i \in S}
<1>1. T \subseteq Nat /\ T # {}
  <2>1. \A i \in S : n - i \in Nat OBVIOUS
  <2> QED BY <2>1
<1>2. PICK x \in T : \A y \in T : ~(<<y, x>> \in OpToRel(<, Nat))
  BY <1>1, NatLessThanWellFounded, WFMin
<1>3. \A y \in T : ~(y < x) BY <1>1, <1>2 DEF OpToRel
<1>4. PICK i \in S : x = n - i OBVIOUS
<1>5. ASSUME NEW j \in S PROVE j <= i
  <2>1. ~(n - j < n - i) BY <1>3, <1>4
  <2> QED BY <2>1
<1> QED BY <1>5

\* f is computed at each number from its value at a smaller one, or from base.
Recurses(f, n, base, prev, step) ==
    \A i \in 1 .. n :
        f[i] = step[i][IF prev[i] \in 1 .. i - 1 THEN f[prev[i]] ELSE base]

\* There is such a function.
LEMMA Recursion ==
    ASSUME NEW n \in Nat, NEW V, NEW base \in V, NEW prev \in [1 .. n -> Int],
           NEW step \in [1 .. n -> [V -> V]]
    PROVE  \E f \in [1 .. n -> V] : Recurses(f, n, base, prev, step)
<1> DEFINE Good(f, k) == Recurses(f, k, base, prev, step)
           T == {k \in 1 .. n : \E f \in [1 .. k -> V] : Good(f, k)}
<1>1. ASSUME NEW k \in 1 .. n, k = 1 \/ k - 1 \in T PROVE k \in T
  <2>1. PICK g \in [1 .. k - 1 -> V] : Good(g, k - 1)
    <3>1. CASE k = 1
      <4> DEFINE none == [i \in 1 .. k - 1 |-> base]
      <4>1. none \in [1 .. k - 1 -> V] OBVIOUS
      <4>2. Good(none, k - 1) BY <3>1 DEF Recurses
      <4> HIDE DEF none, Good
      <4> QED BY <4>1, <4>2
    <3> QED BY <1>1, <3>1
  <2> DEFINE v == step[k][IF prev[k] \in 1 .. k - 1 THEN g[prev[k]] ELSE base]
             f == [i \in 1 .. k |-> IF i = k THEN v ELSE g[i]]
  <2>2. v \in V
    <3>1. prev[k] \in 1 .. k - 1 => g[prev[k]] \in V BY <2>1
    <3> QED BY <3>1
  <2>3. f \in [1 .. k -> V] BY <2>2
  <2>4. Good(f, k)
    <3> SUFFICES ASSUME NEW i \in 1 .. k
                 PROVE f[i] = step[i][IF prev[i] \in 1 .. i - 1 THEN f[prev[i]] ELSE base]
      BY DEF Recurses
    <3>1. CASE i = k
      <4>1. prev[i] \in 1 .. i - 1 => f[prev[i]] = g[prev[k]] BY <3>1
      <4>2. f[i] = v BY <3>1
      <4> HIDE DEF f
      <4> QED BY <3>1, <4>1, <4>2
    <3>2. CASE i # k
      <4>1. i \in 1 .. k - 1 /\ f[i] = g[i] BY <3>2
      <4>2. prev[i] \in 1 .. i - 1 => f[prev[i]] = g[prev[i]] BY <4>1
      <4>3. g[i] = step[i][IF prev[i] \in 1 .. i - 1 THEN g[prev[i]] ELSE base]
        BY <2>1, <4>1 DEF Recurses
      <4>4. prev[i] \in Int BY <4>1
      <4> HIDE DEF f
      <4> QED BY <4>1, <4>2, <4>3, <4>4
    <3> QED BY <3>1, <3>2
  <2> HIDE DEF f, Good
  <2> QED BY <2>3, <2>4
<1>2. 1 .. n \subseteq T
  <2> HIDE DEF T
  <2>1. ASSUME NEW i \in 1 .. n, \A j \in 1 .. i - 1 : j \in T PROVE i \in T
    BY <1>1, <2>1
  <2> QED BY <2>1, Induct
<1>3. CASE n = 0
  <2> DEFINE none == [i \in 1 .. n |-> base]
  <2>1. none \in [1 .. n -> V] OBVIOUS
  <2>2. Recurses(none, n, base, prev, step) BY <1>3 DEF Recurses
  <2> HIDE DEF none
  <2> QED BY <2>1, <2>2
<1>4. CASE n # 0
  <2>1. n \in T BY <1>2, <1>4
  <2> QED BY <2>1
<1> QED BY <1>3, <1>4

-----------------------------------------------------------------------------
(* The size of a text.                                                      *)

LEMMA SumEmpty == Sum(<<>>) = 0
<1> DEFINE D == SUBSET {}
           Step(f, s) == IF s = {} THEN 0
                         ELSE LET x == CHOOSE y \in s : TRUE IN <<>>[x] + f[s \ {x}]
           iter == CHOOSE f : f = [s \in D |-> Step(f, s)]
           zero == [s \in D |-> 0]
<1>1. D = {{}} OBVIOUS
<1>2. zero = [s \in D |-> Step(zero, s)] BY <1>1
<1>3. iter = [s \in D |-> Step(iter, s)] BY <1>2
<1>4. Sum(<<>>) = iter[{}]
  BY DEF Sum, FoldSeq, FoldFunction, FoldFunctionOnSet, MapThenFoldSet
<1> QED BY <1>1, <1>3, <1>4

LEMMA SumSingle ==
    ASSUME NEW r \in Nat
    PROVE  Sum(<<r>>) = r
<1> DEFINE D == SUBSET {1}
           Step(f, s) == IF s = {} THEN 0
                         ELSE LET x == CHOOSE y \in s : TRUE IN <<r>>[x] + f[s \ {x}]
           iter == CHOOSE f : f = [s \in D |-> Step(f, s)]
           sum == [s \in D |-> IF s = {} THEN 0 ELSE r]
<1>1. D = {{}, {1}} OBVIOUS
<1>2. (CHOOSE y \in {1} : TRUE) = 1 OBVIOUS
<1>3. sum = [s \in D |-> Step(sum, s)]
  <2>1. sum[{}] = Step(sum, {}) BY <1>1
  <2>2. sum[{1}] = Step(sum, {1})
    <3>1. {1} \ {1} = {} OBVIOUS
    <3>2. Step(sum, {1}) = <<r>>[1] + sum[{1} \ {1}] BY <1>2
    <3>3. sum[{}] = 0 /\ sum[{1}] = r BY <1>1
    <3> QED BY <3>1, <3>2, <3>3
  <2> HIDE DEF Step
  <2> QED BY <1>1, <2>1, <2>2
<1>4. iter = [s \in D |-> Step(iter, s)] BY <1>3
<1>5. iter[{}] = 0 BY <1>1, <1>4
<1>6. iter[{1}] = <<r>>[1] + iter[{1} \ {1}]
  <2>1. {1} \in D OBVIOUS
  <2>2. iter[{1}] = Step(iter, {1})
    <3> HIDE DEF iter, Step
    <3> QED BY <1>4, <2>1
  <2> HIDE DEF iter
  <2> QED BY <2>2, <1>2
<1>7. Sum(<<r>>) = iter[{1}]
  <2>1. DOMAIN <<r>> = {1} OBVIOUS
  <2> QED BY <2>1 DEF Sum, FoldSeq, FoldFunction, FoldFunctionOnSet, MapThenFoldSet
<1>8. {1} \ {1} = {} /\ <<r>>[1] = r OBVIOUS
<1> HIDE DEF iter
<1> QED BY <1>5, <1>6, <1>7, <1>8

-----------------------------------------------------------------------------
(* Concatenation.                                                           *)

Text == Seq(Nat)

LEMMA TextAssociative ==
    ASSUME NEW s \in Text, NEW t \in Text, NEW u \in Text
    PROVE  (s \o t) \o u = s \o (t \o u)
  BY ConcatAssociative DEF Text

\* FlattenSeq appends one part after the other.
LEMMA FlattenIs ==
    ASSUME NEW s \in Seq(Text), s # <<>>
    PROVE  \E f \in [1 .. Len(s) -> Text] :
              /\ f[1] = s[1]
              /\ \A i \in 2 .. Len(s) : f[i] = f[i - 1] \o s[i]
              /\ FlattenSeq(s) = f[Len(s)]
<1> DEFINE n == Len(s)
           prev == [i \in 1 .. n |-> i - 1]
           step == [i \in 1 .. n |-> [t \in Text |-> t \o s[i]]]
           Def(f) == [i \in 1 .. n |-> IF i = 1 THEN s[i] ELSE f[i - 1] \o s[i]]
           flatten == CHOOSE f : f = Def(f)
<1>1. n \in Nat /\ n # 0 /\ \A i \in 1 .. n : s[i] \in Text
  BY EmptySeq, LenProperties
<1>2. prev \in [1 .. n -> Int] /\ <<>> \in Text
  BY <1>1 DEF Text
<1>3. step \in [1 .. n -> [Text -> Text]]
  <2> SUFFICES ASSUME NEW i \in 1 .. n, NEW t \in Text PROVE t \o s[i] \in Text
    OBVIOUS
  <2> QED BY <1>1, ConcatProperties DEF Text
<1>4. PICK f \in [1 .. n -> Text] : Recurses(f, n, <<>>, prev, step)
  <2> HIDE DEF n, prev, step
  <2> QED BY <1>1, <1>2, <1>3, Recursion
<1>5. f[1] = s[1]
  <2>1. 1 \in 1 .. n /\ prev[1] \notin 1 .. 1 - 1 BY <1>1
  <2>2. f[1] = step[1][<<>>]
    <3> HIDE DEF prev, step
    <3> QED BY <1>4, <2>1 DEF Recurses
  <2>3. f[1] = <<>> \o s[1] BY <2>1, <2>2, <1>2
  <2> QED BY <2>3, <1>1, ConcatEmptySeq DEF Text
<1>6. ASSUME NEW i \in 2 .. n PROVE f[i] = f[i - 1] \o s[i]
  <2>1. i \in 1 .. n /\ i - 1 \in 1 .. n /\ prev[i] = i - 1 /\ i - 1 \in 1 .. i - 1 BY <1>1
  <2>2. f[i] = step[i][f[i - 1]]
    <3> HIDE DEF prev, step
    <3> QED BY <1>4, <2>1 DEF Recurses
  <2> QED BY <2>1, <2>2
<1>7. f = Def(f)
  <2>1. \A i \in 1 .. n : f[i] = Def(f)[i]
    <3> SUFFICES ASSUME NEW i \in 1 .. n PROVE f[i] = Def(f)[i]
      OBVIOUS
    <3>1. CASE i = 1 BY <3>1, <1>5
    <3>2. CASE i # 1
      <4>1. i \in 2 .. n BY <3>2, <1>1
      <4>2. f[i] = f[i - 1] \o s[i] BY <1>6, <4>1
      <4> QED BY <3>2, <4>2
    <3> QED BY <3>1, <3>2
  <2>2. DOMAIN Def(f) = 1 .. n /\ DOMAIN f = 1 .. n OBVIOUS
  <2> HIDE DEF n
  <2> QED BY <2>1, <2>2
<1>8. flatten = Def(flatten)
  <2> HIDE DEF Def
  <2> QED BY <1>7
<1>9. FlattenSeq(s) = flatten[n]
  BY <1>1 DEF FlattenSeq
<1>10. ASSUME NEW k \in 1 .. n PROVE flatten[k] = f[k]
  <2> DEFINE T == {i \in 1 .. n : flatten[i] = f[i]}
  <2>1. ASSUME NEW i \in 1 .. n, \A j \in 1 .. i - 1 : j \in T PROVE i \in T
    <3>1. flatten[i] = IF i = 1 THEN s[i] ELSE flatten[i - 1] \o s[i]
      <4> HIDE DEF flatten, n
      <4> QED BY <1>8
    <3>2. CASE i = 1 BY <3>1, <3>2, <1>5
    <3>3. CASE i # 1
      <4>1. i \in 2 .. n /\ i - 1 \in 1 .. i - 1 BY <3>3, <1>1
      <4>2. flatten[i - 1] = f[i - 1] BY <4>1, <2>1
      <4> HIDE DEF flatten, n
      <4> QED BY <3>1, <3>3, <4>1, <4>2, <1>6
    <3> QED BY <3>2, <3>3
  <2> HIDE DEF T
  <2>2. 1 .. n \subseteq T BY <1>1, <2>1, Induct
  <2> QED BY <2>2 DEF T
<1>11. n \in 1 .. n BY <1>1
<1> HIDE DEF flatten
<1> QED BY <1>5, <1>6, <1>9, <1>10, <1>11

LEMMA FlattenEmpty == FlattenSeq(<<>>) = <<>>
  BY DEF FlattenSeq

LEMMA FlattenOne ==
    ASSUME NEW p \in Text
    PROVE  FlattenSeq(<<p>>) = p
<1>1. <<p>> \in Seq(Text) /\ <<p>> # <<>> /\ Len(<<p>>) = 1 /\ <<p>>[1] = p
  OBVIOUS
<1> QED BY <1>1, FlattenIs

LEMMA FlattenCons ==
    ASSUME NEW p \in Text, NEW s \in Seq(Text)
    PROVE  FlattenSeq(<<p>> \o s) = p \o FlattenSeq(s)
<1>1. CASE s = <<>>
  <2>1. <<p>> \o s = <<p>>
    <3>1. <<p>> \in Seq(Text) OBVIOUS
    <3> QED BY <1>1, <3>1, ConcatEmptySeq
  <2>2. p \o <<>> = p BY ConcatEmptySeq DEF Text
  <2> QED BY <1>1, <2>1, <2>2, FlattenOne, FlattenEmpty
<1>2. CASE s # <<>>
  <2> DEFINE n == Len(s)
             t == <<p>> \o s
  <2>1. n \in Nat /\ n # 0 /\ \A i \in 1 .. n : s[i] \in Text
    BY <1>2, EmptySeq, LenProperties
  <2>2. /\ t \in Seq(Text) /\ Len(t) = n + 1 /\ t[1] = p
        /\ \A i \in 1 .. n : t[i + 1] = s[i]
    <3>1. <<p>> \in Seq(Text) /\ Len(<<p>>) = 1 /\ <<p>>[1] = p OBVIOUS
    <3> QED BY <2>1, <3>1, ConcatProperties
  <2>3. PICK f \in [1 .. n -> Text] :
            f[1] = s[1] /\ (\A i \in 2 .. n : f[i] = f[i - 1] \o s[i]) /\ FlattenSeq(s) = f[n]
    BY <1>2, FlattenIs
  <2>4. t # <<>> BY <2>1, <2>2
  <2>5. PICK g \in [1 .. n + 1 -> Text] :
            g[1] = t[1] /\ (\A i \in 2 .. n + 1 : g[i] = g[i - 1] \o t[i])
            /\ FlattenSeq(t) = g[n + 1]
    <3> HIDE DEF t
    <3> QED BY <2>2, <2>4, FlattenIs
  <2> DEFINE T == {i \in 1 .. n : g[i + 1] = p \o f[i]}
  <2>6. ASSUME NEW i \in 1 .. n, \A j \in 1 .. i - 1 : j \in T PROVE i \in T
    <3>1. g[i + 1] = g[i] \o s[i]
      <4>1. i + 1 \in 2 .. n + 1 /\ (i + 1) - 1 = i BY <2>1
      <4> HIDE DEF t
      <4> QED BY <4>1, <2>2, <2>5
    <3>2. CASE i = 1
      <4> HIDE DEF t
      <4> QED BY <3>1, <3>2, <2>2, <2>3, <2>5
    <3>3. CASE i # 1
      <4>1. i \in 2 .. n /\ i - 1 \in 1 .. i - 1 /\ i - 1 \in 1 .. n /\ (i - 1) + 1 = i
        BY <3>3, <2>1
      <4>2. g[i] = p \o f[i - 1] BY <4>1, <2>6
      <4>3. f[i] = f[i - 1] \o s[i] BY <4>1, <2>3
      <4>4. (p \o f[i - 1]) \o s[i] = p \o (f[i - 1] \o s[i])
        <5>1. f[i - 1] \in Text /\ s[i] \in Text BY <4>1, <2>1, <2>3
        <5> QED BY <5>1, TextAssociative
      <4> QED BY <3>1, <4>2, <4>3, <4>4
    <3> QED BY <3>2, <3>3
  <2> HIDE DEF T
  <2>7. 1 .. n \subseteq T BY <2>1, <2>6, Induct
  <2>8. g[n + 1] = p \o f[n] BY <2>1, <2>7 DEF T
  <2> QED BY <2>3, <2>5, <2>8
<1> QED BY <1>1, <1>2

-----------------------------------------------------------------------------
(* incomingCommands.                                                        *)

Input == [overhead : Nat, runes : Seq(Nat \ {0})]

\* The text that is left at rune i, and how much of it the next piece takes.
Left(in, i) == SubSeq(in.runes, i, Len(in.runes))
Take(in, i) == Taken(in, Left(in, i))
Piece(in, i) == SubSeq(Left(in, i), 1, Take(in, i))

\* The name leaves room for every rune (Splittable, of an input).
Splits(in) == \A i \in DOMAIN in.runes : in.overhead + in.runes[i] <= MaxCommandLen

LEMMA InputType ==
    ASSUME NEW in \in Input
    PROVE  /\ in.overhead \in Nat /\ in.runes \in Seq(Nat) /\ in.runes \in Text
           /\ Len(in.runes) \in Nat /\ DOMAIN in.runes = 1 .. Len(in.runes)
           /\ \A i \in 1 .. Len(in.runes) : in.runes[i] \in Nat /\ in.runes[i] > 0
<1>1. in.overhead \in Nat /\ in.runes \in Seq(Nat \ {0}) BY DEF Input
<1>2. in.runes \in Seq(Nat) BY <1>1, SeqMonotonic
<1>3. \A i \in 1 .. Len(in.runes) : in.runes[i] \in Nat \ {0} BY <1>1, ElementOfSeq
<1> QED BY <1>1, <1>2, <1>3, LenProperties DEF Text

LEMMA LeftType ==
    ASSUME NEW in \in Input, NEW i \in 1 .. Len(in.runes) + 1
    PROVE  /\ Left(in, i) \in Text /\ Len(Left(in, i)) = Len(in.runes) - i + 1
           /\ \A k \in 1 .. Len(in.runes) - i + 1 : Left(in, i)[k] = in.runes[i + k - 1]
<1> DEFINE L == Len(in.runes)
<1>1. L \in Nat /\ \A k \in i .. L : in.runes[k] \in Nat BY InputType
<1>2. i \in Int /\ L \in Int BY <1>1
<1>3. /\ SubSeq(in.runes, i, L) \in Seq(Nat)
      /\ Len(SubSeq(in.runes, i, L)) = IF i <= L THEN L - i + 1 ELSE 0
      /\ \A k \in 1 .. L - i + 1 : SubSeq(in.runes, i, L)[k] = in.runes[i + k - 1]
  <2> HIDE DEF L
  <2> QED BY <1>1, <1>2, SubSeqProperties
<1> QED BY <1>1, <1>3 DEF Left, Text

\* A piece takes as many runes as fit; in a splittable text at least one.
LEMMA TakeType ==
    ASSUME NEW in \in Input, Budget(in) > 0, NEW i \in 1 .. Len(in.runes) + 1
    PROVE  /\ Take(in, i) \in 0 .. Len(in.runes) - i + 1
           /\ Fits(in, Piece(in, i))
           /\ Splits(in) /\ i <= Len(in.runes) => Take(in, i) >= 1
<1> DEFINE left == Left(in, i)
           fitting == {n \in 0 .. Len(left) : n <= Budget(in) /\ Fits(in, SubSeq(left, 1, n))}
<1>1. in.overhead \in Nat /\ MaxCommandLen \in Nat /\ Budget(in) \in Int /\ Budget(in) >= 1
      /\ Budget(in) = MaxCommandLen - in.overhead
  BY InputType, SizesAssumption DEF Budget
<1>2. left \in Text /\ Len(left) = Len(in.runes) - i + 1 /\ Len(left) \in Nat
  BY LeftType, InputType
<1>3. 0 \in fitting
  <2>1. SubSeq(left, 1, 0) = <<>> BY SubSeqEmpty
  <2>2. Fits(in, <<>>) BY SumEmpty, <1>1 DEF Fits
  <2>3. Fits(in, SubSeq(left, 1, 0)) BY <2>1, <2>2, Zenon
  <2>4. 0 \in 0 .. Len(left) /\ 0 <= Budget(in) BY <1>1, <1>2
  <2> HIDE DEF left
  <2> QED BY <2>3, <2>4
<1>4. PICK n \in fitting : \A m \in fitting : m <= n
  <2>1. fitting \in SUBSET (0 .. Len(left)) OBVIOUS
  <2> HIDE DEF fitting, left
  <2> QED BY <1>2, <1>3, <2>1, GreatestExists
<1>5. Take(in, i) \in fitting /\ \A m \in fitting : m <= Take(in, i)
  <2>1. Take(in, i) = CHOOSE k \in fitting : \A m \in fitting : m <= k
    BY DEF Take, Taken
  <2> HIDE DEF fitting
  <2> QED BY <1>4, <2>1
<1>6. ASSUME Splits(in), i <= Len(in.runes) PROVE 1 \in fitting
  <2>1. in.runes[i] \in Nat /\ in.overhead + in.runes[i] <= MaxCommandLen
    BY <1>6, InputType DEF Splits
  <2>2. left[1] = in.runes[i]
    <3>1. 1 \in 1 .. Len(in.runes) - i + 1 /\ i + 1 - 1 = i BY <1>6, InputType
    <3> QED BY <3>1, LeftType
  <2>3. SubSeq(left, 1, 1) = <<in.runes[i]>>
    <3>1. 1 \in 1 .. Len(left) BY <1>2, <1>6, InputType
    <3>2. SubSeq(left, 1, 1) = <<left[1]>> \o SubSeq(left, 2, 1)
      <4> HIDE DEF left
      <4>1. 1 \in 1 .. Len(left) /\ 1 \in 1 .. 1 /\ 1 + 1 = 2 BY <3>1
      <4>2. left \in Seq(Nat) BY <1>2 DEF Text
      <4> QED BY <4>1, <4>2, SubSeqRecursiveFirst
    <3>3. SubSeq(left, 2, 1) = <<>> BY SubSeqEmpty
    <3>4. <<in.runes[i]>> \in Seq(Nat) BY <2>1
    <3> HIDE DEF left
    <3> QED BY <2>2, <3>2, <3>3, <3>4, ConcatEmptySeq
  <2>4. Fits(in, SubSeq(left, 1, 1)) BY <2>1, <2>3, SumSingle DEF Fits
  <2>5. 1 \in 0 .. Len(left) BY <1>2, <1>6, InputType
  <2> HIDE DEF left
  <2> QED BY <1>1, <2>4, <2>5
<1>7. Take(in, i) \in 0 .. Len(left) /\ Fits(in, SubSeq(left, 1, Take(in, i)))
  BY <1>5
<1>8. Splits(in) /\ i <= Len(in.runes) => Take(in, i) >= 1
  <2> HIDE DEF fitting
  <2> QED BY <1>5, <1>6
<1> HIDE DEF left, fitting
<1> QED BY <1>2, <1>7, <1>8 DEF Piece, left

LEMMA PieceType ==
    ASSUME NEW in \in Input, Budget(in) > 0, NEW i \in 1 .. Len(in.runes) + 1
    PROVE  /\ Piece(in, i) \in Text
           /\ Piece(in, i) \o Left(in, i + Take(in, i)) = Left(in, i)
<1> DEFINE L == Len(in.runes)
           n == Take(in, i)
<1>1. L \in Nat /\ in.runes \in Seq(Nat) /\ n \in 0 .. L - i + 1
  BY InputType, TakeType
<1>2. Piece(in, i) = SubSeq(in.runes, i, i + n - 1)
  <2>1. CASE n = 0
    <3>1. SubSeq(Left(in, i), 1, 0) = <<>> /\ SubSeq(in.runes, i, i - 1) = <<>>
      BY <1>1, SubSeqEmpty
    <3> QED BY <2>1, <3>1 DEF Piece
  <2>2. CASE n # 0
    <3>1. /\ i \in 1 .. L /\ L \in 1 .. L /\ 1 \in 1 .. L - i + 1 /\ n \in 1 .. L - i + 1
          /\ i + 1 - 1 = i
      BY <1>1, <2>2
    <3> HIDE DEF n
    <3>2. SubSeq(SubSeq(in.runes, i, L), 1, n) = SubSeq(in.runes, i + 1 - 1, i + n - 1)
      BY <1>1, <3>1, SubSeqOfSubSeq
    <3> QED BY <3>1, <3>2 DEF Piece, Left, n
  <2> QED BY <2>1, <2>2
<1>3. /\ i \in 1 .. L + 1 /\ i + n - 1 \in i - 1 .. L /\ L \in i + n - 1 .. L
      /\ (i + n - 1) + 1 = i + n
  BY <1>1
<1>4. SubSeq(in.runes, i, i + n - 1) \o SubSeq(in.runes, (i + n - 1) + 1, L)
          = SubSeq(in.runes, i, L)
  <2> HIDE DEF L, n
  <2> QED BY <1>1, <1>3, ConcatAdjacentSubSeq
<1>5. SubSeq(in.runes, i, i + n - 1) \in Seq(Nat)
  <2>1. \A k \in i .. i + n - 1 : in.runes[k] \in Nat BY <1>1, InputType
  <2>2. i \in Int /\ i + n - 1 \in Int BY <1>1
  <2> HIDE DEF L, n
  <2> QED BY <2>1, <2>2, SubSeqProperties
<1> QED BY <1>2, <1>3, <1>4, <1>5 DEF Left, Text

\* Pieces cuts from the beginning of what is left.
LEMMA PiecesIs ==
    ASSUME NEW in \in Input, Budget(in) > 0
    PROVE  \E from \in [1 .. Len(in.runes) + 1 -> Seq(Text)] :
              /\ Pieces(in) = from[1]
              /\ \A i \in 1 .. Len(in.runes) + 1 :
                    from[i] = IF Take(in, i) = 0 THEN <<>>
                              ELSE <<Piece(in, i)>> \o from[i + Take(in, i)]
<1> DEFINE L == Len(in.runes)
           V == Seq(Text)
           mirror(i) == L + 2 - i
           prev == [j \in 1 .. L + 1 |-> j - Take(in, mirror(j))]
           step == [j \in 1 .. L + 1 |-> [v \in V |->
                       IF Take(in, mirror(j)) = 0 THEN <<>> ELSE <<Piece(in, mirror(j))>> \o v]]
           Def(f) == [i \in 1 .. L + 1 |-> IF Take(in, i) = 0 THEN <<>>
                                           ELSE <<Piece(in, i)>> \o f[i + Take(in, i)]]
           from == CHOOSE f : f = Def(f)
<1>1. L \in Nat /\ \A i \in 1 .. L + 1 : mirror(i) \in 1 .. L + 1 /\ mirror(mirror(i)) = i
  BY InputType
<1>2. \A i \in 1 .. L + 1 : Take(in, i) \in 0 .. L - i + 1 /\ Piece(in, i) \in Text
  BY TakeType, PieceType
<1>3. prev \in [1 .. L + 1 -> Int] /\ <<>> \in V
  <2>1. \A j \in 1 .. L + 1 : j - Take(in, mirror(j)) \in Int
    <3> HIDE DEF mirror, L
    <3> QED BY <1>1, <1>2
  <2> HIDE DEF mirror, L
  <2> QED BY <2>1
<1>4. step \in [1 .. L + 1 -> [V -> V]]
  <2> SUFFICES ASSUME NEW j \in 1 .. L + 1, NEW v \in V
               PROVE <<Piece(in, mirror(j))>> \o v \in V
    BY <1>3
  <2>1. <<Piece(in, mirror(j))>> \in V BY <1>1, <1>2
  <2> HIDE DEF mirror
  <2> QED BY <2>1, ConcatProperties
<1>5. PICK g \in [1 .. L + 1 -> V] : Recurses(g, L + 1, <<>>, prev, step)
  <2>1. L + 1 \in Nat BY <1>1
  <2> HIDE DEF L, V, prev, step
  <2> QED BY <2>1, <1>3, <1>4, Recursion
<1> DEFINE f == [i \in 1 .. L + 1 |-> g[mirror(i)]]
<1>6. f \in [1 .. L + 1 -> V] BY <1>1
<1>7. ASSUME NEW i \in 1 .. L + 1 PROVE f[i] = Def(f)[i]
  <2> DEFINE j == mirror(i)
             n == Take(in, i)
  <2>1. j \in 1 .. L + 1 /\ mirror(j) = i /\ n \in 0 .. L - i + 1 BY <1>1, <1>2
  <2>2. g[j] = step[j][IF prev[j] \in 1 .. j - 1 THEN g[prev[j]] ELSE <<>>]
    <3> HIDE DEF prev, step, j, V
    <3> QED BY <1>5, <2>1 DEF Recurses
  <2>3. prev[j] = j - n BY <2>1
  <2>4. \A v \in V : step[j][v] = IF n = 0 THEN <<>> ELSE <<Piece(in, i)>> \o v
    BY <2>1
  <2>5. CASE n = 0
    <3>1. g[j] = <<>>
      <4>1. prev[j] \notin 1 .. j - 1 BY <2>1, <2>3, <2>5
      <4> HIDE DEF prev, step, j, n, V
      <4> QED BY <2>2, <2>4, <2>5, <1>3, <4>1
    <3> QED BY <3>1, <2>5
  <2>6. CASE n # 0
    <3>1. /\ j - n \in 1 .. j - 1 /\ j - n \in 1 .. L + 1
          /\ i + n \in 1 .. L + 1 /\ mirror(i + n) = j - n
      <4> HIDE DEF n, L
      <4> QED BY <1>1, <2>1, <2>6
    <3>2. g[j - n] \in V BY <3>1, <1>5
    <3>3. g[j] = <<Piece(in, i)>> \o g[j - n]
      <4> HIDE DEF prev, step, j, n, V, L
      <4> QED BY <2>2, <2>3, <2>4, <2>6, <3>1, <3>2
    <3>4. f[i + n] = g[j - n]
      <4> HIDE DEF n, j
      <4> QED BY <3>1
    <3>5. Def(f)[i] = <<Piece(in, i)>> \o f[i + n]
      <4> HIDE DEF f
      <4> QED BY <2>6
    <3>6. f[i] = g[j] OBVIOUS
    <3> HIDE DEF f, j, n, Def
    <3> QED BY <3>3, <3>4, <3>5, <3>6
  <2> QED BY <2>5, <2>6
<1>8. f = Def(f)
  <2>1. DOMAIN f = 1 .. L + 1 /\ DOMAIN Def(f) = 1 .. L + 1 OBVIOUS
  <2>2. f = [i \in 1 .. L + 1 |-> f[i]] OBVIOUS
  <2>3. Def(f) = [i \in 1 .. L + 1 |-> Def(f)[i]] OBVIOUS
  <2> HIDE DEF f, Def, L
  <2> QED BY <1>7, <2>2, <2>3
<1>9. from = Def(from)
  <2> HIDE DEF f, Def
  <2> QED BY <1>8
<1>10. Pieces(in) = from[1]
  BY DEF Pieces, Take, Piece, Left
<1>11. ASSUME NEW k \in 1 .. L + 1 PROVE from[k] = f[k]
  <2> DEFINE T == {j \in 1 .. L + 1 : from[mirror(j)] = f[mirror(j)]}
  <2>1. ASSUME NEW j \in 1 .. L + 1, \A h \in 1 .. j - 1 : h \in T PROVE j \in T
    <3> DEFINE i == mirror(j)
               n == Take(in, i)
    <3>1. i \in 1 .. L + 1 /\ n \in 0 .. L - i + 1 BY <1>1, <1>2
    <3>2. from[i] = IF n = 0 THEN <<>> ELSE <<Piece(in, i)>> \o from[i + n]
      <4> HIDE DEF from, i
      <4> QED BY <1>9, <3>1
    <3>3. f[i] = IF n = 0 THEN <<>> ELSE <<Piece(in, i)>> \o f[i + n]
      <4> HIDE DEF f, i
      <4> QED BY <1>8, <3>1
    <3>4. CASE n # 0
      <4>1. j - n \in 1 .. j - 1 /\ mirror(j - n) = i + n BY <1>1, <3>1, <3>4
      <4>2. from[i + n] = f[i + n]
        <5>1. j - n \in T BY <2>1, <4>1
        <5> HIDE DEF from, f, i, n
        <5> QED BY <4>1, <5>1
      <4>3. from[i] = f[i]
        <5> HIDE DEF from, f, i, n
        <5> QED BY <3>2, <3>3, <3>4, <4>2
      <4> HIDE DEF from, f
      <4> QED BY <4>3
    <3>5. CASE n = 0
      <4>1. from[i] = f[i]
        <5> HIDE DEF from, f, i, n
        <5> QED BY <3>2, <3>3, <3>5
      <4> HIDE DEF from, f
      <4> QED BY <4>1
    <3> QED BY <3>4, <3>5
  <2>2. L + 1 \in Nat BY <1>1
  <2>3. 1 .. L + 1 \subseteq T
    <3> HIDE DEF T
    <3> QED BY <2>1, <2>2, Induct
  <2>4. mirror(k) \in T /\ mirror(mirror(k)) = k BY <2>3, <1>1
  <2> HIDE DEF from, f, mirror
  <2> QED BY <2>4
<1>12. 1 \in 1 .. L + 1 /\ \A i \in 1 .. L + 1 : f[i] = IF Take(in, i) = 0 THEN <<>>
                               ELSE <<Piece(in, i)>> \o f[i + Take(in, i)]
  <2>1. 1 \in 1 .. L + 1 BY <1>1
  <2> HIDE DEF f, L
  <2> QED BY <2>1, <1>8
<1> HIDE DEF from, f
<1> QED BY <1>6, <1>10, <1>11, <1>12

\* What is cut from rune i on: texts that fit, and all of the rest of a text whose
\* every rune fits.
LEMMA RestIsCut ==
    ASSUME NEW in \in Input, Budget(in) > 0,
           NEW from \in [1 .. Len(in.runes) + 1 -> Seq(Text)],
           \A i \in 1 .. Len(in.runes) + 1 :
               from[i] = IF Take(in, i) = 0 THEN <<>>
                         ELSE <<Piece(in, i)>> \o from[i + Take(in, i)],
           NEW i \in 1 .. Len(in.runes) + 1
    PROVE  /\ \A k \in 1 .. Len(from[i]) : Fits(in, from[i][k])
           /\ Splits(in) => FlattenSeq(from[i]) = Left(in, i)
<1> DEFINE L == Len(in.runes)
           Cut(m) == /\ \A k \in 1 .. Len(from[m]) : Fits(in, from[m][k])
                     /\ Splits(in) => FlattenSeq(from[m]) = Left(in, m)
           T == {j \in 1 .. L + 1 : Cut(L + 2 - j)}
<1>1. L \in Nat BY InputType
<1>2. ASSUME NEW j \in 1 .. L + 1, \A h \in 1 .. j - 1 : h \in T PROVE j \in T
  <2> DEFINE m == L + 2 - j
             n == Take(in, m)
             p == Piece(in, m)
  <2>1. m \in 1 .. L + 1 BY <1>1
  <2> HIDE DEF m
  <2>2. n \in 0 .. L - m + 1 /\ Fits(in, p) /\ (Splits(in) /\ m <= L => n >= 1)
        /\ p \in Text /\ p \o Left(in, m + n) = Left(in, m)
    BY <2>1, TakeType, PieceType
  <2>3. from[m] = IF n = 0 THEN <<>> ELSE <<p>> \o from[m + n]
    BY <2>1
  <2>4. CASE n = 0
    <3>1. from[m] = <<>> BY <2>3, <2>4
    <3>2. ASSUME Splits(in) PROVE FlattenSeq(from[m]) = Left(in, m)
      <4>1. m = L + 1 BY <1>1, <2>1, <2>2, <2>4, <3>2
      <4>2. Left(in, m) = <<>>
        <5>1. L + 1 \in Int /\ L \in Int /\ L < L + 1 BY <1>1
        <5>2. SubSeq(in.runes, L + 1, L) = <<>>
          <6> HIDE DEF L
          <6> QED BY <5>1, SubSeqEmpty
        <5> QED BY <4>1, <5>2 DEF Left
      <4> QED BY <3>1, <4>2, FlattenEmpty
    <3>3. Len(from[m]) = 0 BY <3>1
    <3>4. Cut(m)
      <4> HIDE DEF L
      <4> QED BY <3>2, <3>3
    <3> HIDE DEF Cut
    <3> QED BY <3>4 DEF m
  <2>5. CASE n # 0
    <3>1. m + n \in 1 .. L + 1 /\ j - n \in 1 .. j - 1 /\ L + 2 - (j - n) = m + n
      <4> HIDE DEF n, L
      <4> QED BY <1>1, <2>1, <2>2, <2>5 DEF m
    <3>2. Cut(m + n)
      <4>1. j - n \in T BY <1>2, <3>1
      <4> HIDE DEF Cut, n
      <4> QED BY <3>1, <4>1
    <3>3. from[m] = <<p>> \o from[m + n] BY <2>3, <2>5
    <3>4. from[m + n] \in Seq(Text)
      <4> HIDE DEF n
      <4> QED BY <3>1
    <3>5. ASSUME NEW k \in 1 .. Len(from[m]) PROVE Fits(in, from[m][k])
      <4>1. <<p>> \in Seq(Text) /\ Len(<<p>>) = 1 /\ <<p>>[1] = p BY <2>2
      <4>2. /\ Len(from[m]) = 1 + Len(from[m + n])
            /\ \A h \in 1 .. 1 + Len(from[m + n]) :
                  from[m][h] = IF h <= 1 THEN <<p>>[h] ELSE from[m + n][h - 1]
        <5> HIDE DEF n, p
        <5> QED BY <3>3, <3>4, <4>1, ConcatProperties
      <4>3. Len(from[m + n]) \in Nat BY <3>4, LenProperties
      <4>4. CASE k = 1
        <5>1. from[m][k] = p
          <6> HIDE DEF n, p
          <6> QED BY <4>1, <4>2, <4>3, <4>4
        <5> QED BY <5>1, <2>2
      <4>5. CASE k # 1
        <5>1. k - 1 \in 1 .. Len(from[m + n]) /\ from[m][k] = from[m + n][k - 1]
          <6> HIDE DEF n, p
          <6> QED BY <4>2, <4>3, <4>5
        <5> QED BY <5>1, <3>2
      <4> QED BY <4>4, <4>5
    <3>6. ASSUME Splits(in) PROVE FlattenSeq(from[m]) = Left(in, m)
      <4>1. FlattenSeq(from[m + n]) = Left(in, m + n) BY <3>2, <3>6
      <4>2. FlattenSeq(from[m]) = p \o FlattenSeq(from[m + n])
        <5> HIDE DEF n, p
        <5> QED BY <2>2, <3>3, <3>4, FlattenCons
      <4> QED BY <4>1, <4>2, <2>2
    <3>7. Cut(m)
      <4> HIDE DEF L, n
      <4> QED BY <3>5, <3>6
    <3> HIDE DEF Cut
    <3> QED BY <3>7 DEF m
  <2> QED BY <2>4, <2>5
<1>3. 1 .. L + 1 \subseteq T
  <2>1. L + 1 \in Nat BY <1>1
  <2> HIDE DEF T
  <2> QED BY <1>2, <2>1, Induct
<1>4. L + 2 - i \in T /\ L + 2 - (L + 2 - i) = i
  <2>1. L + 2 - i \in 1 .. L + 1 /\ L + 2 - (L + 2 - i) = i
    <3>1. i \in 1 .. L + 1 OBVIOUS
    <3> HIDE DEF L
    <3> QED BY <1>1, <3>1
  <2> HIDE DEF T, L
  <2> QED BY <1>3, <2>1
<1>5. Cut(i)
  <2> HIDE DEF Cut
  <2> QED BY <1>4
<1> QED BY <1>5

LEMMA CommandsType ==
    ASSUME NEW in \in Input
    PROVE  IncomingCommands(in) \in Seq(Text)
<1>1. <<in.runes>> \in Seq(Text) BY InputType
<1>2. ASSUME Budget(in) > 0 PROVE Pieces(in) \in Seq(Text)
  <2>1. 1 \in 1 .. Len(in.runes) + 1 BY InputType
  <2>2. PICK from \in [1 .. Len(in.runes) + 1 -> Seq(Text)] : Pieces(in) = from[1]
    BY <1>2, PiecesIs
  <2> QED BY <2>1, <2>2
<1>3. in.overhead \in Nat /\ MaxCommandLen \in Nat BY InputType, SizesAssumption
<1>4. ~(Budget(in) <= 0) => Budget(in) > 0 BY <1>3 DEF Budget
<1> QED BY <1>1, <1>2, <1>4 DEF IncomingCommands

\* incomingCommands (inbound.go) never returns a command that is too long, unless
\* the name leaves no room for any text.
THEOREM CommandsFit ==
    ASSUME NEW in \in Input, Budget(in) > 0,
           NEW k \in 1 .. Len(IncomingCommands(in))
    PROVE  Fits(in, IncomingCommands(in)[k])
<1>1. CASE Fits(in, in.runes)
  <2>1. IncomingCommands(in) = <<in.runes>> BY <1>1 DEF IncomingCommands
  <2>2. k = 1 /\ <<in.runes>>[1] = in.runes BY <2>1
  <2> QED BY <1>1, <2>1, <2>2
<1>2. CASE ~Fits(in, in.runes)
  <2>1. ~(Budget(in) <= 0)
    <3>1. in.overhead \in Nat /\ MaxCommandLen \in Nat BY InputType, SizesAssumption
    <3> QED BY <3>1 DEF Budget
  <2>2. IncomingCommands(in) = Pieces(in) BY <1>2, <2>1 DEF IncomingCommands
  <2>3. 1 \in 1 .. Len(in.runes) + 1 BY InputType
  <2> QED BY <2>2, <2>3, PiecesIs, RestIsCut
<1> QED BY <1>1, <1>2

\* Nor does it lose or reorder content: the pieces of a text are the text, as long as
\* the name leaves room for each of its runes ("instead of losing content").
THEOREM CommandsAreWhole ==
    ASSUME NEW in \in Input, Splits(in)
    PROVE  FlattenSeq(IncomingCommands(in)) = in.runes
<1>1. in.runes \in Text /\ in.overhead \in Nat /\ MaxCommandLen \in Nat
  BY InputType, SizesAssumption
<1>2. CASE Fits(in, in.runes) \/ Budget(in) <= 0
  BY <1>1, <1>2, FlattenOne DEF IncomingCommands
<1>3. CASE ~(Fits(in, in.runes) \/ Budget(in) <= 0)
  <2>1. Budget(in) > 0 BY <1>1, <1>3 DEF Budget
  <2>2. IncomingCommands(in) = Pieces(in) BY <1>3 DEF IncomingCommands
  <2>3. 1 \in 1 .. Len(in.runes) + 1 BY InputType
  <2>4. FlattenSeq(Pieces(in)) = Left(in, 1) BY <2>1, <2>3, PiecesIs, RestIsCut
  <2>5. Left(in, 1) = in.runes BY InputType, SubSeqFull DEF Left
  <2> QED BY <2>2, <2>4, <2>5
<1> QED BY <1>2, <1>3

-----------------------------------------------------------------------------
(* Sequences of commands.                                                   *)

LEMMA RemoveAtIs ==
    ASSUME NEW S, NEW s \in Seq(S), NEW i \in 1 .. Len(s)
    PROVE  /\ RemoveAt(s, i) \in Seq(S) /\ Len(RemoveAt(s, i)) = Len(s) - 1
           /\ DOMAIN RemoveAt(s, i) = 1 .. Len(s) - 1
           /\ \A k \in 1 .. Len(s) - 1 :
                 RemoveAt(s, i)[k] = IF k < i THEN s[k] ELSE s[k + 1]
<1> DEFINE L == Len(s)
           before == SubSeq(s, 1, i - 1)
           after == SubSeq(s, i + 1, L)
<1>1. L \in Nat /\ i \in 1 .. L /\ \A k \in 1 .. L : s[k] \in S OBVIOUS
<1>2. /\ before \in Seq(S) /\ Len(before) = i - 1
      /\ \A k \in 1 .. i - 1 : before[k] = s[k]
  <2>1. \A k \in 1 .. i - 1 : s[k] \in S BY <1>1
  <2> HIDE DEF L
  <2> QED BY <1>1, <2>1, SubSeqProperties
<1>3. /\ after \in Seq(S) /\ Len(after) = L - i
      /\ \A k \in 1 .. L - i : after[k] = s[k + i]
  <2>1. \A k \in i + 1 .. L : s[k] \in S BY <1>1
  <2> HIDE DEF L
  <2>2. /\ after \in Seq(S) /\ Len(after) = IF i + 1 <= L THEN L - (i + 1) + 1 ELSE 0
        /\ \A k \in 1 .. L - (i + 1) + 1 : after[k] = s[i + 1 + k - 1]
    BY <1>1, <2>1, SubSeqProperties
  <2> QED BY <1>1, <2>2
<1>4. RemoveAt(s, i) = before \o after BY DEF RemoveAt
<1>5. /\ before \o after \in Seq(S) /\ Len(before \o after) = L - 1
      /\ \A k \in 1 .. L - 1 :
            (before \o after)[k] = IF k < i THEN before[k] ELSE after[k - i + 1]
  <2> HIDE DEF before, after, L
  <2>1. L \in Nat /\ i \in Nat /\ i - 1 + (L - i) = L - 1 BY <1>1
  <2>2. /\ before \o after \in Seq(S) /\ Len(before \o after) = Len(before) + Len(after)
        /\ \A k \in 1 .. Len(before) + Len(after) : (before \o after)[k] =
              IF k <= Len(before) THEN before[k] ELSE after[k - Len(before)]
    BY <1>2, <1>3, ConcatProperties
  <2>3. Len(before) + Len(after) = L - 1 BY <1>2, <1>3, <2>1
  <2>4. ASSUME NEW k \in 1 .. L - 1
        PROVE (before \o after)[k] = IF k < i THEN before[k] ELSE after[k - i + 1]
    <3>1. (before \o after)[k] = IF k <= i - 1 THEN before[k] ELSE after[k - (i - 1)]
      BY <1>2, <2>2, <2>3
    <3>2. (k <= i - 1 <=> k < i) /\ k - (i - 1) = k - i + 1 BY <2>1
    <3> QED BY <3>1, <3>2
  <2> QED BY <2>2, <2>3, <2>4
<1>6. ASSUME NEW k \in 1 .. L - 1
      PROVE (before \o after)[k] = IF k < i THEN s[k] ELSE s[k + 1]
  <2> HIDE DEF before, after, L
  <2>1. k < i => before[k] = s[k] BY <1>1, <1>2
  <2>2. ~(k < i) => after[k - i + 1] = s[k + 1]
    <3>1. ~(k < i) => k - i + 1 \in 1 .. L - i /\ k - i + 1 + i = k + 1 BY <1>1
    <3> QED BY <1>3, <3>1
  <2> QED BY <1>5, <2>1, <2>2
<1> QED BY <1>4, <1>5, <1>6, LenProperties

LEMMA AppendIs ==
    ASSUME NEW S, NEW s \in Seq(S), NEW e \in S
    PROVE  /\ Append(s, e) \in Seq(S) /\ Len(Append(s, e)) = Len(s) + 1
           /\ DOMAIN Append(s, e) = 1 .. Len(s) + 1
           /\ Append(s, e)[Len(s) + 1] = e
           /\ \A k \in 1 .. Len(s) : Append(s, e)[k] = s[k]
  BY AppendProperties, LenProperties

LEMMA TailIs ==
    ASSUME NEW S, NEW s \in Seq(S), s # <<>>
    PROVE  /\ Tail(s) \in Seq(S) /\ Len(Tail(s)) = Len(s) - 1
           /\ DOMAIN Tail(s) = 1 .. Len(s) - 1
           /\ \A k \in 1 .. Len(s) - 1 : Tail(s)[k] = s[k + 1]
<1>1. Tail(s) \in Seq(S) /\ Len(Tail(s)) = Len(s) - 1
  BY HeadTailProperties
<1>2. \A k \in 1 .. Len(s) - 1 : Tail(s)[k] = s[k + 1]
  BY <1>1, HeadTailProperties
<1> QED BY <1>1, <1>2, LenProperties

-----------------------------------------------------------------------------
(* Types.                                                                   *)

Commands == [msg : Messages, n : Nat]
Requests == [conn : Nat, cmd : Commands]

\* Every message is cut as incomingCommands says, once it arrived.
CutOnce ==
    /\ input \in [Messages -> Input]
    /\ cmds \in [Messages -> Seq(Text)]
    /\ next \in [Messages -> Nat]
    /\ \A m \in Messages :
          /\ cmds[m] = IF next[m] = 0 THEN <<>> ELSE IncomingCommands(input[m])
          /\ next[m] <= Len(cmds[m]) + 1

\* The handler that holds the client executes one of the pieces of its message.
Executing ==
    /\ holder \in Messages \cup {None}
    /\ stage \in {"none", "dial", "send", "read"} /\ (stage = "none" <=> holder = None)
    /\ attempt \in {1, 2} /\ dead \in BOOLEAN /\ dials \in 0 .. MaxDials
    /\ conn \in (1 .. dials) \cup {None}
    /\ stage \in {"send", "read"} \/ late # {} => conn # None
    /\ stage = "dial" => conn = None
    /\ holder # None => next[holder] \in 1 .. Len(cmds[holder])

\* What was sent, answered, printed and acknowledged are pieces.
Traffic ==
    /\ wire \in Seq(Requests) /\ replies \in Seq(Commands)
    /\ chat \in Seq(Commands) /\ acked \subseteq Commands /\ late \subseteq Commands
    /\ \A i \in DOMAIN wire : wire[i].conn \in 1 .. dials /\ IsCommand(wire[i].cmd)
    /\ \A i \in DOMAIN replies : IsCommand(replies[i])
    /\ \A i \in DOMAIN chat : IsCommand(chat[i])
    /\ \A c \in acked : IsCommand(c)
    /\ \A c \in late : IsCommand(c) /\ late = {c}

TypeInv == CutOnce /\ Executing /\ Traffic

LEMMA TypeInvIsTypeOK ==
    ASSUME TypeInv PROVE TypeOK
<1>1. ASSUME NEW m \in Messages
      PROVE  /\ input[m].overhead \in Nat /\ input[m].runes \in Seq(Nat)
             /\ cmds[m] \in Seq(Seq(Nat))
             /\ next[m] \in 0 .. Len(cmds[m]) + 1
  <2>1. input[m] \in Input /\ cmds[m] \in Seq(Text) /\ next[m] \in Nat
        /\ next[m] <= Len(cmds[m]) + 1
    BY DEF TypeInv, CutOnce
  <2>2. Len(cmds[m]) \in Nat BY <2>1, LenProperties
  <2> QED BY <2>1, <2>2, InputType DEF Text
<1> QED BY <1>1 DEF TypeOK, TypeInv, Executing, Traffic

LEMMA TypeInvInit ==
    ASSUME Init PROVE TypeInv
<1>1. CutOnce
  <2>1. [overhead |-> 0, runes |-> <<>>] \in Input
    <3>1. <<>> \in Seq(Nat \ {0}) BY EmptySeq
    <3> QED BY <3>1 DEF Input
  <2>2. input \in [Messages -> Input] BY <2>1 DEF Init
  <2>3. <<>> \in Seq(Text) /\ Len(<<>>) = 0 BY EmptySeq
  <2> QED BY <2>2, <2>3 DEF Init, CutOnce
<1>2. Executing
  <2>1. MaxDials \in Nat BY SizesAssumption
  <2>2. /\ holder = None /\ stage = "none" /\ attempt = 1
        /\ conn = None /\ dead = FALSE /\ dials = 0 /\ late = {}
    BY DEF Init
  <2>3. dials \in 0 .. MaxDials BY <2>1, <2>2
  <2> QED BY <2>2, <2>3 DEF Executing
<1>3. Traffic BY DEF Init, Traffic
<1> QED BY <1>1, <1>2, <1>3 DEF TypeInv

\* What a handler executes is a command.
LEMMA HolderIs ==
    ASSUME TypeInv, stage # "none"
    PROVE  /\ holder \in Messages /\ holder # None
           /\ next[holder] \in Nat /\ next[holder] \in 1 .. Len(cmds[holder])
           /\ Command(holder) \in Commands /\ IsCommand(Command(holder))
           /\ Command(holder).msg = holder /\ Command(holder).n = next[holder]
<1>1. holder \in Messages /\ holder # None /\ next[holder] \in 1 .. Len(cmds[holder])
  BY DEF TypeInv, Executing
<1>2. next[holder] \in Nat /\ cmds[holder] \in Seq(Text)
  BY <1>1 DEF TypeInv, CutOnce
<1>3. DOMAIN cmds[holder] = 1 .. Len(cmds[holder]) BY <1>2, LenProperties
<1> QED BY <1>1, <1>2, <1>3 DEF Command, Commands, IsCommand

\* Return counts the piece.
LEMMA ReturnCut ==
    ASSUME TypeInv, stage # "none", input' = input, cmds' = cmds,
           next' = [next EXCEPT ![holder] = @ + 1]
    PROVE  CutOnce'
<1>1. holder \in Messages /\ next[holder] \in 1 .. Len(cmds[holder]) /\ next[holder] \in Nat
  BY HolderIs
<1>2. CutOnce BY DEF TypeInv
<1>3. next' \in [Messages -> Nat] BY <1>1, <1>2 DEF CutOnce
<1>4. ASSUME NEW m \in Messages
      PROVE  /\ cmds[m] = IF next'[m] = 0 THEN <<>> ELSE IncomingCommands(input[m])
             /\ next'[m] <= Len(cmds[m]) + 1
  <2>1. CASE m = holder
    <3>1. cmds[m] \in Seq(Text) BY <1>2 DEF CutOnce
    <3>2. Len(cmds[m]) \in Nat BY <3>1, LenProperties
    <3>3. next'[m] = next[m] + 1 BY <1>2, <2>1 DEF CutOnce
    <3>4. next'[m] # 0 /\ next[m] # 0 /\ next'[m] <= Len(cmds[m]) + 1
      BY <1>1, <2>1, <3>2, <3>3
    <3> QED BY <1>2, <3>4 DEF CutOnce
  <2>2. CASE m # holder
    <3>1. next'[m] = next[m] BY <1>2, <2>2 DEF CutOnce
    <3> QED BY <1>2, <3>1 DEF CutOnce
  <2> QED BY <2>1, <2>2
<1> QED BY <1>2, <1>3, <1>4 DEF CutOnce

\* The sequences, when only they change.
LEMMA TrafficKept ==
    ASSUME Traffic, cmds' = cmds, dials' \in Nat, dials <= dials', dials \in Nat,
           wire' = wire, chat' = chat, acked' = acked,
           replies' \in {replies, <<>>}, late' = {}
    PROVE  Traffic'
<1>1. <<>> \in Seq(Commands) /\ DOMAIN <<>> = {} BY EmptySeq
<1>2. replies' \in Seq(Commands) /\ \A i \in DOMAIN replies' : IsCommand(replies'[i])
  BY <1>1 DEF Traffic
<1> QED BY <1>2 DEF Traffic, IsCommand

LEMMA ReceiveTypes ==
    ASSUME TypeInv, NEW m \in Messages, Receive(m) PROVE TypeInv'
<1>1. PICK in \in Inputs[m] :
         /\ input' = [input EXCEPT ![m] = in]
         /\ cmds' = [cmds EXCEPT ![m] = IncomingCommands(in)]
  BY DEF Receive
<1>2. in \in Input BY SizesAssumption DEF Input
<1>3. IncomingCommands(in) \in Seq(Text) BY <1>2, CommandsType
<1>4. Len(IncomingCommands(in)) \in Nat BY <1>3, LenProperties
<1>5. /\ next[m] = 0 /\ next' = [next EXCEPT ![m] = 1]
      /\ UNCHANGED <<client, wire, replies, chat, acked>>
  BY DEF Receive
<1>6. CutOnce BY DEF TypeInv
<1>7. /\ input' \in [Messages -> Input] /\ cmds' \in [Messages -> Seq(Text)]
      /\ next' \in [Messages -> Nat]
  BY <1>1, <1>2, <1>3, <1>5, <1>6 DEF CutOnce
<1>8. CutOnce'
  <2> SUFFICES ASSUME NEW k \in Messages
               PROVE  /\ cmds'[k] = IF next'[k] = 0 THEN <<>> ELSE IncomingCommands(input'[k])
                      /\ next'[k] <= Len(cmds'[k]) + 1
    BY <1>7 DEF CutOnce
  <2>1. CASE k = m
    <3>1. next'[k] = 1 /\ input'[k] = in /\ cmds'[k] = IncomingCommands(in)
      BY <1>1, <1>5, <1>6, <2>1 DEF CutOnce
    <3> QED BY <1>4, <3>1
  <2>2. CASE k # m
    <3>1. next'[k] = next[k] /\ input'[k] = input[k] /\ cmds'[k] = cmds[k]
      BY <1>1, <1>5, <1>6, <2>2 DEF CutOnce
    <3> QED BY <1>6, <3>1 DEF CutOnce
  <2> QED BY <2>1, <2>2
<1>9. ASSUME NEW k \in Messages, k # m PROVE next'[k] = next[k] /\ cmds'[k] = cmds[k]
  BY <1>1, <1>5, <1>6, <1>9 DEF CutOnce
<1>10. holder # None => holder # m
  BY <1>5 DEF TypeInv, Executing
<1>11. Executing'
  <2>1. Executing BY DEF TypeInv
  <2>2. /\ holder' = holder /\ stage' = stage /\ attempt' = attempt /\ conn' = conn
        /\ dead' = dead /\ dials' = dials /\ late' = late
    BY <1>5 DEF client
  <2>3. holder # None => next'[holder] \in 1 .. Len(cmds'[holder])
    BY <1>9, <1>10, <2>1 DEF Executing
  <2> QED BY <2>1, <2>2, <2>3 DEF Executing
<1>12. ASSUME NEW c, IsCommand(c) PROVE IsCommand(c)'
  <2>1. cmds[m] = <<>> BY <1>5, <1>6 DEF CutOnce
  <2>2. c.msg # m BY <1>12, <2>1 DEF IsCommand
  <2> QED BY <1>9, <1>12, <2>2 DEF IsCommand
<1>13. Traffic'
  <2>1. Traffic BY DEF TypeInv
  <2>2. dials' = dials /\ UNCHANGED <<wire, replies, chat, acked, late>> BY <1>5 DEF client
  <2> QED BY <1>12, <2>1, <2>2 DEF Traffic
<1> QED BY <1>8, <1>11, <1>13 DEF TypeInv

LEMMA LockTypes ==
    ASSUME TypeInv, NEW m \in Messages, Lock(m) PROVE TypeInv'
<1>1. CutOnce' BY DEF TypeInv, CutOnce, Lock
<1>2. Executing' BY NoneAssumption DEF TypeInv, Executing, Lock
<1>3. Traffic' BY DEF TypeInv, Traffic, Lock, IsCommand
<1> QED BY <1>1, <1>2, <1>3 DEF TypeInv

LEMMA DialTypes ==
    ASSUME TypeInv, Dial PROVE TypeInv'
<1>1. CutOnce' BY DEF TypeInv, CutOnce, Dial
<1>2. MaxDials \in Nat /\ dials \in 0 .. MaxDials
  BY SizesAssumption DEF TypeInv, Executing
<1>3. dials' = dials + 1 /\ dials' \in 0 .. MaxDials /\ dials' \in Nat
  BY <1>2 DEF Dial
<1>4. Executing'
  <2>1. conn' \in 1 .. dials' BY <1>2, <1>3 DEF Dial
  <2>2. Executing BY DEF TypeInv
  <2>3. /\ stage = "dial" /\ stage' = "send" /\ dead' = FALSE /\ late' = {}
        /\ UNCHANGED <<cmds, next, holder, attempt>>
    BY DEF Dial
  <2>4. conn' # None BY <2>1, <1>3, NoneAssumption
  <2> QED BY <1>3, <2>1, <2>2, <2>3, <2>4 DEF Executing
<1>5. Traffic' BY <1>2, <1>3, TrafficKept DEF TypeInv, Dial
<1> QED BY <1>1, <1>4, <1>5 DEF TypeInv

\* Execute returns.
LEMMA ReturnTypes ==
    ASSUME TypeInv, stage # "none", NEW ok \in BOOLEAN, Return(ok),
           UNCHANGED <<input, cmds, attempt, conn, dials, wire, chat>>,
           dead' \in BOOLEAN, late' \in {late, {Command(holder)}}, late' # {} => conn # None,
           replies' \in Seq(Commands), \A i \in DOMAIN replies' : IsCommand(replies'[i])
    PROVE  TypeInv'
<1>1. CutOnce' BY ReturnCut DEF Return
<1>2. Executing' BY DEF TypeInv, Executing, Return
<1>3. acked' \subseteq Commands /\ \A c \in acked' : IsCommand(c)
  BY HolderIs DEF Return, TypeInv, Traffic
<1>4. late' \subseteq Commands /\ \A c \in late' : IsCommand(c) /\ late' = {c}
  BY HolderIs DEF TypeInv, Traffic
<1>5. Traffic' BY <1>3, <1>4 DEF TypeInv, Traffic, IsCommand
<1> QED BY <1>1, <1>2, <1>5 DEF TypeInv

LEMMA SendTypes ==
    ASSUME TypeInv, Send PROVE TypeInv'
<1>1. CutOnce' BY DEF TypeInv, CutOnce, Send
<1>2. Executing' BY DEF TypeInv, Executing, Send
<1>3. dials \in Nat /\ conn \in 1 .. dials /\ conn \in Nat
  <2>1. stage = "send" BY DEF Send
  <2>2. dials \in 0 .. MaxDials /\ MaxDials \in Nat
    BY SizesAssumption DEF TypeInv, Executing
  <2>3. dials \in Nat BY <2>2
  <2>4. conn \in 1 .. dials BY <2>1 DEF TypeInv, Executing
  <2> QED BY <2>3, <2>4
<1>4. Command(holder) \in Commands /\ IsCommand(Command(holder))
  BY HolderIs DEF Send
<1> DEFINE request == [conn |-> conn, cmd |-> Command(holder)]
<1>5. request \in Requests /\ request.conn = conn /\ request.cmd = Command(holder)
  BY <1>3, <1>4 DEF Requests
<1>6. wire' = wire \/ wire' = Append(wire, request) BY DEF Send
<1>7. Traffic BY DEF TypeInv
<1> HIDE DEF request
<1>8. /\ wire' \in Seq(Requests)
      /\ \A i \in DOMAIN wire' : wire'[i].conn \in 1 .. dials /\ IsCommand(wire'[i].cmd)
  <2>1. CASE wire' = wire BY <1>7, <2>1 DEF Traffic
  <2>2. CASE wire' = Append(wire, request)
    <3>1. wire \in Seq(Requests) /\ Len(wire) \in Nat /\ DOMAIN wire = 1 .. Len(wire)
      BY <1>7, LenProperties DEF Traffic
    <3>2. ASSUME NEW i \in DOMAIN wire'
          PROVE wire'[i].conn \in 1 .. dials /\ IsCommand(wire'[i].cmd)
      <4>1. i \in 1 .. Len(wire) + 1 BY <1>5, <2>2, <3>1, AppendIs
      <4>2. CASE i = Len(wire) + 1
        BY <1>3, <1>4, <1>5, <2>2, <3>1, <4>2, AppendIs
      <4>3. CASE i \in 1 .. Len(wire)
        <5>1. wire'[i] = wire[i] BY <1>5, <2>2, <3>1, <4>3, AppendIs
        <5> QED BY <1>7, <3>1, <4>3, <5>1 DEF Traffic
      <4> QED BY <3>1, <4>1, <4>2, <4>3
    <3> QED BY <1>5, <2>2, <3>1, <3>2, AppendIs
  <2> QED BY <1>6, <2>1, <2>2
<1>9. Traffic'
  <2>1. UNCHANGED <<cmds, dials, replies, chat, acked, late>> BY DEF Send
  <2> QED BY <1>7, <1>8, <2>1 DEF Traffic, IsCommand
<1> QED BY <1>1, <1>2, <1>9 DEF TypeInv

LEMMA RetryTypes ==
    ASSUME TypeInv, Retry PROVE TypeInv'
<1>1. CutOnce' BY DEF TypeInv, CutOnce, Retry
<1>2. Executing' BY DEF TypeInv, Executing, Retry
<1>3. dials \in Nat /\ dials <= dials
  <2>1. dials \in 0 .. MaxDials /\ MaxDials \in Nat
    BY SizesAssumption DEF TypeInv, Executing
  <2> QED BY <2>1
<1>4. Traffic' BY <1>3, TrafficKept DEF TypeInv, Retry
<1> QED BY <1>1, <1>2, <1>4 DEF TypeInv

\* The command at i leaves the wire.
LEMMA WireLess ==
    ASSUME TypeInv, NEW i \in DOMAIN wire, wire' = RemoveAt(wire, i)
    PROVE  /\ wire' \in Seq(Requests) /\ DOMAIN wire' = 1 .. Len(wire) - 1
           /\ i \in 1 .. Len(wire) /\ Len(wire) \in Nat
           /\ \A k \in DOMAIN wire' :
                 /\ wire'[k] = wire[IF k < i THEN k ELSE k + 1]
                 /\ (IF k < i THEN k ELSE k + 1) \in DOMAIN wire
<1>1. wire \in Seq(Requests) /\ Len(wire) \in Nat /\ DOMAIN wire = 1 .. Len(wire)
  BY LenProperties DEF TypeInv, Traffic
<1>2. i \in 1 .. Len(wire) BY <1>1
<1>3. /\ wire' \in Seq(Requests) /\ DOMAIN wire' = 1 .. Len(wire) - 1
      /\ \A k \in 1 .. Len(wire) - 1 : wire'[k] = IF k < i THEN wire[k] ELSE wire[k + 1]
  BY <1>1, <1>2, RemoveAtIs
<1> QED BY <1>1, <1>2, <1>3

LEMMA LoseTypes ==
    ASSUME TypeInv, NEW i \in DOMAIN wire, Lose(i) PROVE TypeInv'
<1>1. CutOnce' BY DEF TypeInv, CutOnce, Lose
<1>2. Executing' BY DEF TypeInv, Executing, Lose, client
<1>3. /\ wire' \in Seq(Requests)
      /\ \A k \in DOMAIN wire' : wire'[k].conn \in 1 .. dials /\ IsCommand(wire'[k].cmd)
  BY WireLess DEF Lose, TypeInv, Traffic
<1>4. Traffic' BY <1>3 DEF TypeInv, Traffic, Lose, client, IsCommand
<1> QED BY <1>1, <1>2, <1>4 DEF TypeInv

LEMMA PrintTypes ==
    ASSUME TypeInv, NEW i \in DOMAIN wire, PrintLine(i) PROVE TypeInv'
<1>1. CutOnce' BY DEF TypeInv, CutOnce, PrintLine
<1>2. Executing' BY DEF TypeInv, Executing, PrintLine, client
<1>3. /\ wire' \in Seq(Requests)
      /\ \A k \in DOMAIN wire' : wire'[k].conn \in 1 .. dials /\ IsCommand(wire'[k].cmd)
  BY WireLess DEF PrintLine, TypeInv, Traffic
<1>4. wire[i].cmd \in Commands /\ IsCommand(wire[i].cmd)
  <2>1. wire[i] \in Requests BY ElementOfSeq, LenProperties DEF TypeInv, Traffic
  <2> QED BY <2>1 DEF Requests, TypeInv, Traffic
<1>5. ASSUME NEW s \in Seq(Commands), \A k \in DOMAIN s : IsCommand(s[k])
      PROVE  /\ Append(s, wire[i].cmd) \in Seq(Commands)
             /\ \A k \in DOMAIN Append(s, wire[i].cmd) :
                   IsCommand(Append(s, wire[i].cmd)[k])
  <2>1. Len(s) \in Nat /\ DOMAIN s = 1 .. Len(s) BY LenProperties
  <2> SUFFICES ASSUME NEW k \in 1 .. Len(s) + 1
               PROVE IsCommand(Append(s, wire[i].cmd)[k])
    BY <1>4, AppendIs
  <2>2. CASE k = Len(s) + 1 BY <1>4, <2>2, AppendIs
  <2>3. CASE k \in 1 .. Len(s) BY <1>4, <1>5, <2>1, <2>3, AppendIs
  <2> QED BY <2>1, <2>2, <2>3
<1>6. /\ chat' \in Seq(Commands) /\ \A k \in DOMAIN chat' : IsCommand(chat'[k])
      /\ replies' \in Seq(Commands) /\ \A k \in DOMAIN replies' : IsCommand(replies'[k])
  BY <1>5 DEF PrintLine, TypeInv, Traffic
<1>7. Traffic'
  <2>1. UNCHANGED <<cmds, dials, acked, late>> BY DEF PrintLine, client
  <2> QED BY <1>3, <1>6, <2>1 DEF TypeInv, Traffic, IsCommand
<1> QED BY <1>1, <1>2, <1>7 DEF TypeInv

LEMMA TypeInvNext ==
    ASSUME TypeInv, [Next]_vars PROVE TypeInv'
<1>1. CASE UNCHANGED vars
  BY <1>1 DEF vars, client, TypeInv, CutOnce, Executing, Traffic, IsCommand
<1>2. ASSUME NEW m \in Messages, Receive(m) PROVE TypeInv' BY <1>2, ReceiveTypes
<1>3. ASSUME NEW m \in Messages, Lock(m) PROVE TypeInv' BY <1>3, LockTypes
<1>4. CASE Dial BY <1>4, DialTypes
<1>5. CASE DialFails
  BY <1>5, ReturnTypes DEF DialFails, TypeInv, Executing, Traffic
<1>6. CASE TooLong
  BY <1>6, ReturnTypes DEF TooLong, TypeInv, Executing, Traffic
<1>7. CASE Send BY <1>7, SendTypes
<1>8. CASE ReadReply
  <2>1. Traffic /\ replies # <<>> /\ replies' = Tail(replies)
    BY <1>8 DEF TypeInv, ReadReply
  <2>2. replies \in Seq(Commands) /\ Len(replies) \in Nat
        /\ DOMAIN replies = 1 .. Len(replies)
    BY <2>1, LenProperties DEF Traffic
  <2>3. replies' \in Seq(Commands) /\ DOMAIN replies' = 1 .. Len(replies) - 1
        /\ \A k \in 1 .. Len(replies) - 1 : replies'[k] = replies[k + 1]
    BY <2>1, <2>2, TailIs
  <2>4. \A k \in DOMAIN replies' : IsCommand(replies'[k])
    BY <2>1, <2>2, <2>3 DEF Traffic
  <2>5. dead' \in BOOLEAN /\ late' \in {late, {Command(holder)}} /\ (late' # {} => conn # None)
    BY <1>8 DEF ReadReply, TypeInv, Executing
  <2> QED BY <1>8, <2>3, <2>4, <2>5, ReturnTypes DEF ReadReply
<1>9. CASE Retry BY <1>9, RetryTypes
<1>10. CASE RetryFails
  <2>1. <<>> \in Seq(Commands) /\ DOMAIN <<>> = {} BY EmptySeq
  <2>2. replies' = <<>> \/ replies' = replies BY <1>10 DEF RetryFails
  <2>3. replies' \in Seq(Commands) /\ \A k \in DOMAIN replies' : IsCommand(replies'[k])
    BY <2>1, <2>2 DEF TypeInv, Traffic
  <2>4. dead' \in BOOLEAN /\ late' \in {late, {Command(holder)}} /\ conn # None
    BY <1>10 DEF RetryFails, TypeInv, Executing
  <2> QED BY <1>10, <2>3, <2>4, ReturnTypes DEF RetryFails
<1>11. ASSUME NEW i \in DOMAIN wire, PrintLine(i) PROVE TypeInv' BY <1>11, PrintTypes
<1>12. ASSUME NEW i \in DOMAIN wire, Lose(i) PROVE TypeInv' BY <1>12, LoseTypes
<1> QED
  BY <1>1, <1>2, <1>3, <1>4, <1>5, <1>6, <1>7, <1>8, <1>9, <1>10, <1>11, <1>12
  DEF Next, ExecuteStep

\* The variables keep their types, for any messages and limits; the handler that holds
\* the client executes a piece that exists, on a connection (rcon.go:35-55).
THEOREM TypeCorrect == Spec => []TypeOK
<1>1. Init => TypeInv BY TypeInvInit
<1>2. TypeInv /\ [Next]_vars => TypeInv' BY TypeInvNext
<1>3. TypeInv => TypeOK BY TypeInvIsTypeOK
<1> QED BY <1>1, <1>2, <1>3, PTL DEF Spec

-----------------------------------------------------------------------------
(* How often a command is executed.                                         *)

\* S has at most k elements, where k <= 2.
AtMost(k, S) ==
    /\ k = 0 => S = {}
    /\ k <= 1 => \A x, y \in S : x = y
    /\ \A x, y, z \in S : x = y \/ y = z \/ x = z

LEMMA AtMostMap ==
    ASSUME NEW k \in Int, NEW l \in Int, k <= l, k >= 0, NEW S, NEW T, AtMost(k, S),
           NEW f, \A x \in T : f[x] \in S,
           \A x, y \in T : f[x] = f[y] => x = y
    PROVE  AtMost(l, T)
<1>1. l = 0 => k = 0 OBVIOUS
<1>2. l <= 1 => k <= 1 OBVIOUS
<1>3. l = 0 => T = {} BY <1>1 DEF AtMost
<1>4. l <= 1 => \A x, y \in T : x = y BY <1>2 DEF AtMost
<1>5. \A x, y, z \in T : x = y \/ y = z \/ x = z BY DEF AtMost
<1> QED BY <1>3, <1>4, <1>5 DEF AtMost

LEMMA AtMostOneMore ==
    ASSUME NEW k \in 0 .. 1, NEW S, NEW e, AtMost(k, S)
    PROVE  AtMost(k + 1, S \cup {e})
<1>1. CASE k = 0 BY <1>1 DEF AtMost
<1>2. CASE k = 1 BY <1>2 DEF AtMost
<1> QED BY <1>1, <1>2

\* The places of a command, in the wire (counted below zero) and in the chat.
Waiting(c) == {i \in DOMAIN wire : wire[i].cmd = c}
Copies(c) == {-i : i \in Waiting(c)} \cup Printed(c)

\* How often the command was sent at most: its message's later handler is done with
\* it, has not come to it, or is in its first or second attempt.
Tries(c) ==
    IF c.n < next[c.msg] THEN 2
    ELSE IF c.n > next[c.msg] \/ holder # c.msg THEN 0
    ELSE IF stage = "read" THEN attempt ELSE attempt - 1

SentAsTried == \A c \in Commands : AtMost(Tries(c), Copies(c))

LEMMA TriesType ==
    ASSUME TypeInv, NEW c \in Commands
    PROVE  Tries(c) \in 0 .. 2
<1>1. attempt \in {1, 2} BY DEF TypeInv, Executing
<1> QED BY <1>1 DEF Tries

LEMMA ReturnTries ==
    ASSUME TypeInv, TypeInv', NEW c \in Commands, stage # "none",
           next' = [next EXCEPT ![holder] = @ + 1], holder' = None
    PROVE  Tries(c) <= Tries(c)'
<1>1. c.msg \in Messages /\ c.n \in Nat BY DEF Commands
<1>2. next \in [Messages -> Nat] BY DEF TypeInv, CutOnce
<1>3. Tries(c) \in 0 .. 2 /\ Tries(c)' \in 0 .. 2
  <2>1. attempt' \in {1, 2} BY DEF TypeInv, Executing
  <2>2. Tries(c)' \in 0 .. 2 BY <2>1 DEF Tries
  <2> QED BY <2>2, TriesType
<1>4. holder \in Messages BY HolderIs
<1>5. CASE c.msg = holder
  <2>1. next'[c.msg] = next[c.msg] + 1 BY <1>2, <1>4, <1>5
  <2>2. CASE c.n <= next[c.msg]
    <3>1. c.n < next'[c.msg] BY <1>1, <1>2, <2>1, <2>2
    <3>2. Tries(c)' = 2 BY <3>1 DEF Tries
    <3> QED BY <1>3, <3>2
  <2>3. CASE c.n > next[c.msg]
    <3>1. ~(c.n < next[c.msg]) BY <1>1, <1>2, <2>3
    <3>2. Tries(c) = 0 BY <2>3, <3>1 DEF Tries
    <3> QED BY <1>3, <3>2
  <2> QED BY <1>1, <1>2, <2>2, <2>3
<1>6. CASE c.msg # holder
  <2>1. next'[c.msg] = next[c.msg] BY <1>1, <1>2, <1>6
  <2>2. CASE c.n < next[c.msg]
    <3>1. Tries(c)' = 2 BY <2>1, <2>2 DEF Tries
    <3> QED BY <1>3, <3>1
  <2>3. CASE ~(c.n < next[c.msg])
    <3>1. Tries(c) = 0 BY <1>6, <2>3 DEF Tries
    <3> QED BY <1>3, <3>1
  <2> QED BY <2>2, <2>3
<1> QED BY <1>5, <1>6

\* No step forgets a try.
LEMMA TriesGrow ==
    ASSUME TypeInv, TypeInv', NEW c \in Commands, [Next]_vars
    PROVE  Tries(c) <= Tries(c)'
<1>1. c.msg \in Messages /\ c.n \in Nat BY DEF Commands
<1>2. /\ next \in [Messages -> Nat] /\ next' \in [Messages -> Nat]
      /\ attempt \in {1, 2} /\ attempt' \in {1, 2}
  BY DEF TypeInv, CutOnce, Executing
<1>3. Tries(c) \in 0 .. 2 /\ Tries(c)' \in 0 .. 2
  <2>1. Tries(c)' \in 0 .. 2 BY <1>2 DEF Tries
  <2> QED BY <2>1, TriesType
<1>4. ASSUME UNCHANGED <<next, holder, stage, attempt>> PROVE Tries(c) <= Tries(c)'
  <2>1. Tries(c)' = Tries(c) BY <1>4 DEF Tries
  <2> QED BY <1>3, <2>1
<1>5. ASSUME NEW m \in Messages, Receive(m) PROVE Tries(c) <= Tries(c)'
  <2>1. next[m] = 0 /\ next' = [next EXCEPT ![m] = 1] /\ UNCHANGED <<holder, stage, attempt>>
    BY <1>5 DEF Receive, client
  <2>2. holder # m BY <2>1, NoneAssumption DEF TypeInv, Executing
  <2>3. CASE c.msg = m
    <3>1. next'[c.msg] = 1 BY <1>2, <2>1, <2>3
    <3>2. Tries(c) = 0 BY <1>1, <2>1, <2>2, <2>3 DEF Tries
    <3> QED BY <1>3, <3>2
  <2>4. CASE c.msg # m
    <3>1. next'[c.msg] = next[c.msg] BY <1>1, <1>2, <2>1, <2>4
    <3>2. Tries(c)' = Tries(c) BY <2>1, <3>1 DEF Tries
    <3> QED BY <1>3, <3>2
  <2> QED BY <2>3, <2>4
<1>6. ASSUME NEW m \in Messages, Lock(m) PROVE Tries(c) <= Tries(c)'
  <2>1. holder = None /\ next' = next BY <1>6 DEF Lock
  <2>2. CASE c.n < next[c.msg]
    <3>1. Tries(c)' = 2 BY <2>1, <2>2 DEF Tries
    <3> QED BY <1>3, <3>1
  <2>3. CASE ~(c.n < next[c.msg])
    <3>1. holder # c.msg BY <1>1, <2>1, NoneAssumption
    <3>2. Tries(c) = 0 BY <2>3, <3>1 DEF Tries
    <3> QED BY <1>3, <3>2
  <2> QED BY <2>2, <2>3
<1>7. ASSUME UNCHANGED <<next, holder>>,
             \/ stage # "read" /\ attempt' = attempt
             \/ stage = "read" /\ stage' # "read" /\ attempt = 1 /\ attempt' = 2
      PROVE  Tries(c) <= Tries(c)'
  <2>1. CASE c.n < next[c.msg] \/ c.n > next[c.msg] \/ holder # c.msg
    <3>1. Tries(c)' = Tries(c) BY <1>7, <2>1 DEF Tries
    <3> QED BY <1>3, <3>1
  <2>2. CASE ~(c.n < next[c.msg] \/ c.n > next[c.msg] \/ holder # c.msg)
    <3>1. Tries(c) = IF stage = "read" THEN attempt ELSE attempt - 1
      BY <2>2 DEF Tries
    <3>2. Tries(c)' = IF stage' = "read" THEN attempt' ELSE attempt' - 1
      BY <1>7, <2>2 DEF Tries
    <3>3. CASE stage # "read" /\ attempt' = attempt
      <4>1. Tries(c) = attempt - 1 /\ Tries(c)' \in {attempt, attempt - 1}
        BY <3>1, <3>2, <3>3
      <4> QED BY <1>2, <4>1
    <3>4. CASE stage = "read" /\ stage' # "read" /\ attempt = 1 /\ attempt' = 2
      <4>1. Tries(c) = 1 /\ Tries(c)' = 2 - 1 BY <3>1, <3>2, <3>4
      <4> QED BY <4>1
    <3> QED BY <1>7, <3>3, <3>4
  <2> QED BY <2>1, <2>2
<1>8. CASE Dial
  <2>1. UNCHANGED <<next, holder>> /\ stage # "read" /\ attempt' = attempt
    BY <1>8 DEF Dial
  <2> QED BY <1>7, <2>1
<1>9. CASE DialFails BY <1>9, ReturnTries DEF DialFails, Return
<1>10. CASE TooLong BY <1>10, ReturnTries DEF TooLong, Return
<1>11. CASE Send
  <2>1. UNCHANGED <<next, holder>> /\ stage # "read" /\ attempt' = attempt
    BY <1>11 DEF Send
  <2> QED BY <1>7, <2>1
<1>12. CASE ReadReply BY <1>12, ReturnTries DEF ReadReply, Return
<1>13. CASE Retry
  <2>1. /\ UNCHANGED <<next, holder>> /\ stage = "read" /\ stage' # "read"
        /\ attempt = 1 /\ attempt' = 2
    BY <1>13 DEF Retry
  <2> QED BY <1>7, <2>1
<1>14. CASE RetryFails BY <1>14, ReturnTries DEF RetryFails, Return
<1>15. ASSUME NEW i \in DOMAIN wire, PrintLine(i) \/ Lose(i) PROVE Tries(c) <= Tries(c)'
  BY <1>4, <1>15 DEF PrintLine, Lose, client
<1>16. CASE UNCHANGED vars BY <1>4, <1>16 DEF vars, client
<1> QED
  BY <1>5, <1>6, <1>8, <1>9, <1>10, <1>11, <1>12, <1>13, <1>14, <1>15, <1>16
  DEF Next, ExecuteStep

\* The copies of a command after a step of the wire or the chat.
LEMMA CopiesLost ==
    ASSUME TypeInv, NEW i \in DOMAIN wire, Lose(i), NEW c \in Commands,
           NEW k \in Int, NEW l \in Int, k >= 0, k <= l, AtMost(k, Copies(c))
    PROVE  AtMost(l, Copies(c)')
<1>1. /\ wire' = RemoveAt(wire, i) /\ chat' = chat BY DEF Lose
<1>2. /\ i \in 1 .. Len(wire) /\ Len(wire) \in Nat /\ DOMAIN wire' = 1 .. Len(wire) - 1
      /\ \A j \in DOMAIN wire' :
            /\ wire'[j] = wire[IF j < i THEN j ELSE j + 1]
            /\ (IF j < i THEN j ELSE j + 1) \in DOMAIN wire
  BY <1>1, WireLess
<1>3. chat \in Seq(Commands) /\ Printed(c) \subseteq Nat \ {0} /\ Printed(c)' = Printed(c)
  <2>1. chat \in Seq(Commands) BY DEF TypeInv, Traffic
  <2>2. DOMAIN chat \subseteq Nat \ {0} BY <2>1, LenProperties
  <2> QED BY <1>1, <2>1, <2>2 DEF Printed
<1> DEFINE f == [x \in Copies(c)' |-> IF x > 0 THEN x ELSE IF -x < i THEN x ELSE x - 1]
<1>4. \A x \in Copies(c)' : x \in Int /\ (x > 0 => x \in Printed(c)) /\
          (~(x > 0) => -x \in DOMAIN wire' /\ wire'[-x].cmd = c)
  <2>1. ASSUME NEW x \in Printed(c)' PROVE x > 0 /\ x \in Int /\ x \in Printed(c)
    BY <1>3, <2>1
  <2>2. ASSUME NEW j \in Waiting(c)'
        PROVE -j \in Int /\ ~(-j > 0) /\ -(-j) = j /\ j \in DOMAIN wire' /\ wire'[j].cmd = c
    BY <1>2, <2>2 DEF Waiting
  <2> QED BY <2>1, <2>2 DEF Copies
<1>5. ASSUME NEW x \in Copies(c)' PROVE f[x] \in Copies(c)
  <2>1. CASE x > 0 BY <1>4, <2>1 DEF Copies
  <2>2. CASE ~(x > 0)
    <3> DEFINE j == -x
               o == IF j < i THEN j ELSE j + 1
    <3>1. j \in DOMAIN wire' /\ wire'[j].cmd = c /\ j \in Int BY <1>4, <2>2
    <3>2. o \in DOMAIN wire /\ wire[o].cmd = c BY <1>2, <3>1
    <3>3. o \in Waiting(c) BY <3>2 DEF Waiting
    <3>4. f[x] = -o BY <1>4, <1>2, <2>2
    <3> HIDE DEF o
    <3> QED BY <3>3, <3>4 DEF Copies
  <2> QED BY <2>1, <2>2
<1>6. ASSUME NEW x \in Copies(c)', NEW y \in Copies(c)', f[x] = f[y] PROVE x = y
  <2>1. x \in Int /\ y \in Int BY <1>4
  <2>2. i \in Int /\ i > 0 BY <1>2
  <2>3. f[x] = (IF x > 0 THEN x ELSE IF -x < i THEN x ELSE x - 1)
        /\ f[y] = (IF y > 0 THEN y ELSE IF -y < i THEN y ELSE y - 1)
    OBVIOUS
  <2> QED BY <1>6, <2>1, <2>2, <2>3
<1> HIDE DEF f
<1> QED BY <1>5, <1>6, AtMostMap

LEMMA CopiesPrinted ==
    ASSUME TypeInv, NEW i \in DOMAIN wire, PrintLine(i), NEW c \in Commands,
           NEW k \in Int, NEW l \in Int, k >= 0, k <= l, AtMost(k, Copies(c))
    PROVE  AtMost(l, Copies(c)')
<1>1. /\ wire' = RemoveAt(wire, i) /\ chat' = Append(chat, wire[i].cmd) BY DEF PrintLine
<1>2. /\ i \in 1 .. Len(wire) /\ Len(wire) \in Nat /\ DOMAIN wire' = 1 .. Len(wire) - 1
      /\ \A j \in DOMAIN wire' :
            /\ wire'[j] = wire[IF j < i THEN j ELSE j + 1]
            /\ (IF j < i THEN j ELSE j + 1) \in DOMAIN wire
  BY <1>1, WireLess
<1> DEFINE last == Len(chat) + 1
<1>3. /\ Len(chat) \in Nat /\ last \in Nat /\ last > 0 /\ Printed(c) \subseteq 1 .. Len(chat)
      /\ \A x \in Printed(c)' : x \in 1 .. last
                                /\ (x # last => x \in Printed(c))
                                /\ (x = last => wire[i].cmd = c)
  <2>1. chat \in Seq(Commands) BY DEF TypeInv, Traffic
  <2>2. Len(chat) \in Nat /\ DOMAIN chat = 1 .. Len(chat) BY <2>1, LenProperties
  <2>3. wire[i].cmd \in Commands
    <3>1. wire[i] \in Requests BY ElementOfSeq, LenProperties DEF TypeInv, Traffic
    <3> QED BY <3>1 DEF Requests
  <2>4. /\ DOMAIN chat' = 1 .. Len(chat) + 1 /\ chat'[Len(chat) + 1] = wire[i].cmd
        /\ \A j \in 1 .. Len(chat) : chat'[j] = chat[j]
    BY <1>1, <2>1, <2>3, AppendIs
  <2>5. ASSUME NEW x \in Printed(c)'
        PROVE x \in 1 .. last /\ (x # last => x \in Printed(c)) /\ (x = last => wire[i].cmd = c)
    <3>1. x \in 1 .. Len(chat) + 1 /\ chat'[x] = c BY <2>4, <2>5 DEF Printed
    <3>2. x # last => x \in 1 .. Len(chat) BY <2>2, <3>1
    <3> QED BY <2>2, <2>4, <3>1, <3>2 DEF Printed
  <2> QED BY <2>2, <2>5 DEF Printed
<1> DEFINE f == [x \in Copies(c)' |->
                    IF x = last THEN -i
                    ELSE IF x > 0 THEN x ELSE IF -x < i THEN x ELSE x - 1]
<1> HIDE DEF last
<1>4. \A x \in Copies(c)' : x \in Int /\ (x > 0 => x \in Printed(c)') /\
          (~(x > 0) => -x \in DOMAIN wire' /\ wire'[-x].cmd = c)
  <2>1. ASSUME NEW x \in Printed(c)' PROVE x > 0 /\ x \in Int
    BY <1>3, <2>1
  <2>2. ASSUME NEW j \in Waiting(c)'
        PROVE -j \in Int /\ ~(-j > 0) /\ -(-j) = j /\ j \in DOMAIN wire' /\ wire'[j].cmd = c
    BY <1>2, <2>2 DEF Waiting
  <2> QED BY <2>1, <2>2 DEF Copies
<1>5. ASSUME NEW x \in Copies(c)' PROVE f[x] \in Copies(c)
  <2>1. CASE x = last
    <3>1. x \in Printed(c)' BY <1>3, <1>4, <2>1
    <3>2. i \in Waiting(c) BY <1>3, <2>1, <3>1 DEF Waiting
    <3>3. f[x] = -i BY <2>1
    <3> HIDE DEF f
    <3> QED BY <3>2, <3>3 DEF Copies
  <2>2. CASE x > 0 /\ x # last
    <3>1. x \in Printed(c) BY <1>3, <1>4, <2>2
    <3>2. f[x] = x BY <2>2
    <3> HIDE DEF f
    <3> QED BY <3>1, <3>2 DEF Copies
  <2>3. CASE ~(x > 0)
    <3> DEFINE j == -x
               o == IF j < i THEN j ELSE j + 1
    <3>1. j \in DOMAIN wire' /\ wire'[j].cmd = c /\ j \in Int BY <1>4, <2>3
    <3>2. o \in DOMAIN wire /\ wire[o].cmd = c BY <1>2, <3>1
    <3>3. o \in Waiting(c) BY <3>2 DEF Waiting
    <3>4. f[x] = -o BY <1>2, <1>3, <1>4, <2>3
    <3> HIDE DEF o
    <3> QED BY <3>3, <3>4 DEF Copies
  <2> QED BY <2>1, <2>2, <2>3
<1>6. ASSUME NEW x \in Copies(c)', NEW y \in Copies(c)', f[x] = f[y] PROVE x = y
  <2>1. x \in Int /\ y \in Int BY <1>4
  <2>2. i \in Int /\ i > 0 /\ last \in Int /\ last > 0 BY <1>2, <1>3
  <2>3. f[x] = (IF x = last THEN -i ELSE IF x > 0 THEN x ELSE IF -x < i THEN x ELSE x - 1)
        /\ f[y] = (IF y = last THEN -i ELSE IF y > 0 THEN y ELSE IF -y < i THEN y ELSE y - 1)
    OBVIOUS
  <2> HIDE DEF f
  <2>4. CASE x = last
    <3>1. f[x] = -i /\ f[x] < 0 BY <2>2, <2>3, <2>4
    <3>2. ASSUME ~(y = last) PROVE FALSE
      <4>1. y < 0 \/ y = 0 \/ y > 0 BY <2>1
      <4>2. f[y] # -i BY <2>1, <2>2, <2>3, <3>2
      <4> QED BY <1>6, <3>1, <4>2
    <3> QED BY <2>4, <3>2
  <2>5. CASE x # last
    <3>1. f[x] # -i BY <2>1, <2>2, <2>3, <2>5
    <3>2. y # last BY <1>6, <2>3, <3>1
    <3>3. /\ f[x] = (IF x > 0 THEN x ELSE IF -x < i THEN x ELSE x - 1)
          /\ f[y] = (IF y > 0 THEN y ELSE IF -y < i THEN y ELSE y - 1)
      BY <2>3, <2>5, <3>2
    <3>4. (IF x > 0 THEN x ELSE IF -x < i THEN x ELSE x - 1)
          = (IF y > 0 THEN y ELSE IF -y < i THEN y ELSE y - 1)
      BY <1>6, <3>3
    <3> QED BY <2>1, <2>2, <3>4
  <2> QED BY <2>4, <2>5
<1> HIDE DEF f
<1> QED BY <1>5, <1>6, AtMostMap

LEMMA CopiesSent ==
    ASSUME TypeInv, TypeInv', Send, NEW c \in Commands, AtMost(Tries(c), Copies(c))
    PROVE  AtMost(Tries(c)', Copies(c)')
<1>1. /\ wire \in Seq(Requests) /\ Len(wire) \in Nat /\ DOMAIN wire = 1 .. Len(wire)
      /\ attempt \in {1, 2}
  BY LenProperties DEF TypeInv, Traffic, Executing
<1>2. UNCHANGED <<next, holder, attempt, chat>> /\ stage = "send" /\ stage' = "read"
  BY DEF Send
<1>3. /\ Command(holder) \in Commands
      /\ Command(holder).msg = holder /\ Command(holder).n = next[holder]
  BY <1>2, HolderIs
<1>4. Printed(c)' = Printed(c) BY <1>2 DEF Printed
<1>5. Tries(c) \in 0 .. 2 /\ Tries(c)' \in 0 .. 2 /\ Tries(c) <= Tries(c)'
  <2>1. Tries(c)' \in 0 .. 2 BY <1>1, <1>2 DEF Tries
  <2>2. [Next]_vars BY DEF Next, ExecuteStep
  <2> QED BY <2>1, <2>2, TriesType, TriesGrow
<1>6. ASSUME Copies(c)' = Copies(c) PROVE AtMost(Tries(c)', Copies(c)')
  <2> DEFINE f == [x \in Copies(c) |-> x]
  <2>1. /\ \A x \in Copies(c)' : f[x] \in Copies(c)
        /\ \A x, y \in Copies(c)' : f[x] = f[y] => x = y
    BY <1>6
  <2>2. Tries(c) \in Int /\ Tries(c)' \in Int /\ Tries(c) >= 0 BY <1>5
  <2> HIDE DEF f
  <2> QED BY <1>5, <2>1, <2>2, AtMostMap
<1>7. CASE wire' = wire
  <2>1. Copies(c)' = Copies(c) BY <1>4, <1>7 DEF Copies, Waiting
  <2> QED BY <1>6, <2>1
<1> DEFINE request == [conn |-> conn, cmd |-> Command(holder)]
<1>8. CASE wire' = Append(wire, request)
  <2>1. conn \in Nat
    <3>1. conn \in 1 .. dials /\ dials \in 0 .. MaxDials /\ MaxDials \in Nat
      BY <1>2, SizesAssumption DEF TypeInv, Executing
    <3> QED BY <3>1
  <2>2. request \in Requests /\ request.cmd = Command(holder)
    BY <1>3, <2>1 DEF Requests
  <2> HIDE DEF request
  <2>3. /\ DOMAIN wire' = 1 .. Len(wire) + 1 /\ wire'[Len(wire) + 1] = request
        /\ \A k \in 1 .. Len(wire) : wire'[k] = wire[k]
    BY <1>1, <1>8, <2>2, AppendIs
  <2>4. CASE c # Command(holder)
    <3>1. Waiting(c)' = Waiting(c)
      <4>1. ASSUME NEW i \in Waiting(c)' PROVE i \in Waiting(c)
        <5>1. i \in 1 .. Len(wire) + 1 /\ wire'[i].cmd = c BY <2>3, <4>1 DEF Waiting
        <5>2. i # Len(wire) + 1 BY <2>2, <2>3, <2>4, <5>1
        <5>3. i \in 1 .. Len(wire) BY <1>1, <5>1, <5>2
        <5> QED BY <1>1, <2>3, <5>1, <5>3 DEF Waiting
      <4>2. ASSUME NEW i \in Waiting(c) PROVE i \in Waiting(c)'
        <5>1. i \in 1 .. Len(wire) /\ wire[i].cmd = c BY <1>1, <4>2 DEF Waiting
        <5>2. i \in 1 .. Len(wire) + 1 BY <1>1, <5>1
        <5> QED BY <2>3, <5>1, <5>2 DEF Waiting
      <4> QED BY <4>1, <4>2
    <3>2. Copies(c)' = Copies(c) BY <1>4, <3>1 DEF Copies
    <3> QED BY <1>6, <3>2
  <2>5. CASE c = Command(holder)
    <3>1. Waiting(c)' \subseteq Waiting(c) \cup {Len(wire) + 1}
      <4>1. ASSUME NEW i \in Waiting(c)', i # Len(wire) + 1 PROVE i \in Waiting(c)
        <5>1. i \in 1 .. Len(wire) + 1 /\ wire'[i].cmd = c BY <2>3, <4>1 DEF Waiting
        <5>2. i \in 1 .. Len(wire) BY <1>1, <4>1, <5>1
        <5> QED BY <1>1, <2>3, <5>1, <5>2 DEF Waiting
      <4> QED BY <4>1
    <3> DEFINE more == Copies(c) \cup {-(Len(wire) + 1)}
    <3>2. \A x \in Copies(c)' : x \in more BY <1>4, <3>1 DEF Copies
    <3>3. Tries(c) = attempt - 1 /\ Tries(c)' = attempt
      <4>1. next[c.msg] \in Nat /\ c.n = next[c.msg] /\ c.msg = holder
        BY <1>2, <1>3, <2>5, HolderIs
      <4>2. ~(c.n < next[c.msg]) /\ ~(c.n > next[c.msg] \/ holder # c.msg) BY <4>1
      <4> QED BY <1>2, <4>2 DEF Tries
    <3>4. attempt - 1 \in 0 .. 1 /\ attempt - 1 + 1 = attempt BY <1>1
    <3>5. AtMost(attempt, more)
      <4>1. AtMost(attempt - 1, Copies(c)) BY <3>3
      <4>2. AtMost(attempt - 1 + 1, more) BY <3>4, <4>1, AtMostOneMore
      <4> QED BY <3>4, <4>2
    <3> DEFINE f == [x \in Copies(c)' |-> x]
    <3>6. /\ \A x \in Copies(c)' : f[x] \in more
          /\ \A x, y \in Copies(c)' : f[x] = f[y] => x = y
      BY <3>2
    <3>7. attempt \in Int /\ attempt >= 0 /\ attempt <= attempt BY <1>1
    <3>8. AtMost(attempt, Copies(c)')
      <4> HIDE DEF f, more
      <4> QED BY <3>5, <3>6, <3>7, AtMostMap
    <3> QED BY <3>3, <3>8
  <2> QED BY <2>4, <2>5
<1> QED BY <1>7, <1>8 DEF Send

LEMMA SentNext ==
    ASSUME TypeInv, TypeInv', SentAsTried, [Next]_vars PROVE SentAsTried'
<1> SUFFICES ASSUME NEW c \in Commands PROVE AtMost(Tries(c)', Copies(c)')
  BY DEF SentAsTried
<1>1. AtMost(Tries(c), Copies(c)) BY DEF SentAsTried
<1>2. /\ Tries(c) \in Int /\ Tries(c)' \in Int /\ Tries(c) >= 0 /\ Tries(c) <= Tries(c)'
  <2>1. attempt' \in {1, 2} BY DEF TypeInv, Executing
  <2>2. Tries(c)' \in 0 .. 2 BY <2>1 DEF Tries
  <2> QED BY <2>2, TriesType, TriesGrow
<1>3. ASSUME wire' = wire, chat' = chat PROVE AtMost(Tries(c)', Copies(c)')
  <2>1. Copies(c)' = Copies(c) BY <1>3 DEF Copies, Waiting, Printed
  <2> DEFINE f == [x \in Copies(c) |-> x]
  <2>2. /\ \A x \in Copies(c)' : f[x] \in Copies(c)
        /\ \A x, y \in Copies(c)' : f[x] = f[y] => x = y
    BY <2>1
  <2> HIDE DEF f
  <2> QED BY <1>1, <1>2, <2>2, AtMostMap
<1>4. ASSUME NEW i \in DOMAIN wire, PrintLine(i) PROVE AtMost(Tries(c)', Copies(c)')
  BY <1>1, <1>2, <1>4, CopiesPrinted
<1>5. ASSUME NEW i \in DOMAIN wire, Lose(i) PROVE AtMost(Tries(c)', Copies(c)')
  BY <1>1, <1>2, <1>5, CopiesLost
<1>6. CASE Send BY <1>1, <1>6, CopiesSent
<1>7. ASSUME Dial \/ DialFails \/ TooLong \/ ReadReply \/ Retry \/ RetryFails
      PROVE  wire' = wire /\ chat' = chat
  BY <1>7 DEF Dial, DialFails, TooLong, ReadReply, Retry, RetryFails
<1>8. ASSUME NEW m \in Messages, Receive(m) \/ Lock(m) PROVE wire' = wire /\ chat' = chat
  BY <1>8 DEF Receive, Lock
<1>9. ASSUME UNCHANGED vars PROVE wire' = wire /\ chat' = chat BY <1>9 DEF vars
<1> QED BY <1>3, <1>4, <1>5, <1>6, <1>7, <1>8, <1>9 DEF Next, ExecuteStep

\* A message's line is printed at most twice, however the calls fail and however late
\* a command or a reply arrives: Execute tries each command at most twice
\* (rcon.go:35-55), and no handler comes back to a command.
THEOREM NeverMoreThanTwice == Spec => []AtMostTwice
<1>1. Init => TypeInv /\ SentAsTried
  <2>1. ASSUME Init, NEW c \in Commands PROVE AtMost(Tries(c), Copies(c))
    <3>1. Copies(c) = {} BY <2>1 DEF Init, Copies, Waiting, Printed
    <3> QED BY <3>1 DEF AtMost
  <2> QED BY <2>1, TypeInvInit DEF SentAsTried
<1>2. TypeInv /\ SentAsTried /\ [Next]_vars => (TypeInv /\ SentAsTried)'
  BY TypeInvNext, SentNext
<1>3. TypeInv /\ SentAsTried => AtMostTwice
  <2> SUFFICES ASSUME TypeInv, SentAsTried, NEW i \in DOMAIN chat
               PROVE \E j \in DOMAIN chat : Printed(chat[i]) \subseteq {i, j}
    BY DEF AtMostTwice
  <2>1. chat[i] \in Commands BY ElementOfSeq, LenProperties DEF TypeInv, Traffic
  <2>2. AtMost(Tries(chat[i]), Copies(chat[i])) BY <2>1 DEF SentAsTried
  <2>3. \A x, y, z \in Printed(chat[i]) : x = y \/ y = z \/ x = z
    BY <2>2 DEF AtMost, Copies
  <2>4. i \in Printed(chat[i]) /\ Printed(chat[i]) \subseteq DOMAIN chat BY DEF Printed
  <2>5. CASE Printed(chat[i]) \subseteq {i} BY <2>5
  <2>6. CASE \E j \in Printed(chat[i]) : j # i BY <2>3, <2>4, <2>6
  <2> QED BY <2>5, <2>6
<1> QED BY <1>1, <1>2, <1>3, PTL DEF Spec

-----------------------------------------------------------------------------
(* Requests and replies.                                                    *)

\* What is under way on the connection in use: the replies that wait there, and then the
\* requests that the game has not read.
Pending == {i \in DOMAIN wire : wire[i].conn = conn}
InUse == conn # None /\ ~dead

\* The command that is outstanding from before, and that of the call that waits.
Expected(c) == c \in late \/ (stage = "read" /\ c = Command(holder))

\* c may be under way before d: at most these two are.
Before(c, d) == c \in late /\ d = Command(holder) /\ stage = "read"

RepliesPaired ==
    /\ ~InUse => replies = <<>>
    /\ \A i \in DOMAIN replies : Expected(replies[i])
    /\ \A i, j \in DOMAIN replies : i < j => Before(replies[i], replies[j])

RequestsPaired ==
    InUse =>
        /\ \A i \in Pending : Expected(wire[i].cmd)
        /\ \A i, j \in Pending : i < j => Before(wire[i].cmd, wire[j].cmd)
        /\ \A i \in DOMAIN replies, j \in Pending : Before(replies[i], wire[j].cmd)

\* An outstanding command is one whose handler has gone on, and never one of the
\* connection that a retry is made on.
LatePassed ==
    /\ \A c \in late : c.n < next[c.msg]
    /\ attempt = 2 /\ stage # "none" => late = {}

Paired == conn \in {None, dials} /\ RepliesPaired /\ RequestsPaired /\ LatePassed

\* The requests that wait on the connection, when one of any connection leaves.
LEMMA PendingLess ==
    ASSUME TypeInv, NEW i \in DOMAIN wire, wire' = RemoveAt(wire, i), conn' = conn
    PROVE  \E old \in [Pending' -> Pending \ {i}] :
              /\ \A j \in Pending' : wire'[j] = wire[old[j]]
              /\ \A j, k \in Pending' : j < k => old[j] < old[k]
<1>1. /\ i \in 1 .. Len(wire) /\ Len(wire) \in Nat /\ DOMAIN wire' = 1 .. Len(wire) - 1
      /\ \A j \in DOMAIN wire' :
            /\ wire'[j] = wire[IF j < i THEN j ELSE j + 1]
            /\ (IF j < i THEN j ELSE j + 1) \in DOMAIN wire
  BY WireLess
<1> DEFINE at(j) == IF j < i THEN j ELSE j + 1
<1>2. ASSUME NEW j \in Pending'
      PROVE at(j) \in Pending \ {i} /\ wire'[j] = wire[at(j)] /\ j \in Int
  <2>1. j \in DOMAIN wire' /\ wire'[j].conn = conn BY <1>2 DEF Pending
  <2>2. j \in Int /\ i \in Int BY <1>1, <2>1
  <2>3. wire'[j] = wire[at(j)] /\ at(j) \in DOMAIN wire BY <1>1, <2>1
  <2>4. at(j) # i BY <2>2
  <2> QED BY <2>1, <2>2, <2>3, <2>4 DEF Pending
<1>3. ASSUME NEW j \in Int, NEW k \in Int, j < k PROVE at(j) < at(k)
  <2>1. i \in Int BY <1>1
  <2> QED BY <1>3, <2>1
<1> HIDE DEF at
<1> DEFINE old == [j \in Pending' |-> at(j)]
<1>4. old \in [Pending' -> Pending \ {i}] BY <1>2
<1>5. \A j \in Pending' : wire'[j] = wire[old[j]] BY <1>2
<1>6. \A j, k \in Pending' : j < k => old[j] < old[k] BY <1>2, <1>3
<1> HIDE DEF old
<1> QED BY <1>4, <1>5, <1>6

\* What the call waits for is not what is outstanding.
LEMMA HolderNotLate ==
    ASSUME TypeInv, LatePassed, stage # "none" PROVE Command(holder) \notin late
<1>1. Command(holder).msg = holder /\ Command(holder).n = next[holder] /\ next[holder] \in Nat
  BY HolderIs
<1>2. ~(next[holder] < next[holder]) BY <1>1
<1> QED BY <1>1, <1>2 DEF LatePassed

\* The numbers of what waits.
LEMMA FlowNumbers ==
    ASSUME TypeInv
    PROVE  /\ replies \in Seq(Commands) /\ Len(replies) \in Nat
           /\ DOMAIN replies = 1 .. Len(replies) /\ wire \in Seq(Requests)
           /\ Len(wire) \in Nat /\ DOMAIN wire = 1 .. Len(wire)
           /\ Pending \subseteq 1 .. Len(wire) /\ dials \in Nat
<1>1. dials \in 0 .. MaxDials /\ MaxDials \in Nat
  BY SizesAssumption DEF TypeInv, Executing
<1> QED BY <1>1, LenProperties DEF TypeInv, Traffic, Pending

\* A handler that goes on leaves its command outstanding, or nothing.
LEMMA LateReturns ==
    ASSUME TypeInv, LatePassed, stage # "none", NEW ok \in BOOLEAN, Return(ok),
           late' \in {late, {}, {Command(holder)}}
    PROVE  LatePassed'
<1>1. /\ next' = [next EXCEPT ![holder] = @ + 1] /\ stage' = "none"
      /\ next \in [Messages -> Nat] /\ holder \in Messages
      /\ Command(holder).msg = holder /\ Command(holder).n = next[holder]
  BY HolderIs DEF Return, TypeInv, CutOnce
<1>2. \A m \in Messages : next[m] \in Nat /\ next'[m] \in Nat /\ next[m] <= next'[m] BY <1>1
<1>3. next[holder] < next'[holder] BY <1>1
<1>4. ASSUME NEW c \in late' PROVE c.n < next'[c.msg]
  <2>1. CASE c = Command(holder) BY <1>1, <1>3, <2>1
  <2>2. CASE c \in late
    <3>1. c.msg \in Messages /\ c.n \in Nat /\ c.n < next[c.msg]
      BY <2>2 DEF LatePassed, TypeInv, Traffic, Commands
    <3> QED BY <1>2, <3>1
  <2> QED BY <1>4, <2>1, <2>2
<1> QED BY <1>1, <1>4 DEF LatePassed

LEMMA PairedSend ==
    ASSUME TypeInv, Paired, Send PROVE Paired'
<1>1. /\ stage = "send" /\ stage' = "read"
      /\ UNCHANGED <<next, holder, attempt, conn, dead, dials, replies, late>>
  BY DEF Send
<1>2. Command(holder)' = Command(holder) /\ InUse' = InUse BY <1>1 DEF Command, InUse
<1>3. RepliesPaired'
  BY <1>1, <1>2 DEF Paired, RepliesPaired, Expected, Before
<1>4. LatePassed' BY <1>1 DEF Paired, LatePassed
<1> SUFFICES ASSUME InUse PROVE RequestsPaired'
  BY <1>1, <1>2, <1>3, <1>4 DEF Paired, RequestsPaired
<1>5. /\ \A i \in Pending : wire[i].cmd \in late
      /\ \A i, j \in Pending : ~(i < j)
      /\ DOMAIN replies = {} \/ Pending = {}
      /\ \A i \in DOMAIN replies : replies[i] \in late
  BY <1>1 DEF Paired, RepliesPaired, RequestsPaired, Expected, Before
<1>6. CASE wire' = wire
  <2>1. Pending' = Pending BY <1>1, <1>6 DEF Pending
  <2> QED BY <1>1, <1>2, <1>5, <1>6, <2>1 DEF RequestsPaired, Expected, Before
<1> DEFINE request == [conn |-> conn, cmd |-> Command(holder)]
<1>7. CASE wire' = Append(wire, request)
  <2>1. conn \in Nat
    <3>1. conn \in 1 .. dials BY <1>1 DEF TypeInv, Executing
    <3> QED BY <3>1, FlowNumbers
  <2>2. request \in Requests /\ request.cmd = Command(holder)
    BY <1>1, <2>1, HolderIs DEF Requests
  <2> HIDE DEF request
  <2>3. /\ DOMAIN wire' = 1 .. Len(wire) + 1 /\ wire'[Len(wire) + 1] = request
        /\ \A k \in 1 .. Len(wire) : wire'[k] = wire[k]
    BY <1>7, <2>2, FlowNumbers, AppendIs
  <2>4. ASSUME NEW i \in Pending'
        PROVE  \/ i \in Pending /\ wire'[i] = wire[i] /\ i < Len(wire) + 1
               \/ i = Len(wire) + 1 /\ wire'[i].cmd = Command(holder)
    <3>1. i \in 1 .. Len(wire) + 1 /\ wire'[i].conn = conn
      BY <1>1, <2>3, <2>4 DEF Pending
    <3>2. CASE i = Len(wire) + 1 BY <2>2, <2>3, <3>2
    <3>3. CASE i \in 1 .. Len(wire) BY <2>3, <3>1, <3>3, FlowNumbers DEF Pending
    <3> QED BY <3>1, <3>2, <3>3, FlowNumbers
  <2>5. \A i \in Pending' : Expected(wire[i].cmd)'
    BY <1>1, <1>2, <1>5, <2>4 DEF Expected
  <2>6. ASSUME NEW i \in Pending', NEW j \in Pending', i < j
        PROVE  Before(wire[i].cmd, wire[j].cmd)'
    <3>1. j = Len(wire) + 1 /\ wire'[j].cmd = Command(holder)
      BY <1>5, <2>4, <2>6, FlowNumbers
    <3>2. i \in Pending /\ wire'[i] = wire[i] BY <2>4, <2>6, <3>1, FlowNumbers
    <3> QED BY <1>1, <1>2, <1>5, <3>1, <3>2 DEF Before
  <2>7. ASSUME NEW i \in DOMAIN replies', NEW j \in Pending'
        PROVE  Before(replies[i], wire[j].cmd)'
    <3>1. wire'[j].cmd = Command(holder) BY <1>1, <1>5, <2>4, <2>7
    <3> QED BY <1>1, <1>2, <1>5, <2>7, <3>1 DEF Before
  <2> QED BY <2>5, <2>6, <2>7 DEF RequestsPaired
<1> QED BY <1>6, <1>7 DEF Send

LEMMA PairedPrint ==
    ASSUME TypeInv, Paired, NEW i \in DOMAIN wire, PrintLine(i) PROVE Paired'
<1>1. /\ UNCHANGED <<holder, stage, attempt, conn, dead, dials, next, late>>
      /\ wire' = RemoveAt(wire, i)
      /\ replies' = IF wire[i].conn = conn /\ ~dead THEN Append(replies, wire[i].cmd)
                    ELSE replies
      /\ \A j \in 1 .. i - 1 : wire[j].conn # wire[i].conn
  BY DEF PrintLine, client
<1>2. /\ InUse' = InUse /\ \A c : Expected(c)' <=> Expected(c)
      /\ \A c, d : Before(c, d)' <=> Before(c, d)
  BY <1>1 DEF Command, InUse, Expected, Before
<1>3. PICK old \in [Pending' -> Pending \ {i}] :
         /\ \A j \in Pending' : wire'[j] = wire[old[j]]
         /\ \A j, k \in Pending' : j < k => old[j] < old[k]
  BY <1>1, PendingLess
<1>4. LatePassed' BY <1>1 DEF Paired, LatePassed
<1>5. CASE wire[i].conn = conn /\ ~dead
  <2>1. i \in Pending BY <1>5 DEF Pending
  <2>2. InUse
    <3>1. wire[i].conn \in 1 .. dials BY DEF TypeInv, Traffic
    <3>2. conn \in Nat BY <1>5, <3>1, FlowNumbers
    <3> QED BY <1>5, <3>2, NoneAssumption DEF InUse
  <2>3. wire[i].cmd \in Commands
    <3>1. wire[i] \in Requests BY ElementOfSeq, FlowNumbers
    <3> QED BY <3>1 DEF Requests
  <2>4. /\ DOMAIN replies' = 1 .. Len(replies) + 1
        /\ replies'[Len(replies) + 1] = wire[i].cmd
        /\ \A k \in 1 .. Len(replies) : replies'[k] = replies[k]
    BY <1>1, <1>5, <2>3, FlowNumbers, AppendIs
  <2>5. ASSUME NEW k \in DOMAIN replies'
        PROVE  \/ k \in DOMAIN replies /\ replies'[k] = replies[k] /\ k < Len(replies) + 1
               \/ k = Len(replies) + 1 /\ replies'[k] = wire[i].cmd
    BY <2>4, <2>5, FlowNumbers
  <2>6. /\ Expected(wire[i].cmd)
        /\ \A k \in DOMAIN replies : Before(replies[k], wire[i].cmd)
    BY <2>1, <2>2 DEF Paired, RequestsPaired
  <2>7. RepliesPaired'
    <3>1. \A k \in DOMAIN replies' : Expected(replies'[k])
      BY <2>5, <2>6 DEF Paired, RepliesPaired
    <3>2. ASSUME NEW k \in DOMAIN replies', NEW l \in DOMAIN replies', k < l
          PROVE  Before(replies'[k], replies'[l])
      <4>1. k \in DOMAIN replies /\ replies'[k] = replies[k] BY <2>4, <2>5, <3>2, FlowNumbers
      <4> QED BY <2>5, <2>6, <3>2, <4>1 DEF Paired, RepliesPaired
    <3> QED BY <1>2, <2>2, <3>1, <3>2 DEF RepliesPaired
  <2>8. RequestsPaired'
    <3>1. \A j \in Pending' : Expected(wire'[j].cmd)
      BY <1>3, <2>2 DEF Paired, RequestsPaired
    <3>2. \A j, k \in Pending' : j < k => Before(wire'[j].cmd, wire'[k].cmd)
      BY <1>3, <2>2 DEF Paired, RequestsPaired
    <3>3. ASSUME NEW j \in Pending' PROVE Before(wire[i].cmd, wire'[j].cmd)
      <4>1. old[j] \in Pending /\ old[j] # i /\ wire'[j] = wire[old[j]] BY <1>3
      <4>2. old[j] \in 1 .. Len(wire) /\ wire[old[j]].conn = conn BY <4>1, FlowNumbers DEF Pending
      <4>3. i \in 1 .. Len(wire) /\ Len(wire) \in Nat BY FlowNumbers
      <4>4. ~(old[j] \in 1 .. i - 1) BY <1>1, <1>5, <4>2
      <4>5. i < old[j] BY <4>1, <4>2, <4>3, <4>4
      <4> QED BY <2>1, <2>2, <4>1, <4>5 DEF Paired, RequestsPaired
    <3>4. ASSUME NEW k \in DOMAIN replies', NEW j \in Pending'
          PROVE  Before(replies'[k], wire'[j].cmd)
      <4>1. CASE k = Len(replies) + 1 BY <2>4, <3>3, <4>1
      <4>2. CASE k \in DOMAIN replies /\ replies'[k] = replies[k]
        BY <1>3, <2>2, <4>2 DEF Paired, RequestsPaired
      <4> QED BY <2>5, <4>1, <4>2
    <3> QED BY <1>2, <3>1, <3>2, <3>4 DEF RequestsPaired
  <2> QED BY <1>1, <1>4, <2>7, <2>8 DEF Paired
<1>6. CASE ~(wire[i].conn = conn /\ ~dead)
  <2>1. replies' = replies BY <1>1, <1>6
  <2>2. RepliesPaired' BY <1>2, <2>1 DEF Paired, RepliesPaired
  <2>3. RequestsPaired' BY <1>2, <1>3, <2>1 DEF Paired, RequestsPaired
  <2> QED BY <1>1, <1>4, <2>2, <2>3 DEF Paired
<1> QED BY <1>5, <1>6

LEMMA PairedLose ==
    ASSUME TypeInv, Paired, NEW i \in DOMAIN wire, Lose(i) PROVE Paired'
<1>1. /\ UNCHANGED <<holder, stage, attempt, conn, dead, dials, next, replies, late>>
      /\ wire' = RemoveAt(wire, i)
  BY DEF Lose, client
<1>2. /\ InUse' = InUse /\ \A c : Expected(c)' <=> Expected(c)
      /\ \A c, d : Before(c, d)' <=> Before(c, d)
  BY <1>1 DEF Command, InUse, Expected, Before
<1>3. PICK old \in [Pending' -> Pending \ {i}] :
         /\ \A j \in Pending' : wire'[j] = wire[old[j]]
         /\ \A j, k \in Pending' : j < k => old[j] < old[k]
  BY <1>1, PendingLess
<1>4. RepliesPaired' /\ LatePassed'
  BY <1>1, <1>2 DEF Paired, RepliesPaired, LatePassed
<1>5. RequestsPaired' BY <1>1, <1>2, <1>3 DEF Paired, RequestsPaired
<1> QED BY <1>1, <1>4, <1>5 DEF Paired

\* The reply that is read is followed by the command's own at most.
LEMMA PairedRead ==
    ASSUME TypeInv, Paired, ReadReply PROVE Paired'
<1>1. /\ stage = "read" /\ stage' = "none" /\ replies # <<>> /\ replies' = Tail(replies)
      /\ UNCHANGED <<conn, dead, dials, wire>>
      /\ late' = IF late = {} THEN {} ELSE {Command(holder)}
  BY DEF ReadReply, Return
<1>2. InUse /\ InUse' /\ Pending' = Pending
  BY <1>1 DEF Paired, RepliesPaired, InUse, Pending
<1>3. /\ DOMAIN replies' = 1 .. Len(replies) - 1
      /\ \A k \in 1 .. Len(replies) - 1 : replies'[k] = replies[k + 1]
  BY <1>1, FlowNumbers, TailIs
<1>4. 1 \in DOMAIN replies
  BY <1>1, EmptySeq, FlowNumbers
<1>5. ASSUME NEW k \in DOMAIN replies'
      PROVE  /\ k + 1 \in DOMAIN replies /\ replies'[k] = replies[k + 1]
             /\ Before(replies[1], replies[k + 1])
  <2>1. k + 1 \in DOMAIN replies /\ 1 < k + 1 BY <1>3, FlowNumbers
  <2> QED BY <1>3, <1>4, <2>1 DEF Paired, RepliesPaired
<1>6. \A j \in Pending : Before(replies[1], wire[j].cmd)
  BY <1>2, <1>4 DEF Paired, RequestsPaired
<1>7. Command(holder) \notin late BY <1>1, HolderNotLate DEF Paired
<1>8. \A d : Before(replies[1], d) => d \in late' /\ \A e : ~Before(d, e)
  BY <1>1, <1>7 DEF Before
<1>9. RepliesPaired'
  <2>1. \A k \in DOMAIN replies' : replies'[k] \in late' BY <1>5, <1>8
  <2>2. ASSUME NEW k \in DOMAIN replies', NEW l \in DOMAIN replies', k < l PROVE FALSE
    <3>1. k + 1 < l + 1 BY <1>3, <2>2, FlowNumbers
    <3>2. Before(replies[k + 1], replies[l + 1]) BY <1>5, <3>1 DEF Paired, RepliesPaired
    <3> QED BY <1>5, <1>8, <3>2
  <2> QED BY <1>2, <2>1, <2>2 DEF RepliesPaired, Expected
<1>10. RequestsPaired'
  <2>1. \A j \in Pending' : wire'[j].cmd \in late' BY <1>1, <1>2, <1>6, <1>8
  <2>2. \A j, k \in Pending' : ~(j < k)
    BY <1>2, <1>6, <1>8 DEF Paired, RequestsPaired
  <2>3. ASSUME NEW k \in DOMAIN replies', NEW j \in Pending' PROVE FALSE
    <3>1. Before(replies[k + 1], wire[j].cmd)
      BY <1>2, <1>5, <2>3 DEF Paired, RequestsPaired
    <3> QED BY <1>5, <1>8, <3>1
  <2> QED BY <2>1, <2>2, <2>3 DEF RequestsPaired, Expected
<1>11. LatePassed'
  <2>1. Return(TRUE) BY DEF ReadReply
  <2> QED BY <1>1, <2>1, LateReturns DEF Paired
<1> QED BY <1>1, <1>9, <1>10, <1>11 DEF Paired

\* A retry that fails is made on a new connection, where nothing was outstanding.
LEMMA PairedFails ==
    ASSUME TypeInv, Paired, RetryFails PROVE Paired'
<1>1. /\ stage = "read" /\ stage' = "none" /\ Return(FALSE) /\ attempt = 2
      /\ UNCHANGED <<conn, dials, wire>>
  BY DEF RetryFails, Return
<1>2. late = {} BY <1>1 DEF Paired, LatePassed
<1>3. CASE dead' = TRUE /\ replies' = <<>> /\ UNCHANGED late
  <2>1. LatePassed' BY <1>1, <1>3, LateReturns DEF Paired
  <2>2. ~InUse' /\ DOMAIN replies' = {} BY <1>3 DEF InUse
  <2> QED BY <1>1, <1>3, <2>1, <2>2 DEF Paired, RepliesPaired, RequestsPaired
<1>4. CASE late' = {Command(holder)} /\ UNCHANGED <<dead, replies>>
  <2>1. LatePassed' BY <1>1, <1>4, LateReturns DEF Paired
  <2>2. InUse' = InUse /\ Pending' = Pending BY <1>1, <1>4 DEF InUse, Pending
  <2>3. RepliesPaired'
    BY <1>2, <1>4, <2>2 DEF Paired, RepliesPaired, Expected, Before
  <2>4. RequestsPaired'
    BY <1>1, <1>2, <1>4, <2>2 DEF Paired, RequestsPaired, Expected, Before
  <2> QED BY <1>1, <2>1, <2>3, <2>4 DEF Paired
<1> QED BY <1>3, <1>4 DEF RetryFails

LEMMA PairedNext ==
    ASSUME TypeInv, Paired, [Next]_vars PROVE Paired'
<1>1. CASE UNCHANGED vars
  <2>1. Pending' = Pending /\ InUse' = InUse /\ Command(holder)' = Command(holder)
    BY <1>1 DEF vars, client, Pending, InUse, Command
  <2> QED BY <1>1, <2>1
      DEF vars, client, Paired, RepliesPaired, RequestsPaired, LatePassed, Expected, Before
<1>2. ASSUME NEW m \in Messages, Receive(m) PROVE Paired'
  <2>1. /\ UNCHANGED <<holder, stage, attempt, conn, dead, dials, wire, replies, late>>
        /\ next[m] = 0 /\ next' = [next EXCEPT ![m] = 1]
    BY <1>2 DEF Receive, client
  <2>2. Pending' = Pending /\ InUse' = InUse BY <2>1 DEF Pending, InUse
  <2>3. next \in [Messages -> Nat] BY DEF TypeInv, CutOnce
  <2>4. stage = "read" => Command(holder)' = Command(holder)
    <3>1. ASSUME stage = "read" PROVE holder \in Messages /\ holder # m
      BY <2>1, <3>1, HolderIs
    <3>2. stage = "read" => next'[holder] = next[holder] BY <2>1, <2>3, <3>1
    <3> QED BY <2>1, <3>2 DEF Command
  <2>5. LatePassed'
    <3>1. \A c \in late : c.n \in Nat /\ c.msg \in Messages /\ c.n < next[c.msg]
      BY DEF Paired, LatePassed, TypeInv, Traffic, Commands
    <3>2. ASSUME NEW k \in Messages PROVE next[k] \in Nat /\ next'[k] \in Nat /\ next[k] <= next'[k]
      BY <2>1, <2>3
    <3>3. \A c \in late : c.n < next'[c.msg] BY <3>1, <3>2
    <3> QED BY <2>1, <3>3 DEF Paired, LatePassed
  <2>6. \A c : Expected(c)' <=> Expected(c) BY <2>1, <2>4 DEF Expected
  <2>7. \A c, d : Before(c, d)' <=> Before(c, d) BY <2>1, <2>4 DEF Before
  <2>8. RepliesPaired' BY <2>1, <2>2, <2>6, <2>7 DEF Paired, RepliesPaired
  <2>9. RequestsPaired' BY <2>1, <2>2, <2>6, <2>7 DEF Paired, RequestsPaired
  <2> QED BY <2>1, <2>5, <2>8, <2>9 DEF Paired
<1>3. ASSUME UNCHANGED <<conn, dead, dials, wire, replies, late>>, stage # "read",
             stage' # "read", LatePassed'
      PROVE  Paired'
  <2>1. Pending' = Pending /\ InUse' = InUse BY <1>3 DEF Pending, InUse
  <2>2. RepliesPaired' BY <1>3, <2>1 DEF Paired, RepliesPaired, Expected, Before
  <2>3. RequestsPaired' BY <1>3, <2>1 DEF Paired, RequestsPaired, Expected, Before
  <2> QED BY <1>3, <2>2, <2>3 DEF Paired
<1>4. ASSUME NEW m \in Messages, Lock(m) PROVE Paired'
  <2>1. /\ UNCHANGED <<conn, dead, dials, wire, replies, late, next>>
        /\ stage = "none" /\ stage' # "read" /\ attempt' = 1
    BY <1>4 DEF Lock, TypeInv, Executing
  <2>2. LatePassed' BY <2>1 DEF Paired, LatePassed
  <2> QED BY <1>3, <2>1, <2>2
<1>5. CASE Dial
  <2>1. /\ dials' = dials + 1 /\ conn' = dials + 1 /\ stage' = "send" /\ replies' = <<>>
        /\ wire' = wire /\ late' = {}
    BY <1>5 DEF Dial
  <2>2. ASSUME NEW i \in DOMAIN wire PROVE wire[i].conn # dials + 1
    <3>1. wire[i].conn \in 1 .. dials BY DEF TypeInv, Traffic
    <3> QED BY <3>1, FlowNumbers
  <2>3. Pending' = {} /\ DOMAIN replies' = {} BY <2>1, <2>2 DEF Pending
  <2> QED BY <2>1, <2>3 DEF Paired, RepliesPaired, RequestsPaired, LatePassed
<1>6. CASE DialFails \/ TooLong
  <2>1. /\ UNCHANGED <<conn, dead, dials, wire, replies, late>>
        /\ stage # "read" /\ stage # "none" /\ stage' # "read" /\ Return(FALSE)
    BY <1>6 DEF DialFails, TooLong, Return
  <2>2. LatePassed' BY <2>1, LateReturns DEF Paired
  <2> QED BY <1>3, <2>1, <2>2
<1>7. CASE Send BY <1>7, PairedSend
<1>8. CASE ReadReply BY <1>8, PairedRead
<1>9. CASE Retry
  <2>1. conn' = None /\ replies' = <<>> /\ DOMAIN replies' = {} /\ late' = {}
    BY <1>9 DEF Retry
  <2> QED BY <2>1 DEF Paired, RepliesPaired, RequestsPaired, LatePassed, InUse
<1>10. CASE RetryFails BY <1>10, PairedFails
<1>11. ASSUME NEW i \in DOMAIN wire, PrintLine(i) PROVE Paired' BY <1>11, PairedPrint
<1>12. ASSUME NEW i \in DOMAIN wire, Lose(i) PROVE Paired' BY <1>12, PairedLose
<1> QED
  BY <1>1, <1>2, <1>4, <1>5, <1>6, <1>7, <1>8, <1>9, <1>10, <1>11, <1>12
  DEF Next, ExecuteStep

LEMMA PairedInit ==
    ASSUME Init PROVE Paired
  BY DEF Init, Paired, RepliesPaired, RequestsPaired, LatePassed, InUse

\* Execute reads its own reply or, once a retry has failed on the connection, that of the
\* one command before it, never one of any earlier: the mutex and the closing of a
\* connection after its first failure keep requests and replies, which carry no identity,
\* in step but for one (rcon.go:35-55).
THEOREM RepliesStayInStep == Spec => []RepliesInStep
<1>1. Init => TypeInv /\ Paired
  BY TypeInvInit, PairedInit
<1>2. TypeInv /\ Paired /\ [Next]_vars => (TypeInv /\ Paired)'
  BY TypeInvNext, PairedNext
<1>3. TypeInv /\ Paired => RepliesInStep
  BY DEF Paired, RepliesPaired, RepliesInStep, Expected
<1> QED BY <1>1, <1>2, <1>3, PTL DEF Spec

-----------------------------------------------------------------------------
(* The order of the lines.                                                  *)

\* First is the least line of a command that was printed.
LEMMA FirstIs ==
    ASSUME TypeInv, NEW c, Printed(c) # {}
    PROVE  /\ First(c) \in Printed(c) /\ First(c) \in Nat
           /\ \A j \in Printed(c) : First(c) <= j
<1>1. chat \in Seq(Commands) BY DEF TypeInv, Traffic
<1>2. DOMAIN chat \subseteq Nat BY <1>1, LenProperties
<1>3. Printed(c) \subseteq Nat BY <1>2 DEF Printed
<1>4. PICK i \in Printed(c) : \A j \in Printed(c) : ~(<<j, i>> \in OpToRel(<, Nat))
  BY <1>3, NatLessThanWellFounded, WFMin
<1>5. ASSUME NEW j \in Printed(c) PROVE i <= j
  <2>1. i \in Nat /\ j \in Nat BY <1>3
  <2>2. ~(j < i) BY <1>4, <2>1 DEF OpToRel
  <2> QED BY <2>1, <2>2
<1>6. /\ First(c) \in Printed(c) /\ \A j \in Printed(c) : First(c) <= j
  BY <1>5 DEF First
<1> QED BY <1>3, <1>6

\* A line that is printed is the last.
LEMMA ChatGrows ==
    ASSUME TypeInv, TypeInv', NEW i \in DOMAIN wire, PrintLine(i)
    PROVE  /\ Len(chat) \in Nat /\ DOMAIN chat = 1 .. Len(chat)
           /\ wire[i].cmd \in Commands
           /\ DOMAIN chat' = 1 .. Len(chat) + 1 /\ chat'[Len(chat) + 1] = wire[i].cmd
           /\ \A k \in 1 .. Len(chat) : chat'[k] = chat[k]
           /\ \A c : Printed(c) \subseteq Printed(c)'
           /\ \A c : Printed(c) # {} => First(c)' = First(c)
<1>1. chat \in Seq(Commands) /\ wire[i] \in Requests
  BY ElementOfSeq, LenProperties DEF TypeInv, Traffic
<1>2. Len(chat) \in Nat /\ DOMAIN chat = 1 .. Len(chat) /\ wire[i].cmd \in Commands
  BY <1>1, LenProperties DEF Requests
<1>3. /\ DOMAIN chat' = 1 .. Len(chat) + 1 /\ chat'[Len(chat) + 1] = wire[i].cmd
      /\ \A k \in 1 .. Len(chat) : chat'[k] = chat[k]
  BY <1>1, <1>2, AppendIs DEF PrintLine
<1>4. ASSUME NEW c, NEW k \in Printed(c) PROVE k \in Printed(c)'
  <2>1. k \in 1 .. Len(chat) /\ chat[k] = c BY <1>2, <1>4 DEF Printed
  <2>2. k \in 1 .. Len(chat) + 1 BY <1>2, <2>1
  <2> QED BY <1>3, <2>1, <2>2 DEF Printed
<1>5. ASSUME NEW c, Printed(c) # {} PROVE First(c)' = First(c)
  <2>1. First(c) \in Printed(c) /\ \A j \in Printed(c) : First(c) <= j
    BY <1>5, FirstIs
  <2>2. First(c) \in Printed(c)' BY <1>4, <2>1
  <2>3. ASSUME NEW j \in Printed(c)' PROVE First(c) <= j
    <3>1. j \in 1 .. Len(chat) + 1 /\ chat'[j] = c BY <1>3, <2>3 DEF Printed
    <3>2. CASE j \in 1 .. Len(chat)
      <4>1. j \in Printed(c) BY <1>2, <1>3, <3>1, <3>2 DEF Printed
      <4> QED BY <2>1, <4>1
    <3>3. CASE j = Len(chat) + 1
      <4>1. First(c) \in 1 .. Len(chat) BY <1>2, <2>1 DEF Printed
      <4> QED BY <1>2, <3>3, <4>1
    <3> QED BY <1>2, <3>1, <3>2, <3>3
  <2> DEFINE f == First(c)
  <2>4. First(c)' \in Printed(c)' /\ \A j \in Printed(c)' : First(c)' <= j
    <3>1. Printed(c)' # {} BY <2>2
    <3>2. \A j \in Printed(c)' : f <= j BY <2>3
    <3> HIDE DEF f
    <3>3. f \in Printed(c)' BY <2>2 DEF f
    <3> QED BY <3>2, <3>3 DEF First
  <2>5. Printed(c)' \subseteq Nat BY <1>2, <1>3 DEF Printed
  <2>6. First(c)' <= First(c) /\ First(c) <= First(c)' BY <2>2, <2>3, <2>4
  <2> QED BY <2>2, <2>4, <2>5, <2>6
<1> QED BY <1>2, <1>3, <1>4, <1>5

\* Nothing is printed that is not due yet.
LEMMA NothingAhead ==
    ASSUME TypeInv, SentAsTried, NEW i \in DOMAIN chat
    PROVE  ~(chat[i].n > next[chat[i].msg])
<1>1. chat[i] \in Commands /\ i \in Printed(chat[i])
  BY ElementOfSeq, LenProperties DEF TypeInv, Traffic, Printed
<1>2. Copies(chat[i]) # {} BY <1>1 DEF Copies
<1>3. Tries(chat[i]) # 0 BY <1>1, <1>2 DEF SentAsTried, AtMost
<1>4. chat[i].n \in Nat /\ next[chat[i].msg] \in Nat
  BY <1>1 DEF Commands, TypeInv, CutOnce
<1> QED BY <1>3, <1>4 DEF Tries

\* What was answered is in the chat.
AnsweredIsPrinted == \A i \in DOMAIN replies : Printed(replies[i]) # {}

OrderInv == TypeInv /\ SentAsTried /\ Paired /\ AnsweredIsPrinted /\ AckedInOrder

LEMMA AnsweredNext ==
    ASSUME TypeInv, TypeInv', AnsweredIsPrinted, [Next]_vars PROVE AnsweredIsPrinted'
<1>1. replies \in Seq(Commands) /\ Len(replies) \in Nat /\ DOMAIN replies = 1 .. Len(replies)
  BY LenProperties DEF TypeInv, Traffic
<1>2. ASSUME chat' = chat, replies' \in {replies, <<>>} PROVE AnsweredIsPrinted'
  <2>1. DOMAIN <<>> = {} OBVIOUS
  <2> QED BY <1>2, <2>1 DEF AnsweredIsPrinted, Printed
<1>3. CASE ReadReply
  <2>1. replies # <<>> /\ replies' = Tail(replies) /\ chat' = chat
    BY <1>3 DEF ReadReply
  <2>2. DOMAIN replies' = 1 .. Len(replies) - 1
        /\ \A k \in 1 .. Len(replies) - 1 : replies'[k] = replies[k + 1]
    BY <1>1, <2>1, TailIs
  <2> SUFFICES ASSUME NEW k \in 1 .. Len(replies) - 1 PROVE Printed(replies[k])' # {}
    BY <2>2 DEF AnsweredIsPrinted
  <2>3. replies'[k] = replies[k + 1] /\ k + 1 \in DOMAIN replies BY <1>1, <2>2
  <2>4. Printed(replies[k + 1]) # {} BY <2>3 DEF AnsweredIsPrinted
  <2> QED BY <2>1, <2>3, <2>4 DEF Printed
<1>4. ASSUME NEW i \in DOMAIN wire, PrintLine(i) PROVE AnsweredIsPrinted'
  <2>1. \A c : Printed(c) \subseteq Printed(c)' BY <1>4, ChatGrows
  <2> PICK c \in Commands : c = wire[i].cmd BY <1>4, ChatGrows
  <2>2. Len(chat) + 1 \in Printed(c)' BY <1>4, ChatGrows DEF Printed
  <2>3. CASE replies' = replies
    <3> SUFFICES ASSUME NEW k \in DOMAIN replies PROVE Printed(replies[k])' # {}
      BY <2>3 DEF AnsweredIsPrinted
    <3> PICK d : d = replies[k] OBVIOUS
    <3>1. Printed(d) # {} BY DEF AnsweredIsPrinted
    <3>2. Printed(d)' # {} BY <2>1, <3>1
    <3> QED BY <2>3, <3>2 DEF Printed
  <2>4. CASE replies' = Append(replies, wire[i].cmd)
    <3>2. /\ DOMAIN replies' = 1 .. Len(replies) + 1
          /\ replies'[Len(replies) + 1] = c
          /\ \A k \in 1 .. Len(replies) : replies'[k] = replies[k]
      BY <1>1, <2>4, AppendIs
    <3> SUFFICES ASSUME NEW k \in 1 .. Len(replies) + 1 PROVE Printed(replies[k])' # {}
      BY <3>2 DEF AnsweredIsPrinted
    <3>3. CASE k = Len(replies) + 1
      <4>1. replies'[k] = c BY <3>2, <3>3
      <4> QED BY <2>2, <4>1 DEF Printed
    <3>4. CASE k \in 1 .. Len(replies)
      <4> PICK d : d = replies[k] OBVIOUS
      <4>1. Printed(d) # {} BY <1>1, <3>4 DEF AnsweredIsPrinted
      <4>2. Printed(d)' # {} BY <2>1, <4>1
      <4> QED BY <3>2, <3>4, <4>2 DEF Printed
    <3> QED BY <1>1, <3>3, <3>4
  <2> QED BY <1>4, <2>3, <2>4 DEF PrintLine
<1>5. ASSUME NEW i \in DOMAIN wire, Lose(i) PROVE AnsweredIsPrinted'
  BY <1>2, <1>5 DEF Lose
<1>6. ASSUME NEW m \in Messages, Receive(m) \/ Lock(m) PROVE AnsweredIsPrinted'
  BY <1>2, <1>6 DEF Receive, Lock
<1>7. CASE Dial \/ DialFails \/ TooLong \/ Send \/ Retry \/ RetryFails
  BY <1>2, <1>7 DEF Dial, DialFails, TooLong, Send, Retry, RetryFails
<1>8. CASE UNCHANGED vars BY <1>2, <1>8 DEF vars
<1> QED BY <1>3, <1>4, <1>5, <1>6, <1>7, <1>8 DEF Next, ExecuteStep

LEMMA AckedNext ==
    ASSUME OrderInv, TypeInv', [Next]_vars PROVE AckedInOrder'
<1>0. TypeInv /\ SentAsTried /\ Paired /\ AnsweredIsPrinted /\ AckedInOrder
  BY DEF OrderInv
<1>1. ASSUME UNCHANGED <<chat, acked>> PROVE AckedInOrder'
  BY <1>0, <1>1 DEF AckedInOrder, Printed, First
<1>2. CASE ReadReply /\ late = {}
  <2>1. /\ stage = "read" /\ replies # <<>> /\ chat' = chat
        /\ acked' = acked \cup {Command(holder)}
    BY <1>2 DEF ReadReply, Return
  <2>2. 1 \in DOMAIN replies /\ replies[1] = Command(holder)
    <3>1. 1 \in DOMAIN replies BY <1>0, <2>1, EmptySeq, FlowNumbers
    <3> QED BY <1>0, <1>2, <3>1 DEF Paired, RepliesPaired, Expected
  <2>3. Printed(Command(holder)) # {} BY <1>0, <2>2 DEF AnsweredIsPrinted
  <2>4. Command(holder).msg = holder /\ Command(holder).n = next[holder]
    BY <1>0, <2>1, HolderIs
  <2>5. ASSUME NEW i \in DOMAIN chat,
               chat[i].msg = Command(holder).msg, chat[i].n > Command(holder).n
        PROVE  FALSE
    BY <1>0, <2>4, <2>5, NothingAhead
  <2> SUFFICES ASSUME NEW c \in acked'
               PROVE  /\ Printed(c) # {}
                      /\ \A i \in DOMAIN chat :
                            chat[i].msg = c.msg /\ chat[i].n > c.n => First(c) < i
    BY <2>1 DEF AckedInOrder, Printed, First
  <2>6. CASE c \in acked BY <1>0, <2>6 DEF AckedInOrder
  <2>7. CASE c = Command(holder) BY <2>3, <2>5, <2>7
  <2> QED BY <2>1, <2>6, <2>7
<1>3. ASSUME NEW i \in DOMAIN wire, PrintLine(i) PROVE AckedInOrder'
  <2>1. acked' = acked BY <1>3 DEF PrintLine
  <2> SUFFICES ASSUME NEW c \in acked
               PROVE  /\ Printed(c)' # {}
                      /\ \A k \in DOMAIN chat' :
                            chat'[k].msg = c.msg /\ chat'[k].n > c.n => First(c)' < k
    BY <2>1 DEF AckedInOrder
  <2>2. /\ Printed(c) # {}
        /\ \A k \in DOMAIN chat : chat[k].msg = c.msg /\ chat[k].n > c.n => First(c) < k
    BY <1>0 DEF AckedInOrder
  <2>3. Printed(c)' # {} /\ First(c)' = First(c) BY <1>0, <1>3, <2>2, ChatGrows
  <2>4. /\ Len(chat) \in Nat /\ DOMAIN chat = 1 .. Len(chat)
        /\ DOMAIN chat' = 1 .. Len(chat) + 1 /\ \A k \in 1 .. Len(chat) : chat'[k] = chat[k]
    BY <1>0, <1>3, ChatGrows
  <2>5. First(c) \in 1 .. Len(chat) BY <1>0, <2>2, <2>4, FirstIs DEF Printed
  <2>6. ASSUME NEW k \in DOMAIN chat', chat'[k].msg = c.msg, chat'[k].n > c.n
        PROVE  First(c) < k
    <3>1. CASE k \in 1 .. Len(chat) BY <2>2, <2>4, <2>6, <3>1
    <3>2. CASE k = Len(chat) + 1 BY <2>4, <2>5, <3>2
    <3> QED BY <2>4, <3>1, <3>2
  <2> QED BY <2>3, <2>6
<1>4. ASSUME NEW i \in DOMAIN wire, Lose(i) PROVE AckedInOrder'
  BY <1>1, <1>4 DEF Lose
<1>5. ASSUME NEW m \in Messages, Receive(m) \/ Lock(m) PROVE AckedInOrder'
  BY <1>1, <1>5 DEF Receive, Lock
<1>6. CASE Dial \/ DialFails \/ TooLong \/ Send \/ Retry \/ RetryFails
  BY <1>1, <1>6 DEF Dial, DialFails, TooLong, Send, Retry, RetryFails, Return
<1>7. CASE UNCHANGED vars BY <1>1, <1>7 DEF vars
<1>8. CASE ReadReply /\ late # {} BY <1>1, <1>8 DEF ReadReply, Return
<1> QED BY <1>2, <1>3, <1>4, <1>5, <1>6, <1>7, <1>8 DEF Next, ExecuteStep

LEMMA OrderHolds == Spec => []OrderInv
<1>1. Init => OrderInv
  <2> SUFFICES ASSUME Init PROVE OrderInv OBVIOUS
  <2>1. SentAsTried
    <3> SUFFICES ASSUME NEW c \in Commands PROVE AtMost(Tries(c), Copies(c))
      BY DEF SentAsTried
    <3>1. Copies(c) = {} BY DEF Init, Copies, Waiting, Printed
    <3> QED BY <3>1 DEF AtMost
  <2>2. Paired BY PairedInit
  <2>3. AnsweredIsPrinted /\ AckedInOrder
    BY DEF Init, AnsweredIsPrinted, AckedInOrder
  <2> QED BY <2>1, <2>2, <2>3, TypeInvInit DEF OrderInv
<1>2. OrderInv /\ [Next]_vars => OrderInv'
  <2> SUFFICES ASSUME OrderInv, [Next]_vars PROVE OrderInv' OBVIOUS
  <2>1. TypeInv' BY TypeInvNext DEF OrderInv
  <2>2. SentAsTried' BY <2>1, SentNext DEF OrderInv
  <2>3. Paired' BY PairedNext DEF OrderInv
  <2>4. AnsweredIsPrinted' BY <2>1, AnsweredNext DEF OrderInv
  <2>5. AckedInOrder' BY <2>1, AckedNext
  <2> QED BY <2>1, <2>2, <2>3, <2>4, <2>5 DEF OrderInv
<1> QED BY <1>1, <1>2, PTL DEF Spec

\* A command that Execute reports as done, with no reply outstanding from before, was
\* printed, and before every later piece of its message.
THEOREM DoneInOrder == Spec => []AckedInOrder
<1>1. OrderInv => AckedInOrder BY DEF OrderInv
<1> QED BY <1>1, OrderHolds, PTL

-----------------------------------------------------------------------------
(* The lines of a message.                                                  *)

\* There is one increasing enumeration of a finite set of numbers.
LEMMA InOrderIs ==
    ASSUME NEW n \in Nat, NEW S \in SUBSET Nat, NEW pos \in [1 .. n -> S],
           \A i \in S : \E k \in 1 .. n : pos[k] = i,
           \A j, k \in 1 .. n : j < k => pos[j] < pos[k]
    PROVE  InOrder(S) = pos
<1> DEFINE Increasing(s) == \A j, k \in 1 .. n : j < k => s[j] < s[k]
<1>1. ASSUME NEW s \in [1 .. n -> S], Increasing(s), NEW j \in 1 .. n, NEW k \in 1 .. n,
             s[j] = s[k]
      PROVE  j = k
  <2>1. s[j] \in Nat /\ s[k] \in Nat BY <1>1
  <2>2. ~(s[j] < s[k]) /\ ~(s[k] < s[j]) BY <1>1, <2>1
  <2>3. ~(j < k) /\ ~(k < j) BY <1>1, <2>2
  <2> QED BY <2>3
<1>2. IsFiniteSet(1 .. n) /\ Cardinality(1 .. n) = n BY FS_Interval
<1>3. Cardinality(S) = n /\ IsFiniteSet(S)
  <2>1. pos \in Bijection(1 .. n, S)
    <3>1. \A j, k \in 1 .. n : pos[j] = pos[k] => j = k BY <1>1
    <3>2. pos \in Injection(1 .. n, S) BY <3>1 DEF Injection, IsInjective
    <3>3. pos \in Surjection(1 .. n, S) BY DEF Surjection
    <3> QED BY <3>2, <3>3 DEF Bijection
  <2> QED BY <1>2, <2>1, FS_Bijection DEF ExistsBijection
<1>4. ASSUME NEW s \in [1 .. n -> S], Increasing(s) PROVE s = pos
  <2>1. \A i \in S : \E k \in 1 .. n : s[k] = i
    <3>1. \A j, k \in 1 .. n : s[j] = s[k] => j = k BY <1>1, <1>4
    <3>2. s \in Injection(1 .. n, S) BY <3>1 DEF Injection, IsInjective
    <3>3. s \in Surjection(1 .. n, S) BY <1>2, <1>3, <3>2, FS_Injection
    <3> QED BY <3>3 DEF Surjection
  <2> DEFINE T == {k \in 1 .. n : s[k] = pos[k]}
  <2>2. ASSUME NEW k \in 1 .. n, \A j \in 1 .. k - 1 : j \in T PROVE k \in T
    <3>1. PICK a \in 1 .. n : pos[a] = s[k] BY <1>4
    <3>2. PICK b \in 1 .. n : s[b] = pos[k] BY <2>1
    <3>3. a >= k
      <4>1. ASSUME a < k PROVE FALSE
        <5>1. s[a] = s[k] BY <2>2, <3>1, <4>1
        <5>2. a = k BY <1>1, <1>4, <5>1
        <5> QED BY <4>1, <5>2
      <4> QED BY <4>1
    <3>4. b >= k
      <4>1. ASSUME b < k PROVE FALSE
        <5>1. pos[b] = pos[k] BY <2>2, <3>2, <4>1
        <5>2. b = k BY <1>1, <5>1
        <5> QED BY <4>1, <5>2
      <4> QED BY <4>1
    <3>5. a = k \/ pos[k] < pos[a] BY <3>3
    <3>6. b = k \/ s[k] < s[b] BY <1>4, <3>4
    <3>7. s[k] \in Nat /\ pos[k] \in Nat BY <1>4
    <3> QED BY <3>1, <3>2, <3>5, <3>6, <3>7
  <2>3. 1 .. n \subseteq T
    <3> HIDE DEF T
    <3> QED BY <2>2, Induct
  <2> QED BY <1>4, <2>3
<1>5. InOrder(S) = CHOOSE s \in [1 .. n -> S] : Increasing(s)
  <2>1. ASSUME NEW s \in [1 .. n -> S]
        PROVE  (\A j, k \in DOMAIN s : j < k => s[j] < s[k]) <=> Increasing(s)
    <3>1. DOMAIN s = 1 .. n OBVIOUS
    <3> QED BY <3>1, Zenon
  <2> QED BY <1>3, <2>1, Zenon DEF InOrder
<1> QED BY <1>4, <1>5

\* The piece n of a message, as a command.
Part(m, n) == [msg |-> m, n |-> n]

\* When each piece of a message that carries text was acknowledged, the lines are the
\* pieces.
LEMMA LinesArePieces ==
    ASSUME TypeInv, AckedInOrder, NEW m \in Messages,
           \A n \in DOMAIN cmds[m] : Part(m, n) \in acked
    PROVE  LET lines == InOrder(Lines(m))
           IN [k \in DOMAIN lines |-> Runes(chat[lines[k]])] = cmds[m]
<1> DEFINE L == Len(cmds[m])
           pos == [k \in 1 .. L |-> First(Part(m, k))]
<1>1. cmds[m] \in Seq(Text) /\ L \in Nat /\ DOMAIN cmds[m] = 1 .. L
  <2>1. cmds[m] \in Seq(Text) BY DEF TypeInv, CutOnce
  <2> QED BY <2>1, LenProperties
<1>2. \A c \in Commands : c = Part(c.msg, c.n) BY DEF Commands, Part
<1>3. \A n : Part(m, n).msg = m /\ Part(m, n).n = n BY DEF Part
<1>4. ASSUME NEW k \in 1 .. L
      PROVE  /\ First(Part(m, k)) \in Printed(Part(m, k)) /\ First(Part(m, k)) \in Nat
             /\ First(Part(m, k)) \in DOMAIN chat
             /\ chat[First(Part(m, k))] = Part(m, k)
             /\ \A j \in Printed(Part(m, k)) : First(Part(m, k)) <= j
  <2>1. Part(m, k) \in acked BY <1>1
  <2>2. Printed(Part(m, k)) # {} BY <2>1 DEF AckedInOrder
  <2> QED BY <2>2, FirstIs DEF Printed
<1>5. ASSUME NEW k \in 1 .. L PROVE pos[k] \in Lines(m)
  <2>1. pos[k] = First(Part(m, k)) OBVIOUS
  <2> HIDE DEF pos
  <2> QED BY <1>3, <1>4, <2>1 DEF Lines
<1>6. ASSUME NEW i \in Lines(m) PROVE i \in Nat /\ \E k \in 1 .. L : pos[k] = i
  <2>1. i \in DOMAIN chat /\ chat[i].msg = m /\ First(chat[i]) = i BY <1>6 DEF Lines
  <2>2. chat[i] \in Commands /\ IsCommand(chat[i]) /\ i \in Nat
    BY <2>1, ElementOfSeq, LenProperties DEF TypeInv, Traffic
  <2>3. chat[i].n \in 1 .. L BY <1>1, <2>1, <2>2 DEF IsCommand
  <2>4. chat[i] = Part(m, chat[i].n) BY <1>2, <2>1, <2>2
  <2>5. pos[chat[i].n] = i BY <2>1, <2>3, <2>4
  <2> QED BY <2>2, <2>3, <2>5
<1>7. ASSUME NEW j \in 1 .. L, NEW k \in 1 .. L, j < k PROVE pos[j] < pos[k]
  <2>1. Part(m, j) \in acked BY <1>1
  <2>2. First(Part(m, k)) \in DOMAIN chat /\ chat[First(Part(m, k))] = Part(m, k)
    BY <1>4
  <2>3. k > j BY <1>1, <1>7
  <2>4. First(Part(m, j)) < First(Part(m, k)) BY <1>3, <2>1, <2>2, <2>3 DEF AckedInOrder
  <2> QED BY <2>4
<1>8. InOrder(Lines(m)) = pos
  <2>1. pos \in [1 .. L -> Lines(m)] BY <1>5
  <2>2. Lines(m) \subseteq Nat BY <1>6
  <2> HIDE DEF L, pos
  <2> QED BY <1>1, <1>6, <1>7, <2>1, <2>2, InOrderIs
<1>9. ASSUME NEW k \in 1 .. L PROVE Runes(chat[pos[k]]) = cmds[m][k]
  <2>1. chat[pos[k]] = Part(m, k) BY <1>4
  <2> HIDE DEF pos
  <2> QED BY <1>3, <2>1 DEF Runes
<1>10. DOMAIN pos = 1 .. L OBVIOUS
<1>11. [k \in 1 .. L |-> Runes(chat[pos[k]])] = cmds[m]
  <2>1. [k \in 1 .. L |-> Runes(chat[pos[k]])] = [k \in 1 .. L |-> cmds[m][k]]
    <3> HIDE DEF pos, L
    <3> QED BY <1>9
  <2>2. cmds[m] = [k \in 1 .. L |-> cmds[m][k]] BY <1>1
  <2> QED BY <2>1, <2>2
<1> HIDE DEF L, pos
<1> QED BY <1>8, <1>10, <1>11

\* A message without text has one piece, and no line or one.
LEMMA NoText ==
    ASSUME TypeInv, NEW m \in Messages, cmds[m] = <<<<>>>>
    PROVE  LET lines == InOrder(Lines(m))
           IN FlattenSeq([k \in DOMAIN lines |-> Runes(chat[lines[k]])]) = <<>>
<1>1. ASSUME NEW i \in Lines(m)
      PROVE  /\ i \in Nat /\ i \in DOMAIN chat /\ chat[i] = Part(m, 1)
             /\ First(Part(m, 1)) = i
  <2>1. i \in DOMAIN chat /\ chat[i].msg = m /\ First(chat[i]) = i BY <1>1 DEF Lines
  <2>2. chat[i] \in Commands /\ IsCommand(chat[i]) /\ i \in Nat
    BY <2>1, ElementOfSeq, LenProperties DEF TypeInv, Traffic
  <2>3. chat[i].n = 1
    <3>1. DOMAIN <<<<>>>> = {1} OBVIOUS
    <3> QED BY <2>1, <2>2, <3>1 DEF IsCommand
  <2>4. chat[i] = Part(m, 1) BY <2>1, <2>2, <2>3 DEF Commands, Part
  <2> QED BY <2>1, <2>2, <2>4
<1>2. CASE Lines(m) = {}
  <2> DEFINE none == [k \in 1 .. 0 |-> 0]
  <2>1. none \in [1 .. 0 -> Lines(m)] /\ DOMAIN none = {} OBVIOUS
  <2>2. InOrder(Lines(m)) = none
    <3>1. \A i \in Lines(m) : \E k \in 1 .. 0 : none[k] = i BY <1>2
    <3>2. \A j, k \in 1 .. 0 : j < k => none[j] < none[k] OBVIOUS
    <3>3. Lines(m) \in SUBSET Nat /\ 0 \in Nat BY <1>2
    <3> HIDE DEF none
    <3> QED BY <2>1, <3>1, <3>2, <3>3, InOrderIs
  <2>3. [k \in DOMAIN none |-> Runes(chat[none[k]])] = <<>>
    <3> HIDE DEF none
    <3> QED BY <2>1
  <2> HIDE DEF none
  <2> QED BY <2>2, <2>3, FlattenEmpty
<1>3. CASE Lines(m) # {}
  <2> PICK i \in Lines(m) : TRUE BY <1>3
  <2> DEFINE one == [k \in 1 .. 1 |-> i]
  <2>1. one \in [1 .. 1 -> Lines(m)] /\ DOMAIN one = 1 .. 1 /\ one[1] = i OBVIOUS
  <2>2. InOrder(Lines(m)) = one
    <3>1. \A j \in Lines(m) : \E k \in 1 .. 1 : one[k] = j BY <1>1, <2>1
    <3>2. \A j, k \in 1 .. 1 : j < k => one[j] < one[k] OBVIOUS
    <3>3. Lines(m) \in SUBSET Nat /\ 1 \in Nat BY <1>1
    <3> HIDE DEF one
    <3> QED BY <2>1, <3>1, <3>2, <3>3, InOrderIs
  <2>3. Runes(chat[i]) = <<>>
    <3>1. chat[i].msg = m /\ chat[i].n = 1 BY <1>1 DEF Part
    <3> QED BY <3>1 DEF Runes
  <2>4. [k \in DOMAIN one |-> Runes(chat[one[k]])] = <<<<>>>>
    <3>1. [k \in DOMAIN one |-> Runes(chat[one[k]])] = [k \in 1 .. 1 |-> <<>>]
      <4> HIDE DEF one
      <4> QED BY <2>1, <2>3
    <3>2. [k \in 1 .. 1 |-> <<>>] = <<<<>>>> OBVIOUS
    <3> QED BY <3>1, <3>2
  <2>5. <<>> \in Text BY EmptySeq DEF Text
  <2> HIDE DEF one
  <2> QED BY <2>2, <2>4, <2>5, FlattenOne
<1> QED BY <1>2, <1>3

LEMMA WholeIfOrdered ==
    ASSUME TypeInv, AckedInOrder, NEW m \in Messages,
           Splittable(m), WorkedOff(m), Delivered(m)
    PROVE  LET lines == InOrder(Lines(m))
           IN FlattenSeq([k \in DOMAIN lines |-> Runes(chat[lines[k]])]) = input[m].runes
<1> DEFINE in == input[m]
<1>1. in \in Input /\ Splits(in)
  BY DEF TypeInv, CutOnce, Splittable, Splits
<1>2. /\ in.overhead \in Nat /\ in.runes \in Seq(Nat) /\ DOMAIN in.runes = 1 .. Len(in.runes)
      /\ \A i \in 1 .. Len(in.runes) : in.runes[i] \in Nat /\ in.runes[i] > 0
      /\ MaxCommandLen \in Nat /\ Len(in.runes) \in Nat
  BY <1>1, InputType, SizesAssumption
<1> HIDE DEF in
<1>3. cmds[m] = IncomingCommands(in)
  <2>1. cmds[m] \in Seq(Text) /\ next[m] \in Nat BY DEF TypeInv, CutOnce
  <2>2. Len(cmds[m]) \in Nat /\ next[m] > Len(cmds[m])
    BY <2>1, LenProperties DEF WorkedOff
  <2>3. next[m] # 0 BY <2>1, <2>2
  <2> QED BY <2>3 DEF TypeInv, CutOnce, in
<1>4. DOMAIN cmds[m] = 1 .. Len(cmds[m])
  BY LenProperties DEF TypeInv, CutOnce
<1>5. \A n \in DOMAIN cmds[m] : Part(m, n) \in acked \/ ~Fits(in, cmds[m][n])
  BY DEF Delivered, Part, in
<1>6. CASE \A n \in DOMAIN cmds[m] : Part(m, n) \in acked
  BY <1>1, <1>3, <1>6, CommandsAreWhole, LinesArePieces DEF in
<1>7. CASE \E n \in DOMAIN cmds[m] : Part(m, n) \notin acked
  <2>1. PICK n \in DOMAIN cmds[m] : ~Fits(in, cmds[m][n]) BY <1>5, <1>7
  <2>2. ~(Budget(in) > 0) BY <1>1, <1>3, <1>4, <2>1, CommandsFit
  <2>3. Len(in.runes) = 0
    <3>1. ASSUME NEW i \in 1 .. Len(in.runes) PROVE FALSE
      <4>1. in.overhead + in.runes[i] <= MaxCommandLen BY <1>1, <1>2 DEF Splits
      <4>2. MaxCommandLen - in.overhead > 0 BY <1>2, <4>1
      <4> QED BY <2>2, <4>2 DEF Budget
    <3> QED BY <1>2, <3>1
  <2>4. in.runes = <<>> BY <1>2, <2>3, EmptySeq
  <2>5. Budget(in) <= 0
    <3>1. ~(MaxCommandLen - in.overhead > 0) BY <2>2 DEF Budget
    <3>2. MaxCommandLen - in.overhead <= 0 BY <1>2, <3>1
    <3> QED BY <3>2 DEF Budget
  <2>6. cmds[m] = <<<<>>>> BY <1>3, <2>4, <2>5 DEF IncomingCommands
  <2> QED BY <2>4, <2>6, NoText DEF in
<1> QED BY <1>6, <1>7

\* The lines of a message whose calls all succeeded so are the whole message
\* (inbound.go:10-17), whatever was retried, printed twice or interleaved with the
\* commands of other messages.
THEOREM NothingIsLost == Spec => []MessageIsWhole
<1>1. OrderInv => MessageIsWhole
  BY WholeIfOrdered DEF OrderInv, MessageIsWhole
<1> QED BY <1>1, OrderHolds, PTL
=============================================================================
