----------------------------- MODULE SequenceLemmas -----------------------------
(***************************************************************************)
(* Facts about the elements of a sequence when calls join it at the end    *)
(* and leave it at the front.  The queues and the histories of the RPC     *)
(* modules are sequences of distinct calls.                                *)
(***************************************************************************)
EXTENDS Sums, Subsequences, Sequences, Integers, Functions, SequenceTheorems, WellFoundedInduction, TLAPS

\* A function on the first numbers is a sequence.
LEMMA SeqOfFunction ==
  ASSUME NEW S, NEW n \in Nat, NEW s \in [1..n -> S]
  PROVE  s \in Seq(S) /\ Len(s) = n /\ DOMAIN s = 1..n
<1>1. s = [i \in 1..n |-> s[i]] /\ \A i \in 1..n : s[i] \in S
  OBVIOUS
<1>2. s \in Seq(S)
  BY <1>1
<1> QED BY <1>2

\* The elements of a sequence are what its positions hold.
LEMMA RangeIsElements ==
  ASSUME NEW S, NEW s \in Seq(S)
  PROVE  /\ Range(s) \subseteq S
         /\ \A x : x \in Range(s) <=> \E i \in 1..Len(s) : s[i] = x
BY LenProperties DEF Range

\* The empty sequence has no element.
LEMMA RangeOfEmpty == Range(<<>>) = {} /\ IsInjective(<<>>)
BY DEF Range, IsInjective

\* Appending adds one element, and keeps the elements distinct if it is new.
LEMMA RangeOfAppend ==
  ASSUME NEW S, NEW s \in Seq(S), NEW x \in S
  PROVE  /\ Append(s, x) \in Seq(S)
         /\ Range(Append(s, x)) = Range(s) \cup {x}
         /\ IsInjective(s) /\ x \notin Range(s) => IsInjective(Append(s, x))
<1> DEFINE t == Append(s, x)
<1>1. /\ t \in Seq(S)
      /\ Len(t) = Len(s) + 1 /\ Len(s) \in Nat
      /\ \A i \in 1..Len(s) : t[i] = s[i]
      /\ t[Len(s) + 1] = x
  BY AppendProperties, LenProperties
<1>2. DOMAIN s = 1..Len(s) /\ DOMAIN t = 1..(Len(s) + 1)
  BY <1>1, LenProperties
<1>3. \A i \in 1..(Len(s) + 1) : i \in 1..Len(s) \/ i = Len(s) + 1
  BY <1>1
<1>4. 1..Len(s) \subseteq 1..(Len(s) + 1) /\ Len(s) + 1 \in 1..(Len(s) + 1)
  BY <1>1
<1> HIDE DEF t
<1>5. Range(t) = Range(s) \cup {x}
  BY <1>1, <1>2, <1>3, <1>4 DEF Range
<1>6. IsInjective(s) /\ x \notin Range(s) => IsInjective(t)
  BY <1>1, <1>2, <1>3, <1>4 DEF Range, IsInjective
<1> QED BY <1>1, <1>5, <1>6 DEF t

\* Taking the head leaves the other elements, and of distinct elements the
\* head is not among those left.
LEMMA RangeOfTail ==
  ASSUME NEW S, NEW s \in Seq(S), s # <<>>
  PROVE  /\ Head(s) \in S
         /\ Tail(s) \in Seq(S)
         /\ Range(s) = Range(Tail(s)) \cup {Head(s)}
         /\ IsInjective(s) => IsInjective(Tail(s)) /\ Head(s) \notin Range(Tail(s))
<1> DEFINE t == Tail(s)
<1>1. /\ Head(s) \in S /\ t \in Seq(S)
      /\ Len(t) = Len(s) - 1 /\ Len(s) \in Nat \ {0}
      /\ \A i \in 1..Len(t) : t[i] = s[i + 1]
      /\ Head(s) = s[1]
  BY HeadTailProperties, EmptySeq, LenProperties
<1>2. DOMAIN s = 1..Len(s) /\ DOMAIN t = 1..(Len(s) - 1)
  BY <1>1, LenProperties
<1>3. \A i \in 1..Len(s) : i = 1 \/ (i - 1 \in 1..(Len(s) - 1) /\ (i - 1) + 1 = i)
  BY <1>1
<1>4. /\ 1 \in 1..Len(s)
      /\ \A i \in 1..(Len(s) - 1) : i + 1 \in 1..Len(s) /\ i + 1 # 1
      /\ \A i, j \in 1..(Len(s) - 1) : i + 1 = j + 1 => i = j
  BY <1>1
<1>5. \A i \in 1..(Len(s) - 1) : t[i] = s[i + 1]
  BY <1>1
<1> HIDE DEF t
<1>6. Range(s) = Range(t) \cup {Head(s)}
  <2>1. ASSUME NEW y \in Range(s) PROVE y \in Range(t) \cup {Head(s)}
    <3>1. PICK i \in 1..Len(s) : y = s[i]
      BY <1>2 DEF Range
    <3>2. CASE i = 1
      BY <1>1, <3>1, <3>2
    <3>3. CASE i - 1 \in 1..(Len(s) - 1) /\ (i - 1) + 1 = i
      BY <1>2, <1>5, <3>1, <3>3 DEF Range
    <3> QED BY <1>3, <3>2, <3>3
  <2>2. ASSUME NEW y \in Range(t) PROVE y \in Range(s)
    BY <1>2, <1>4, <1>5 DEF Range
  <2>3. Head(s) \in Range(s)
    BY <1>1, <1>2, <1>4 DEF Range
  <2> QED BY <2>1, <2>2, <2>3
<1>7. IsInjective(s) => IsInjective(t)
  <2> SUFFICES ASSUME IsInjective(s), NEW i \in DOMAIN t, NEW j \in DOMAIN t, t[i] = t[j]
               PROVE  i = j
    BY DEF IsInjective
  <2>1. i \in 1..(Len(s) - 1) /\ j \in 1..(Len(s) - 1)
    BY <1>2
  <2>2. s[i + 1] = s[j + 1] /\ i + 1 \in DOMAIN s /\ j + 1 \in DOMAIN s
    BY <1>2, <1>4, <1>5, <2>1
  <2>3. i + 1 = j + 1
    BY <2>2 DEF IsInjective
  <2> QED BY <1>4, <2>1, <2>3
<1>8. IsInjective(s) => Head(s) \notin Range(t)
  BY <1>1, <1>2, <1>4, <1>5 DEF IsInjective, Range
<1> QED BY <1>1, <1>6, <1>7, <1>8 DEF t

\* Taking the last element, as a stack does.
LEMMA RangeOfFront ==
  ASSUME NEW S, NEW s \in Seq(S), s # <<>>
  PROVE  LET t == SubSeq(s, 1, Len(s) - 1)
             x == s[Len(s)]
         IN /\ x \in S
            /\ t \in Seq(S)
            /\ Range(s) = Range(t) \cup {x}
            /\ IsInjective(s) => IsInjective(t) /\ x \notin Range(t)
<1> DEFINE t == SubSeq(s, 1, Len(s) - 1)
           x == s[Len(s)]
<1>1. Len(s) \in Nat \ {0} /\ DOMAIN s = 1..Len(s) /\ x \in S
  BY EmptySeq, LenProperties, ElementOfSeq
<1>2. /\ t \in Seq(S) /\ Len(t) = Len(s) - 1
      /\ \A i \in 1..(Len(s) - 1) : t[i] = s[i]
  <2>1. 1 \in Int /\ Len(s) - 1 \in Int /\ \A i \in 1..(Len(s) - 1) : s[i] \in S
    BY <1>1, ElementOfSeq
  <2>2. /\ t \in Seq(S)
        /\ Len(t) = IF 1 <= Len(s) - 1 THEN (Len(s) - 1) - 1 + 1 ELSE 0
        /\ \A i \in 1..((Len(s) - 1) - 1 + 1) : t[i] = s[1 + i - 1]
    BY <2>1, SubSeqProperties
  <2> QED BY <1>1, <2>2
<1>3. DOMAIN t = 1..(Len(s) - 1)
  BY <1>1, <1>2, LenProperties
<1>4. \A i : i \in 1..Len(s) <=> i \in 1..(Len(s) - 1) \/ i = Len(s)
  BY <1>1
<1>5. Len(s) \notin 1..(Len(s) - 1)
  BY <1>1
<1> HIDE DEF t
<1>6. Range(s) = Range(t) \cup {x}
  BY <1>1, <1>2, <1>3, <1>4 DEF Range
<1>7. IsInjective(s) => IsInjective(t)
  BY <1>1, <1>2, <1>3, <1>4 DEF IsInjective
<1>8. IsInjective(s) => x \notin Range(t)
  BY <1>1, <1>2, <1>3, <1>4, <1>5 DEF IsInjective, Range
<1> QED BY <1>1, <1>2, <1>6, <1>7, <1>8 DEF t

\* Concatenation joins the elements, and keeps them distinct if none is shared.
LEMMA RangeOfConcat ==
  ASSUME NEW S, NEW s \in Seq(S), NEW t \in Seq(S)
  PROVE  /\ s \o t \in Seq(S)
         /\ Range(s \o t) = Range(s) \cup Range(t)
         /\ IsInjective(s) /\ IsInjective(t) /\ Range(s) \cap Range(t) = {}
              => IsInjective(s \o t)
<1> DEFINE u == s \o t
<1>1. /\ u \in Seq(S) /\ Len(u) = Len(s) + Len(t)
      /\ Len(s) \in Nat /\ Len(t) \in Nat
      /\ DOMAIN s = 1..Len(s) /\ DOMAIN t = 1..Len(t) /\ DOMAIN u = 1..(Len(s) + Len(t))
      /\ \A i \in 1..(Len(s) + Len(t)) :
           u[i] = IF i <= Len(s) THEN s[i] ELSE t[i - Len(s)]
  BY ConcatProperties, LenProperties
<1>2. Range(u) = Range(s) \cup Range(t)
  BY RangeConcatenation
<1>3. \A i \in 1..(Len(s) + Len(t)) :
        \/ i \in 1..Len(s) /\ u[i] = s[i]
        \/ i > Len(s) /\ i - Len(s) \in 1..Len(t) /\ u[i] = t[i - Len(s)]
  BY <1>1
<1>4. ASSUME IsInjective(s), IsInjective(t), Range(s) \cap Range(t) = {},
             NEW i \in 1..(Len(s) + Len(t)), NEW j \in 1..(Len(s) + Len(t)), u[i] = u[j]
      PROVE  i = j
  <2> HIDE DEF u
  <2>1. CASE i \in 1..Len(s) /\ j \in 1..Len(s)
    BY <1>1, <1>4, <2>1 DEF IsInjective
  <2>2. CASE i > Len(s) /\ j > Len(s)
    <3>1. t[i - Len(s)] = t[j - Len(s)] /\ i - Len(s) \in 1..Len(t) /\ j - Len(s) \in 1..Len(t)
      BY <1>1, <1>4, <2>2
    <3>2. i - Len(s) = j - Len(s)
      BY <1>1, <1>4, <3>1 DEF IsInjective
    <3> QED BY <1>1, <3>2
  <2>3. CASE i \in 1..Len(s) /\ j > Len(s)
    <3>1. u[i] = s[i] /\ u[j] = t[j - Len(s)] /\ j - Len(s) \in 1..Len(t)
      BY <1>1, <2>3
    <3>2. s[i] \in Range(s) /\ t[j - Len(s)] \in Range(t)
      BY <1>1, <2>3, <3>1 DEF Range
    <3> QED BY <1>4, <3>1, <3>2
  <2>4. CASE j \in 1..Len(s) /\ i > Len(s)
    <3>1. u[j] = s[j] /\ u[i] = t[i - Len(s)] /\ i - Len(s) \in 1..Len(t)
      BY <1>1, <2>4
    <3>2. s[j] \in Range(s) /\ t[i - Len(s)] \in Range(t)
      BY <1>1, <2>4, <3>1 DEF Range
    <3> QED BY <1>4, <3>1, <3>2
  <2> QED BY <1>1, <2>1, <2>2, <2>3, <2>4
<1> HIDE DEF u
<1>5. IsInjective(s) /\ IsInjective(t) /\ Range(s) \cap Range(t) = {} => IsInjective(u)
  BY <1>1, <1>4 DEF IsInjective
<1> QED BY <1>1, <1>2, <1>5 DEF u
-----------------------------------------------------------------------------
(* Sums.  A function defined by recursion exists because no length is the    *)
(* least one for which it does not; each fact about it is proved in that     *)
(* way, from the least number for which it would fail.                       *)

\* The partial sums of w, up to n: what the recursive definition says of them.
PartialSums(w, n, g) ==
  g = [i \in 0..n |-> IF i = 0 THEN 0 ELSE g[i - 1] + w[i]]

\* A set of numbers with no least element is empty.
LEMMA LeastNumber ==
  ASSUME NEW T, T \subseteq Nat, T # {}
  PROVE  \E n \in T : \A m \in T : n <= m
<1>1. PICK n \in T : \A m \in T : ~(<<m, n>> \in OpToRel(<, Nat))
  BY WFMin, NatLessThanWellFounded
<1>2. ASSUME NEW m \in T PROVE n <= m
  <2>1. n \in Nat /\ m \in Nat
    OBVIOUS
  <2>2. ~(m < n)
    BY <1>1, <2>1 DEF OpToRel
  <2> QED BY <2>1, <2>2
<1> QED BY <1>2

\* Every sequence has partial sums.
LEMMA PartialSumsExist ==
  ASSUME NEW w \in Seq(Nat), NEW n \in 0..Len(w)
  PROVE  \E g : PartialSums(w, n, g)
<1> DEFINE T == {m \in 0..Len(w) : ~ \E g : PartialSums(w, m, g)}
<1>0. Len(w) \in Nat
  BY LenProperties
<1> SUFFICES ASSUME T # {} PROVE FALSE
  OBVIOUS
<1>1. T \subseteq Nat
  BY <1>0
<1>2. PICK m \in T : \A k \in T : m <= k
  BY <1>1, LeastNumber
<1>3. CASE m = 0
  <2> DEFINE g == [i \in 0..0 |-> 0]
  <2>1. PartialSums(w, 0, g)
    BY DEF PartialSums
  <2> QED BY <1>3, <2>1
<1>4. CASE m # 0
  <2>1. m \in 1..Len(w) /\ m - 1 \in 0..Len(w) /\ m - 1 \notin T
    BY <1>0, <1>2, <1>4
  <2>2. PICK g : PartialSums(w, m - 1, g)
    BY <2>1
  <2> DEFINE h == [i \in 0..m |-> IF i = m THEN g[m - 1] + w[m] ELSE g[i]]
  <2>3. ASSUME NEW i \in 0..m
        PROVE  h[i] = IF i = 0 THEN 0 ELSE h[i - 1] + w[i]
    <3>1. i = m \/ i \in 0..(m - 1)
      BY <2>1
    <3>2. i # 0 => i - 1 \in 0..(m - 1) /\ i - 1 # m /\ i - 1 \in 0..m
      BY <2>1
    <3>3. \A j \in 0..(m - 1) : g[j] = IF j = 0 THEN 0 ELSE g[j - 1] + w[j]
      BY <2>2 DEF PartialSums
    <3>4. i # 0 => h[i - 1] = g[i - 1]
      BY <3>2
    <3>5. CASE i = m
      BY <1>4, <3>4, <3>5
    <3>6. CASE i # m
      BY <3>1, <3>3, <3>4, <3>6
    <3> QED BY <3>5, <3>6
  <2>4. h = [i \in 0..m |-> IF i = 0 THEN 0 ELSE h[i - 1] + w[i]]
    <3>1. h = [i \in 0..m |-> h[i]]
      OBVIOUS
    <3> HIDE DEF h
    <3> QED BY <2>3, <3>1
  <2>5. PartialSums(w, m, h)
    <3> HIDE DEF h
    <3> QED BY <2>4 DEF PartialSums
  <2> QED BY <2>5
<1> QED BY <1>3, <1>4

\* SumOf is the last partial sum.
LEMMA SumOfIsPartialSum ==
  ASSUME NEW w \in Seq(Nat)
  PROVE  \E g : PartialSums(w, Len(w), g) /\ SumOf(w) = g[Len(w)]
<1>1. Len(w) \in 0..Len(w)
  BY LenProperties
<1>2. \E g : g = [i \in 0..Len(w) |-> IF i = 0 THEN 0 ELSE g[i - 1] + w[i]]
  BY <1>1, PartialSumsExist DEF PartialSums
<1> DEFINE g == CHOOSE f : f = [i \in 0..Len(w) |-> IF i = 0 THEN 0 ELSE f[i - 1] + w[i]]
<1>3. g = [i \in 0..Len(w) |-> IF i = 0 THEN 0 ELSE g[i - 1] + w[i]]
  BY <1>2
<1>4. SumOf(w) = g[Len(w)]
  BY DEF SumOf
<1> HIDE DEF g
<1> QED BY <1>3, <1>4 DEF PartialSums
\* The partial sums of numbers are numbers, and determined by the numbers.
LEMMA PartialSumsAreNumbers ==
  ASSUME NEW w \in Seq(Nat), NEW n \in 0..Len(w), NEW g, PartialSums(w, n, g)
  PROVE  \A i \in 0..n : g[i] \in Nat /\ (i > 0 => g[i] = g[i - 1] + w[i])
<1>1. /\ Len(w) \in Nat
      /\ \A i \in 1..n : w[i] \in Nat
  BY LenProperties, ElementOfSeq
<1>2. \A i \in 0..n : g[i] = IF i = 0 THEN 0 ELSE g[i - 1] + w[i]
  BY DEF PartialSums
<1> DEFINE T == {i \in 0..n : g[i] \notin Nat}
<1>3. ASSUME T # {} PROVE FALSE
  <2>1. T \subseteq Nat
    BY <1>1
  <2>2. PICK m \in T : \A k \in T : m <= k
    BY <1>3, <2>1, LeastNumber
  <2>3. m # 0
    BY <1>2, <2>2
  <2>4. m \in 1..n /\ m - 1 \in 0..n /\ m - 1 \notin T
    BY <1>1, <2>2, <2>3
  <2>5. g[m - 1] \in Nat /\ w[m] \in Nat /\ g[m] = g[m - 1] + w[m]
    BY <1>1, <1>2, <2>3, <2>4
  <2> QED BY <2>2, <2>5
<1> QED BY <1>2, <1>3

\* The sum of nothing.
LEMMA SumOfEmpty == SumOf(<<>>) = 0
<1>1. <<>> \in Seq(Nat) /\ Len(<<>>) = 0
  BY EmptySeq
<1>2. PICK g : PartialSums(<<>>, 0, g) /\ SumOf(<<>>) = g[0]
  BY <1>1, SumOfIsPartialSum
<1> QED BY <1>2 DEF PartialSums

\* A sum is a number, and no smaller than any of its parts.
LEMMA SumOfBounds ==
  ASSUME NEW w \in Seq(Nat)
  PROVE  SumOf(w) \in Nat /\ \A j \in 1..Len(w) : w[j] <= SumOf(w)
<1>1. PICK g : PartialSums(w, Len(w), g) /\ SumOf(w) = g[Len(w)]
  BY SumOfIsPartialSum
<1>2. Len(w) \in Nat /\ \A j \in 1..Len(w) : w[j] \in Nat
  BY LenProperties, ElementOfSeq
<1>3. \A i \in 0..Len(w) : g[i] \in Nat /\ (i > 0 => g[i] = g[i - 1] + w[i])
  BY <1>1, <1>2, PartialSumsAreNumbers
<1>4. ASSUME NEW j \in 1..Len(w) PROVE w[j] <= g[Len(w)]
  <2> DEFINE T == {i \in j..Len(w) : ~ w[j] <= g[i]}
  <2> SUFFICES ASSUME T # {} PROVE FALSE
    BY <1>2
  <2>1. T \subseteq Nat
    BY <1>2
  <2>2. PICK m \in T : \A k \in T : m <= k
    BY <2>1, LeastNumber
  <2>3. m \in 1..Len(w) /\ m - 1 \in 0..Len(w) /\ w[j] \in Nat /\ w[m] \in Nat
    BY <1>2, <2>2
  <2>4. g[m] = g[m - 1] + w[m] /\ g[m - 1] \in Nat
    BY <1>2, <1>3, <2>3
  <2>5. CASE m = j
    BY <2>2, <2>3, <2>4, <2>5
  <2>6. CASE m # j
    <3>1. m - 1 \in j..Len(w) /\ m - 1 \notin T
      BY <1>2, <2>2, <2>6
    <3> QED BY <2>2, <2>3, <2>4, <3>1
  <2> QED BY <2>5, <2>6
<1> QED BY <1>1, <1>2, <1>3, <1>4

\* A sequence that begins with the head h and goes on like t.
LEMMA SumOfShift ==
  ASSUME NEW w \in Seq(Nat), NEW t \in Seq(Nat), Len(w) = Len(t) + 1,
         \A i \in 1..Len(t) : t[i] = w[i + 1]
  PROVE  SumOf(w) = w[1] + SumOf(t)
<1>1. PICK g : PartialSums(w, Len(w), g) /\ SumOf(w) = g[Len(w)]
  BY SumOfIsPartialSum
<1>2. PICK h : PartialSums(t, Len(t), h) /\ SumOf(t) = h[Len(t)]
  BY SumOfIsPartialSum
<1>3. /\ Len(w) \in Nat /\ Len(t) \in Nat
      /\ \A i \in 1..Len(w) : w[i] \in Nat
  BY LenProperties, ElementOfSeq
<1>4. \A i \in 0..Len(w) : g[i] \in Nat /\ (i > 0 => g[i] = g[i - 1] + w[i])
  BY <1>1, <1>3, PartialSumsAreNumbers
<1>5. \A i \in 0..Len(t) : h[i] \in Nat /\ (i > 0 => h[i] = h[i - 1] + t[i])
  BY <1>2, <1>3, PartialSumsAreNumbers
<1>6. g[0] = 0 /\ h[0] = 0
  BY <1>1, <1>2, <1>3 DEF PartialSums
<1> DEFINE T == {i \in 0..Len(t) : g[i + 1] # w[1] + h[i]}
<1>7. ASSUME T # {} PROVE FALSE
  <2>1. T \subseteq Nat
    BY <1>3
  <2>2. PICK m \in T : \A k \in T : m <= k
    BY <1>7, <2>1, LeastNumber
  <2>3. m \in 0..Len(t) /\ m + 1 \in 1..Len(w) /\ (m + 1) - 1 = m /\ w[1] \in Nat
    BY <1>3, <2>2
  <2>4. g[m + 1] = g[m] + w[m + 1] /\ g[m] \in Nat /\ w[m + 1] \in Nat
    BY <1>3, <1>4, <2>3
  <2>5. m # 0
    <3> SUFFICES ASSUME m = 0 PROVE FALSE
      OBVIOUS
    <3>1. g[1] = g[0] + w[1] /\ g[m + 1] = g[1]
      BY <2>4
    <3> QED BY <1>6, <2>2, <2>3, <3>1
  <2>6. /\ m - 1 \in 0..Len(t) /\ m - 1 \notin T /\ (m - 1) + 1 = m
        /\ h[m] = h[m - 1] + t[m] /\ h[m - 1] \in Nat /\ t[m] = w[m + 1]
    BY <1>3, <1>5, <2>2, <2>3, <2>5
  <2>7. g[m] = w[1] + h[m - 1]
    BY <2>6
  <2>8. g[m + 1] = w[1] + h[m]
    <3>1. \A a, b, c \in Nat : (a + b) + c = a + (b + c)
      OBVIOUS
    <3>2. g[m + 1] = (w[1] + h[m - 1]) + w[m + 1]
      BY <2>4, <2>7
    <3>3. h[m] = h[m - 1] + w[m + 1]
      BY <2>6
    <3>4. w[1] \in Nat /\ h[m - 1] \in Nat /\ w[m + 1] \in Nat
      BY <2>3, <2>4, <2>6
    <3> QED BY ONLY <3>1, <3>2, <3>3, <3>4
  <2> QED BY <2>2, <2>8
<1>8. Len(t) \in 0..Len(t) /\ Len(t) + 1 = Len(w)
  BY <1>3
<1> QED BY <1>1, <1>2, <1>7, <1>8

\* A sequence that goes on with one more number.
LEMMA SumOfExtended ==
  ASSUME NEW w \in Seq(Nat), NEW u \in Seq(Nat), Len(u) = Len(w) + 1,
         \A i \in 1..Len(w) : u[i] = w[i]
  PROVE  SumOf(u) = SumOf(w) + u[Len(u)]
<1>1. PICK g : PartialSums(w, Len(w), g) /\ SumOf(w) = g[Len(w)]
  BY SumOfIsPartialSum
<1>2. PICK h : PartialSums(u, Len(u), h) /\ SumOf(u) = h[Len(u)]
  BY SumOfIsPartialSum
<1>3. /\ Len(w) \in Nat /\ Len(u) \in Nat
      /\ \A i \in 1..Len(u) : u[i] \in Nat
      /\ Len(w) \in 0..Len(w) /\ Len(u) \in 0..Len(u)
  BY LenProperties, ElementOfSeq
<1>4. \A i \in 0..Len(w) : g[i] \in Nat /\ (i > 0 => g[i] = g[i - 1] + w[i])
  BY <1>1, <1>3, PartialSumsAreNumbers
<1>5. \A i \in 0..Len(u) : h[i] \in Nat /\ (i > 0 => h[i] = h[i - 1] + u[i])
  BY <1>2, <1>3, PartialSumsAreNumbers
<1>6. g[0] = 0 /\ h[0] = 0
  BY <1>1, <1>2, <1>3 DEF PartialSums
<1> DEFINE T == {i \in 0..Len(w) : h[i] # g[i]}
<1>7. ASSUME T # {} PROVE FALSE
  <2>1. T \subseteq Nat
    BY <1>3
  <2>2. PICK m \in T : \A k \in T : m <= k
    BY <1>7, <2>1, LeastNumber
  <2>3. m # 0
    BY <1>6, <2>2
  <2>4. /\ m \in 1..Len(w) /\ m - 1 \in 0..Len(w) /\ m - 1 \notin T
        /\ m \in 0..Len(u) /\ m > 0 /\ u[m] = w[m]
    BY <1>3, <2>2, <2>3
  <2>5. h[m] = h[m - 1] + u[m] /\ g[m] = g[m - 1] + w[m] /\ h[m - 1] = g[m - 1]
    BY <1>4, <1>5, <2>4
  <2> QED BY <2>2, <2>4, <2>5
<1>8. /\ Len(u) \in 0..Len(u) /\ Len(u) > 0 /\ Len(u) - 1 = Len(w)
      /\ Len(w) \in 0..Len(w)
  BY <1>3
<1>9. h[Len(u)] = h[Len(w)] + u[Len(u)] /\ h[Len(w)] = g[Len(w)]
  BY <1>5, <1>7, <1>8
<1> QED BY <1>1, <1>2, <1>9

-----------------------------------------------------------------------------
(* Position by position.                                                   *)

\* Where the elements are after one was appended.
LEMMA PositionsOfAppend ==
  ASSUME NEW S, NEW s \in Seq(S), NEW x \in S, NEW t, t = Append(s, x)
  PROVE  /\ DOMAIN t = DOMAIN s \cup {Len(s) + 1} /\ Len(s) + 1 \notin DOMAIN s
         /\ Len(s) + 1 \in Int /\ t[Len(s) + 1] = x
         /\ \A k \in DOMAIN s : k \in Int /\ k < Len(s) + 1 /\ t[k] = s[k] /\ s[k] \in Range(s)
<1>1. /\ Len(t) = Len(s) + 1 /\ Len(s) \in Nat
      /\ \A k \in 1..Len(s) : t[k] = s[k]
      /\ t[Len(s) + 1] = x
      /\ DOMAIN s = 1..Len(s) /\ DOMAIN t = 1..(Len(s) + 1)
  BY AppendProperties, LenProperties
<1>2. \A k \in DOMAIN s : s[k] \in Range(s)
  BY DEF Range
<1>3. \A k \in DOMAIN s : k \in Int /\ k < Len(s) + 1 /\ t[k] = s[k]
  BY <1>1
<1>4. DOMAIN t = DOMAIN s \cup {Len(s) + 1} /\ Len(s) + 1 \notin DOMAIN s /\ Len(s) + 1 \in Int
  BY <1>1
<1> QED BY <1>1, <1>2, <1>3, <1>4

\* Where they are after the first was taken.
LEMMA PositionsOfTail ==
  ASSUME NEW S, NEW s \in Seq(S), s # <<>>, NEW t, t = Tail(s)
  PROVE  /\ 1 \in DOMAIN s /\ s[1] = Head(s)
         /\ \A k \in DOMAIN s : k \in Int /\ ~ (k < 1)
         /\ \A k \in DOMAIN t :
              k \in Int /\ k + 1 \in DOMAIN s /\ 1 < k + 1 /\ t[k] = s[k + 1] /\ t[k] \in Range(s)
<1>1. /\ Head(s) = s[1]
      /\ Len(t) = Len(s) - 1 /\ Len(s) \in Nat \ {0}
      /\ DOMAIN s = 1..Len(s) /\ DOMAIN t = 1..(Len(s) - 1)
      /\ \A k \in 1..(Len(s) - 1) : t[k] = s[k + 1]
  BY HeadTailProperties, EmptySeq, LenProperties
<1>2. \A k \in DOMAIN s : k \in Int /\ ~ (k < 1) /\ s[k] \in Range(s)
  BY <1>1 DEF Range
<1>3. \A k \in DOMAIN t : k \in Int /\ k + 1 \in DOMAIN s /\ 1 < k + 1 /\ t[k] = s[k + 1]
  BY <1>1
<1>4. 1 \in DOMAIN s
  BY <1>1
<1> QED BY <1>1, <1>2, <1>3, <1>4

LEMMA PositionsBeforeTail ==
  ASSUME NEW S, NEW s \in Seq(S), s # <<>>, NEW t, t = Tail(s)
  PROVE  \A k \in DOMAIN s : k = 1 \/ (1 < k /\ k - 1 \in DOMAIN t /\ t[k - 1] = s[k])
<1>1. /\ Len(s) \in Nat \ {0} /\ DOMAIN s = 1..Len(s) /\ DOMAIN t = 1..(Len(s) - 1)
      /\ \A k \in 1..(Len(s) - 1) : t[k] = s[k + 1]
  BY HeadTailProperties, EmptySeq, LenProperties
<1> QED BY <1>1

-----------------------------------------------------------------------------
(* What the elements of a sequence weigh together.                         *)

Total(s, f) == SumOf([k \in DOMAIN s |-> f[s[k]]])

\* The weights are a sequence of numbers.
LEMMA TotalIsSum ==
  ASSUME NEW S, NEW f \in [S -> Nat], NEW s \in Seq(S)
  PROVE  \E w \in Seq(Nat) : /\ Len(w) = Len(s) /\ Total(s, f) = SumOf(w)
                             /\ \A k \in 1..Len(s) : w[k] = f[s[k]]
<1> DEFINE w == [k \in DOMAIN s |-> f[s[k]]]
<1>1. Len(s) \in Nat /\ DOMAIN s = 1..Len(s) /\ \A k \in 1..Len(s) : s[k] \in S
  BY LenProperties, ElementOfSeq
<1>2. w \in [1..Len(s) -> Nat]
  BY <1>1
<1>3. w \in Seq(Nat) /\ Len(w) = Len(s)
  BY <1>1, <1>2, SeqOfFunction
<1>4. \A k \in 1..Len(s) : w[k] = f[s[k]]
  BY <1>1
<1>5. Total(s, f) = SumOf(w)
  BY DEF Total
<1> HIDE DEF w
<1> QED BY <1>3, <1>4, <1>5

LEMMA TotalInSteps ==
  ASSUME NEW S, NEW f \in [S -> Nat], NEW s \in Seq(S)
  PROVE  /\ Total(s, f) \in Nat
         /\ \A k \in 1..Len(s) : f[s[k]] <= Total(s, f)
         /\ \A m \in S : Total(Append(s, m), f) = Total(s, f) + f[m]
         /\ s # <<>> => Total(s, f) = f[Head(s)] + Total(Tail(s), f)
<1>0. ASSUME NEW r \in Seq(S)
      PROVE  \E w \in Seq(Nat) : /\ Len(w) = Len(r) /\ Total(r, f) = SumOf(w)
                                 /\ \A k \in 1..Len(r) : w[k] = f[r[k]]
  BY ONLY f \in [S -> Nat], r \in Seq(S), TotalIsSum, Z3
<1>1. PICK w \in Seq(Nat) : /\ Len(w) = Len(s) /\ Total(s, f) = SumOf(w)
                            /\ \A k \in 1..Len(s) : w[k] = f[s[k]]
  BY TotalIsSum
<1>2. Total(s, f) \in Nat /\ \A k \in 1..Len(s) : f[s[k]] <= Total(s, f)
  BY <1>1, SumOfBounds
<1>3. ASSUME NEW m \in S PROVE Total(Append(s, m), f) = Total(s, f) + f[m]
  <2> DEFINE t == Append(s, m)
  <2>1. /\ t \in Seq(S) /\ Len(t) = Len(s) + 1 /\ t[Len(s) + 1] = m /\ Len(s) \in Nat
        /\ \A i \in 1..Len(s) : t[i] = s[i]
    BY AppendProperties, LenProperties
  <2> HIDE DEF t
  <2>2. PICK u \in Seq(Nat) : /\ Len(u) = Len(t) /\ Total(t, f) = SumOf(u)
                              /\ \A k \in 1..Len(t) : u[k] = f[t[k]]
    BY <1>0, <2>1
  <2>3. Len(u) = Len(w) + 1 /\ (\A i \in 1..Len(w) : u[i] = w[i]) /\ u[Len(u)] = f[m]
    BY <1>1, <2>1, <2>2
  <2>4. SumOf(u) = SumOf(w) + u[Len(u)]
    BY <2>3, SumOfExtended
  <2> QED BY <1>1, <2>2, <2>3, <2>4 DEF t
<1>4. ASSUME s # <<>> PROVE Total(s, f) = f[Head(s)] + Total(Tail(s), f)
  <2> DEFINE t == Tail(s)
  <2>1. /\ t \in Seq(S) /\ Len(s) = Len(t) + 1 /\ Head(s) = s[1] /\ Len(t) \in Nat
        /\ \A i \in 1..Len(t) : t[i] = s[i + 1]
    BY <1>4, HeadTailProperties, EmptySeq, LenProperties
  <2> HIDE DEF t
  <2>2. PICK u \in Seq(Nat) : /\ Len(u) = Len(t) /\ Total(t, f) = SumOf(u)
                              /\ \A k \in 1..Len(t) : u[k] = f[t[k]]
    BY <1>0, <2>1
  <2>3. Len(w) = Len(u) + 1 /\ (\A i \in 1..Len(u) : u[i] = w[i + 1]) /\ w[1] = f[Head(s)]
    BY <1>1, <2>1, <2>2
  <2>4. SumOf(w) = w[1] + SumOf(u)
    BY <2>3, SumOfShift
  <2> QED BY <1>1, <2>2, <2>3, <2>4 DEF t
<1> QED BY <1>2, <1>3, <1>4

LEMMA ConcatOfAppend ==
  ASSUME NEW S, NEW s \in Seq(S), NEW v \in Seq(S), NEW x \in S
  PROVE  s \o v \in Seq(S) /\ s \o Append(v, x) = Append(s \o v, x)
<1>1. s \o v \in Seq(S) /\ <<x>> \in Seq(S)
  BY ConcatProperties
<1>2. Append(v, x) = v \o <<x>> /\ Append(s \o v, x) = (s \o v) \o <<x>>
  BY <1>1, AppendIsConcat
<1>3. (s \o v) \o <<x>> = s \o (v \o <<x>>)
  BY ONLY <1>1, s \in Seq(S), v \in Seq(S), ConcatAssociative, SMTT(30)
<1> QED BY <1>2, <1>3

\* What weighs nothing can be appended.
LEMMA TotalOfConcat ==
  ASSUME NEW S, NEW f \in [S -> Nat], NEW s \in Seq(S), NEW t \in Seq(S),
         \A k \in 1..Len(t) : f[t[k]] = 0
  PROVE  Total(s \o t, f) = Total(s, f)
<1> DEFINE Bad(n) == \E u \in Seq(S) : /\ Len(u) = n /\ \A k \in 1..Len(u) : f[u[k]] = 0
                                       /\ Total(s \o u, f) # Total(s, f)
           T == {n \in Nat : Bad(n)}
<1>1. ASSUME T # {} PROVE FALSE
  <2>0. T \subseteq Nat
    OBVIOUS
  <2>1. PICK n \in T : \A m \in T : n <= m
    BY <1>1, <2>0, LeastNumber
  <2>2. PICK u \in Seq(S) : /\ Len(u) = n /\ \A k \in 1..Len(u) : f[u[k]] = 0
                            /\ Total(s \o u, f) # Total(s, f)
    BY <2>1
  <2>3. u # <<>>
    <3>1. s \o <<>> = s
      BY ConcatEmptySeq
    <3> QED BY <2>2, <3>1
  <2>4. PICK v \in Seq(S), x \in S : u = Append(v, x)
    BY <2>2, <2>3, SequenceEmptyOrAppend
  <2>5. /\ Len(u) = Len(v) + 1 /\ Len(v) \in Nat /\ u[Len(v) + 1] = x
        /\ \A k \in 1..Len(v) : u[k] = v[k]
    BY <2>4, AppendProperties, LenProperties
  <2>6. (\A k \in 1..Len(v) : f[v[k]] = 0) /\ f[x] = 0 /\ ~ (n <= Len(v))
    BY <2>2, <2>5
  <2>7. Total(s \o v, f) = Total(s, f)
    <3>1. ~ Bad(Len(v))
      <4> HIDE DEF Bad
      <4> QED BY <2>1, <2>5, <2>6
    <3> QED BY <2>6, <3>1
  <2>8. s \o v \in Seq(S) /\ s \o u = Append(s \o v, x)
    BY <2>4, ConcatOfAppend
  <2>9. Total(Append(s \o v, x), f) = Total(s \o v, f) + f[x] /\ Total(s \o v, f) \in Nat
    BY <2>8, TotalInSteps
  <2> QED BY <2>2, <2>6, <2>7, <2>8, <2>9
<1>2. Len(t) \in Nat
  BY LenProperties
<1>3. Len(t) \notin T
  BY <1>1
<1> QED BY <1>2, <1>3

-----------------------------------------------------------------------------
(* The elements of a sequence that belong to a set.                        *)

\* What the recursive definition says of the elements selected up to n.
Selects(s, T, n, g) ==
  g = [i \in 0..n |-> IF i = 0 THEN <<>>
                      ELSE IF s[i] \in T THEN Append(g[i - 1], s[i]) ELSE g[i - 1]]

LEMMA SelectionExists ==
  ASSUME NEW S, NEW s \in Seq(S), NEW T, NEW n \in 0..Len(s)
  PROVE  \E g : Selects(s, T, n, g)
<1> DEFINE N == {m \in 0..Len(s) : ~ \E g : Selects(s, T, m, g)}
<1>0. Len(s) \in Nat
  BY LenProperties
<1> SUFFICES ASSUME N # {} PROVE FALSE
  OBVIOUS
<1>1. N \subseteq Nat
  BY <1>0
<1>2. PICK m \in N : \A k \in N : m <= k
  BY <1>1, LeastNumber
<1>3. CASE m = 0
  <2> DEFINE g == [i \in 0..0 |-> <<>>]
  <2>1. Selects(s, T, 0, g)
    BY DEF Selects
  <2> QED BY <1>3, <2>1
<1>4. CASE m # 0
  <2>1. m \in 1..Len(s) /\ m - 1 \in 0..Len(s) /\ m - 1 \notin N
    BY <1>0, <1>2, <1>4
  <2>2. PICK g : Selects(s, T, m - 1, g)
    BY <2>1
  <2> DEFINE last == IF s[m] \in T THEN Append(g[m - 1], s[m]) ELSE g[m - 1]
             h == [i \in 0..m |-> IF i = m THEN last ELSE g[i]]
  <2>3. ASSUME NEW i \in 0..m
        PROVE  h[i] = IF i = 0 THEN <<>>
                      ELSE IF s[i] \in T THEN Append(h[i - 1], s[i]) ELSE h[i - 1]
    <3>1. i = m \/ i \in 0..(m - 1)
      BY <2>1
    <3>2. i # 0 => i - 1 \in 0..(m - 1) /\ i - 1 # m /\ i - 1 \in 0..m
      BY <2>1
    <3>3. \A j \in 0..(m - 1) : g[j] = IF j = 0 THEN <<>>
                                       ELSE IF s[j] \in T THEN Append(g[j - 1], s[j]) ELSE g[j - 1]
      BY <2>2 DEF Selects
    <3>4. i # 0 => h[i - 1] = g[i - 1]
      BY <3>2
    <3>5. CASE i = m
      BY <1>4, <3>4, <3>5
    <3>6. CASE i # m
      BY <3>1, <3>3, <3>4, <3>6
    <3> QED BY <3>5, <3>6
  <2>4. Selects(s, T, m, h)
    <3>1. h = [i \in 0..m |-> h[i]]
      OBVIOUS
    <3> HIDE DEF h
    <3> QED BY <2>3, <3>1 DEF Selects
  <2> QED BY <2>4
<1> QED BY <1>3, <1>4

LEMMA OnlyIsSelection ==
  ASSUME NEW S, NEW s \in Seq(S), NEW T
  PROVE  \E g : Selects(s, T, Len(s), g) /\ Only(s, T) = g[Len(s)]
<1>1. Len(s) \in 0..Len(s)
  BY LenProperties
<1> DEFINE g == CHOOSE f : f = [i \in 0..Len(s) |->
                  IF i = 0 THEN <<>>
                  ELSE IF s[i] \in T THEN Append(f[i - 1], s[i]) ELSE f[i - 1]]
<1>2. \E f : Selects(s, T, Len(s), f)
  BY <1>1, SelectionExists
<1>3. Selects(s, T, Len(s), g)
  BY <1>2 DEF Selects
<1>4. Only(s, T) = g[Len(s)]
  BY DEF Only
<1> HIDE DEF g
<1> QED BY <1>3, <1>4

\* Selecting element by element.
LEMMA OnlyOfEmpty == ASSUME NEW T PROVE Only(<<>>, T) = <<>>
<1>1. <<>> \in Seq({}) /\ Len(<<>>) = 0
  BY EmptySeq
<1>2. PICK g : Selects(<<>>, T, 0, g) /\ Only(<<>>, T) = g[0]
  BY <1>1, OnlyIsSelection
<1> QED BY <1>2 DEF Selects

LEMMA OnlyOfAppend ==
  ASSUME NEW S, NEW s \in Seq(S), NEW x \in S, NEW T
  PROVE  Only(Append(s, x), T) = IF x \in T THEN Append(Only(s, T), x) ELSE Only(s, T)
<1> DEFINE t == Append(s, x)
<1>1. /\ t \in Seq(S) /\ Len(t) = Len(s) + 1 /\ Len(s) \in Nat
      /\ \A i \in 1..Len(s) : t[i] = s[i]
      /\ t[Len(s) + 1] = x
  BY AppendProperties, LenProperties
<1> HIDE DEF t
<1>2. PICK g : Selects(s, T, Len(s), g) /\ Only(s, T) = g[Len(s)]
  BY OnlyIsSelection
<1>3. PICK h : Selects(t, T, Len(t), h) /\ Only(t, T) = h[Len(t)]
  BY <1>1, OnlyIsSelection
<1>4. \A i \in 0..Len(s) : g[i] = IF i = 0 THEN <<>>
        ELSE IF s[i] \in T THEN Append(g[i - 1], s[i]) ELSE g[i - 1]
  BY <1>2 DEF Selects
<1>5. \A i \in 0..Len(t) : h[i] = IF i = 0 THEN <<>>
        ELSE IF t[i] \in T THEN Append(h[i - 1], t[i]) ELSE h[i - 1]
  BY <1>3 DEF Selects
<1> DEFINE N == {i \in 0..Len(s) : h[i] # g[i]}
<1>6. ASSUME N # {} PROVE FALSE
  <2>1. N \subseteq Nat
    BY <1>1
  <2>2. PICK m \in N : \A k \in N : m <= k
    BY <1>6, <2>1, LeastNumber
  <2>3. m # 0
    BY <1>1, <1>4, <1>5, <2>2
  <2>4. m \in 1..Len(s) /\ m \in 0..Len(t) /\ m - 1 \in 0..Len(s) /\ m - 1 \notin N /\ t[m] = s[m]
    BY <1>1, <2>2, <2>3
  <2>5. h[m - 1] = g[m - 1]
    BY <2>4
  <2> QED BY <1>4, <1>5, <2>2, <2>3, <2>4, <2>5
<1>7. Len(s) \in 0..Len(s) /\ Len(t) \in 0..Len(t) /\ Len(t) # 0 /\ Len(t) - 1 = Len(s)
  BY <1>1
<1>8. h[Len(s)] = g[Len(s)]
  BY <1>6, <1>7
<1>9. h[Len(t)] = IF x \in T THEN Append(h[Len(s)], x) ELSE h[Len(s)]
  BY <1>1, <1>5, <1>7
<1> QED BY <1>2, <1>3, <1>8, <1>9 DEF t

\* What is selected is what of the elements belongs to the set.
LEMMA RangeOfOnly ==
  ASSUME NEW S, NEW s \in Seq(S), NEW T
  PROVE  /\ Only(s, T) \in Seq(S)
         /\ Range(Only(s, T)) = Range(s) \cap T
         /\ IsInjective(s) => IsInjective(Only(s, T))
<1> DEFINE Good(u) == /\ Only(u, T) \in Seq(S)
                      /\ Range(Only(u, T)) = Range(u) \cap T
                      /\ IsInjective(u) => IsInjective(Only(u, T))
           N == {n \in Nat : \E u \in Seq(S) : Len(u) = n /\ ~ Good(u)}
<1>1. ASSUME N # {} PROVE FALSE
  <2>0. N \subseteq Nat
    OBVIOUS
  <2>1. PICK n \in N : \A m \in N : n <= m
    BY <1>1, <2>0, LeastNumber
  <2>2. PICK u \in Seq(S) : Len(u) = n /\ ~ Good(u)
    BY <2>1
  <2>3. u # <<>>
    <3>1. <<>> \in Seq(S)
      BY EmptySeq
    <3>2. Good(<<>>)
      BY <3>1, OnlyOfEmpty, RangeOfEmpty
    <3> QED BY <2>2, <3>2
  <2>4. PICK v \in Seq(S), x \in S : u = Append(v, x)
    BY <2>2, <2>3, SequenceEmptyOrAppend
  <2>5. Len(u) = Len(v) + 1 /\ Len(v) \in Nat
    BY <2>4, AppendProperties, LenProperties
  <2>6. Good(v)
    <3>1. Len(v) \notin N
      <4> HIDE DEF Good
      <4> QED BY <2>1, <2>2, <2>5
    <3> HIDE DEF Good
    <3> QED BY <2>5, <3>1
  <2>7. Only(u, T) = IF x \in T THEN Append(Only(v, T), x) ELSE Only(v, T)
    BY <2>4, OnlyOfAppend
  <2>8. /\ Range(u) = Range(v) \cup {x}
        /\ IsInjective(u) => IsInjective(v) /\ x \notin Range(v)
    <3>1. Range(u) = Range(v) \cup {x}
      BY <2>4, RangeOfAppend
    <3>2. ASSUME IsInjective(u) PROVE IsInjective(v) /\ x \notin Range(v)
      <4>1. /\ DOMAIN u = DOMAIN v \cup {Len(v) + 1} /\ Len(v) + 1 \notin DOMAIN v
            /\ u[Len(v) + 1] = x /\ \A k \in DOMAIN v : u[k] = v[k]
        BY <2>4, PositionsOfAppend
      <4> QED BY <3>2, <4>1 DEF IsInjective, Range
    <3> QED BY <3>1, <3>2
  <2>9. CASE x \in T
    <3>1. /\ Only(u, T) \in Seq(S)
          /\ Range(Only(u, T)) = Range(Only(v, T)) \cup {x}
          /\ IsInjective(Only(v, T)) /\ x \notin Range(Only(v, T)) => IsInjective(Only(u, T))
      BY <2>6, <2>7, <2>9, RangeOfAppend
    <3> QED BY <2>2, <2>6, <2>8, <2>9, <3>1
  <2>10. CASE x \notin T
    BY <2>2, <2>6, <2>7, <2>8, <2>10
  <2> QED BY <2>9, <2>10
<1>2. Len(s) \in Nat
  BY LenProperties
<1>3. Len(s) \notin N
  BY <1>1
<1>4. Good(s)
  <2> HIDE DEF Good
  <2> QED BY <1>2, <1>3
<1> QED BY <1>4

\* Sets that agree on the elements select the same.
LEMMA OnlySame ==
  ASSUME NEW S, NEW s \in Seq(S), NEW T, NEW U, \A x \in Range(s) : x \in T <=> x \in U
  PROVE  Only(s, T) = Only(s, U)
<1> DEFINE Same(u) == (\A x \in Range(u) : x \in T <=> x \in U) => Only(u, T) = Only(u, U)
           N == {n \in Nat : \E u \in Seq(S) : Len(u) = n /\ ~ Same(u)}
<1>1. ASSUME N # {} PROVE FALSE
  <2>0. N \subseteq Nat
    OBVIOUS
  <2>1. PICK n \in N : \A m \in N : n <= m
    BY <1>1, <2>0, LeastNumber
  <2>2. PICK u \in Seq(S) : Len(u) = n /\ ~ Same(u)
    BY <2>1
  <2>3. u # <<>>
    BY <2>2, OnlyOfEmpty
  <2>4. PICK v \in Seq(S), x \in S : u = Append(v, x)
    BY <2>2, <2>3, SequenceEmptyOrAppend
  <2>5. Len(u) = Len(v) + 1 /\ Len(v) \in Nat
    BY <2>4, AppendProperties, LenProperties
  <2>6. Same(v)
    <3>1. Len(v) \notin N
      <4> HIDE DEF Same
      <4> QED BY <2>1, <2>2, <2>5
    <3> HIDE DEF Same
    <3> QED BY <2>5, <3>1
  <2>7. /\ Only(u, T) = IF x \in T THEN Append(Only(v, T), x) ELSE Only(v, T)
        /\ Only(u, U) = IF x \in U THEN Append(Only(v, U), x) ELSE Only(v, U)
    BY <2>4, OnlyOfAppend
  <2>8. Range(u) = Range(v) \cup {x}
    BY <2>4, RangeOfAppend
  <2> QED BY <2>2, <2>6, <2>7, <2>8
<1>2. Len(s) \in Nat
  BY LenProperties
<1>3. Len(s) \notin N
  BY <1>1
<1>4. Same(s)
  <2> HIDE DEF Same
  <2> QED BY <1>2, <1>3
<1> QED BY <1>4

\* Nothing is selected when no element belongs to the set, and everything when
\* all do.
LEMMA OnlyNothing ==
  ASSUME NEW S, NEW s \in Seq(S), NEW T, Range(s) \cap T = {}
  PROVE  Only(s, T) = <<>>
<1>1. Only(s, T) \in Seq(S) /\ Range(Only(s, T)) = {}
  BY RangeOfOnly
<1>2. ASSUME NEW u \in Seq(S), Range(u) = {} PROVE u = <<>>
  <2>1. ASSUME u # <<>> PROVE FALSE
    <3>1. Range(u) = Range(Tail(u)) \cup {Head(u)}
      BY <2>1, RangeOfTail
    <3> QED BY <1>2, <3>1
  <2> QED BY <2>1
<1> QED BY <1>1, <1>2
=============================================================================
