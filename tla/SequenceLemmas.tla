--------------------------- MODULE SequenceLemmas ---------------------------
(***************************************************************************)
(* What the proofs of several components need of sequences: induction over *)
(* the natural numbers as a statement about sets, the concatenation of a   *)
(* sequence of sequences (FlattenSeq), item by item, and Select.           *)
(***************************************************************************)
EXTENDS SequencesExt, Selection, Integers, NaturalsInduction, WellFoundedInduction, SequenceTheorems, TLAPS

\* A set of natural numbers has a least element.
LEMMA LeastNatural ==
    ASSUME NEW T, T \subseteq Nat, T # {}
    PROVE  \E x \in T : \A y \in T : x <= y
  <1>1. PICK x \in T : \A y \in T : ~ (<<y, x>> \in OpToRel(<, Nat))
    BY NatLessThanWellFounded, WFMin
  <1>2. \A y \in T : ~ (y < x)
    BY <1>1 DEF OpToRel
  <1> QED
    BY <1>2

\* Induction: a set that has 0, and n + 1 with every n, has every natural
\* number.
LEMMA Induction ==
    ASSUME NEW T, 0 \in T, \A n \in Nat : n \in T => n + 1 \in T
    PROVE  \A n \in Nat : n \in T
  <1> SUFFICES ASSUME NEW k \in Nat, k \notin T PROVE FALSE
    OBVIOUS
  <1>1. PICK m \in Nat \ T : \A n \in Nat \ T : m <= n
    BY LeastNatural
  <1>2. m - 1 \in Nat /\ m - 1 \in T
    BY <1>1
  <1> QED
    BY <1>1, <1>2

\* f is defined by recursion over the natural numbers: f[0] is given, and
\* f[i + 1] is got from i + 1 and f[i].
IsRecursion(f, S, base, step) ==
    f \in [Nat -> S] /\ f[0] = base /\ \A i \in Nat : f[i + 1] = step[i + 1][f[i]]

\* There is such a function.
LEMMA RecursionExists ==
    ASSUME NEW S, NEW base \in S, NEW step \in [Nat -> [S -> S]]
    PROVE  \E f : IsRecursion(f, S, base, step)
  <1> DEFINE Upto(f, k) == /\ f \in [0 .. k -> S] /\ f[0] = base
                           /\ \A i \in Nat : i + 1 <= k => f[i + 1] = step[i + 1][f[i]]
  <1>1. \A k \in Nat : \E f : Upto(f, k)
    <2> DEFINE T == {k \in Nat : \E f : Upto(f, k)}
    <2>1. 0 \in T
      <3>1. Upto([i \in 0 .. 0 |-> base], 0)
        OBVIOUS
      <3> QED
        BY <3>1
    <2>2. ASSUME NEW k \in Nat, k \in T PROVE k + 1 \in T
      <3>1. PICK f : Upto(f, k)
        BY <2>2
      <3> DEFINE g == [i \in 0 .. k + 1 |-> IF i <= k THEN f[i] ELSE step[k + 1][f[k]]]
      <3>2. \A i \in 0 .. k : f[i] \in S
        BY <3>1
      <3>3. k + 1 \in Nat /\ f[k] \in S
        BY <3>2
      <3>4. step[k + 1][f[k]] \in S
        BY <3>3
      <3>5. g \in [0 .. k + 1 -> S] /\ g[0] = base
        BY <3>1, <3>2, <3>4
      <3>6. ASSUME NEW i \in Nat, i + 1 <= k + 1 PROVE g[i + 1] = step[i + 1][g[i]]
        <4>1. CASE i = k
          <5>1. ~ (i + 1 <= k) /\ i <= k /\ i + 1 \in 0 .. k + 1 /\ i \in 0 .. k + 1
            BY <4>1
          <5>2. g[i + 1] = step[k + 1][f[k]] /\ g[i] = f[i]
            BY <5>1
          <5> QED
            BY <4>1, <5>2
        <4>2. CASE i # k
          <5>1. i + 1 <= k /\ i <= k /\ i + 1 \in 0 .. k + 1 /\ i \in 0 .. k + 1
            BY <3>6, <4>2
          <5>2. g[i + 1] = f[i + 1] /\ g[i] = f[i]
            BY <5>1
          <5> QED
            BY <3>1, <5>1, <5>2
        <4> QED
          BY <4>1, <4>2
      <3> HIDE DEF g
      <3> QED
        BY <3>5, <3>6
    <2> HIDE DEF T
    <2>3. \A k \in Nat : k \in T
      BY <2>1, <2>2, Induction
    <2> QED
      BY <2>3 DEF T
  <1>2. ASSUME NEW f, NEW k \in Nat, Upto(f, k), NEW g, NEW m \in Nat, Upto(g, m), k <= m
        PROVE  \A i \in 0 .. k : f[i] = g[i]
    <2> DEFINE T == {i \in Nat : i <= k => f[i] = g[i]}
    <2>1. 0 \in T
      BY <1>2
    <2>2. ASSUME NEW i \in Nat, i \in T PROVE i + 1 \in T
      <3>1. CASE i + 1 <= k
        <4>1. f[i] = g[i]
          BY <2>2, <3>1
        <4>2. f[i + 1] = step[i + 1][f[i]] /\ g[i + 1] = step[i + 1][g[i]]
          BY <1>2, <3>1
        <4> QED
          BY <4>1, <4>2
      <3> QED
        BY <3>1
    <2> HIDE DEF T
    <2>3. \A i \in Nat : i \in T
      BY <2>1, <2>2, Induction
    <2> QED
      BY <2>3 DEF T
  <1> DEFINE F == [k \in Nat |-> CHOOSE f : Upto(f, k)]
             h == [k \in Nat |-> F[k][k]]
  <1>3. \A k \in Nat : Upto(F[k], k)
    <2> HIDE DEF Upto
    <2> QED
      BY <1>1
  <1>4. \A k \in Nat : h[k] = F[k][k]
    OBVIOUS
  <1>5. \A k \in Nat : h[k] \in S
    <2> SUFFICES ASSUME NEW k \in Nat PROVE h[k] \in S
      OBVIOUS
    <2>1. F[k] \in [0 .. k -> S]
      <3> HIDE DEF F
      <3> QED
        BY <1>3
    <2>2. k \in 0 .. k
      OBVIOUS
    <2> HIDE DEF F
    <2> QED
      BY <2>1, <2>2, <1>4
  <1>6. h \in [Nat -> S]
    <2> HIDE DEF F
    <2> QED
      BY <1>5
  <1>7. h[0] = base
    <2>1. F[0][0] = base
      BY <1>3
    <2> HIDE DEF F, h
    <2> QED
      BY <2>1, <1>4
  <1>8. ASSUME NEW i \in Nat PROVE h[i + 1] = step[i + 1][h[i]]
    <2>0. i + 1 \in Nat /\ i <= i + 1 /\ i \in 0 .. i /\ i + 1 <= i + 1
      OBVIOUS
    <2>1. Upto(F[i], i) /\ Upto(F[i + 1], i + 1)
      <3> HIDE DEF F, Upto
      <3> QED
        BY <1>3, <2>0
    <2>2. F[i][i] = F[i + 1][i]
      <3> HIDE DEF F, Upto
      <3> QED
        BY <2>0, <2>1, <1>2
    <2>3. F[i + 1][i + 1] = step[i + 1][F[i + 1][i]]
      <3> HIDE DEF F
      <3> QED
        BY <2>0, <2>1
    <2>4. h[i] = F[i][i] /\ h[i + 1] = F[i + 1][i + 1]
      BY <1>4, <2>0
    <2> HIDE DEF F, h
    <2> QED
      BY <2>2, <2>3, <2>4
  <1> HIDE DEF h
  <1> QED
    BY <1>6, <1>7, <1>8 DEF IsRecursion

\* The m items after the first o ones.
LEMMA SliceFacts ==
    ASSUME NEW S, NEW s \in Seq(S), NEW o \in Nat, NEW m \in Nat, o + m <= Len(s)
    PROVE  /\ SubSeq(s, o + 1, o + m) \in Seq(S)
           /\ Len(SubSeq(s, o + 1, o + m)) = m
           /\ \A j \in 1 .. m : SubSeq(s, o + 1, o + m)[j] = s[o + j]
  <1>1. o + 1 \in Int /\ o + m \in Int /\ Len(s) \in Nat
    OBVIOUS
  <1>2. \A k \in o + 1 .. o + m : s[k] \in S
    <2> SUFFICES ASSUME NEW k \in o + 1 .. o + m PROVE s[k] \in S
      OBVIOUS
    <2>1. k \in 1 .. Len(s)
      BY <1>1
    <2> QED
      BY <2>1
  <1>3. /\ SubSeq(s, o + 1, o + m) \in Seq(S)
        /\ Len(SubSeq(s, o + 1, o + m)) = IF o + 1 <= o + m THEN (o + m) - (o + 1) + 1 ELSE 0
        /\ \A j \in 1 .. (o + m) - (o + 1) + 1 : SubSeq(s, o + 1, o + m)[j] = s[(o + 1) + j - 1]
    BY <1>1, <1>2, SubSeqProperties
  <1>4. (o + m) - (o + 1) + 1 = m /\ (o + 1 <= o + m <=> m # 0)
    OBVIOUS
  <1>5. \A j \in 1 .. m : (o + 1) + j - 1 = o + j
    OBVIOUS
  <1> QED
    BY <1>3, <1>4, <1>5

\* The items of a concatenation, in two parts.
LEMMA ConcatFacts ==
    ASSUME NEW S, NEW s \in Seq(S), NEW r \in Seq(S)
    PROVE  /\ s \o r \in Seq(S) /\ Len(s \o r) = Len(s) + Len(r)
           /\ \A j \in 1 .. Len(s) : (s \o r)[j] = s[j]
           /\ \A j \in 1 .. Len(r) : (s \o r)[Len(s) + j] = r[j]
  <1>1. /\ s \o r \in Seq(S) /\ Len(s \o r) = Len(s) + Len(r)
        /\ \A j \in 1 .. Len(s) + Len(r) : (s \o r)[j] = IF j <= Len(s) THEN s[j] ELSE r[j - Len(s)]
    BY ConcatProperties
  <1>2. Len(s) \in Nat /\ Len(r) \in Nat
    OBVIOUS
  <1>3. \A j \in 1 .. Len(r) : /\ Len(s) + j \in 1 .. Len(s) + Len(r)
                               /\ ~ (Len(s) + j <= Len(s)) /\ (Len(s) + j) - Len(s) = j
    BY <1>2
  <1>4. \A j \in 1 .. Len(s) : j \in 1 .. Len(s) + Len(r) /\ j <= Len(s)
    BY <1>2
  <1> QED
    BY <1>1, <1>3, <1>4

\* f[i] is the concatenation of the first i items of ss, for the i up to n.
IsFlattening(f, ss, n) ==
    f = [i \in 1 .. n |-> IF i = 1 THEN ss[i] ELSE f[i - 1] \o ss[i]]

\* There is such a function.
LEMMA FlatteningExists ==
    ASSUME NEW ss, NEW n \in Nat
    PROVE  \E f : IsFlattening(f, ss, n)
  <1> DEFINE T == {k \in Nat : \E f : IsFlattening(f, ss, k)}
  <1>1. 0 \in T
    <2>1. IsFlattening([i \in 1 .. 0 |-> 0], ss, 0)
      BY DEF IsFlattening
    <2> QED
      BY <2>1
  <1>2. ASSUME NEW k \in Nat, k \in T PROVE k + 1 \in T
    <2>1. PICK f : IsFlattening(f, ss, k)
      BY <1>2
    <2> DEFINE g == [i \in 1 .. k + 1 |-> IF i = 1 THEN ss[i] ELSE f[i - 1] \o ss[i]]
    <2>2. \A i \in 1 .. k : f[i] = IF i = 1 THEN ss[i] ELSE f[i - 1] \o ss[i]
      <3> DEFINE h == [i \in 1 .. k |-> IF i = 1 THEN ss[i] ELSE f[i - 1] \o ss[i]]
      <3>1. f = h
        BY <2>1 DEF IsFlattening
      <3>2. \A i \in 1 .. k : h[i] = IF i = 1 THEN ss[i] ELSE f[i - 1] \o ss[i]
        OBVIOUS
      <3> HIDE DEF h
      <3> QED
        BY <3>1, <3>2
    <2>3. \A i \in 1 .. k + 1 : g[i] = IF i = 1 THEN ss[i] ELSE f[i - 1] \o ss[i]
      OBVIOUS
    <2>4. g = [i \in 1 .. k + 1 |-> IF i = 1 THEN ss[i] ELSE g[i - 1] \o ss[i]]
      <3> HIDE DEF g
      <3>1. \A i \in 1 .. k + 1 : i # 1 => i - 1 \in 1 .. k /\ i - 1 \in 1 .. k + 1
        OBVIOUS
      <3>2. \A i \in 1 .. k : i \in 1 .. k + 1
        OBVIOUS
      <3>3. \A i \in 1 .. k : g[i] = f[i]
        BY <2>2, <2>3, <3>2
      <3>4. \A i \in 1 .. k + 1 : i # 1 => g[i - 1] = f[i - 1]
        BY <3>1, <3>3
      <3> QED
        BY <3>4 DEF g
    <2>5. IsFlattening(g, ss, k + 1)
      BY <2>4 DEF IsFlattening
    <2> QED
      BY <2>5
  <1> HIDE DEF T
  <1>3. n \in T
    BY <1>1, <1>2, Induction
  <1> QED
    BY <1>3 DEF T

\* FlattenSeq takes the last value of one.
LEMMA FlattenSeqDef ==
    ASSUME NEW ss, Len(ss) \in Nat \ {0}
    PROVE  \E f : IsFlattening(f, ss, Len(ss)) /\ FlattenSeq(ss) = f[Len(ss)]
  <1> DEFINE f == CHOOSE f : IsFlattening(f, ss, Len(ss))
  <1>1. IsFlattening(f, ss, Len(ss))
    BY FlatteningExists
  <1>2. FlattenSeq(ss) = f[Len(ss)]
    BY DEF FlattenSeq, IsFlattening
  <1> QED
    BY <1>1, <1>2

\* An item of a flattening, one by one.
LEMMA FlatteningItem ==
    ASSUME NEW f, NEW ss, NEW n \in Nat, IsFlattening(f, ss, n), NEW i \in 1 .. n
    PROVE  f[i] = IF i = 1 THEN ss[i] ELSE f[i - 1] \o ss[i]
  <1> DEFINE h == [j \in 1 .. n |-> IF j = 1 THEN ss[j] ELSE f[j - 1] \o ss[j]]
  <1>1. f = h
    BY DEF IsFlattening
  <1>2. h[i] = IF i = 1 THEN ss[i] ELSE f[i - 1] \o ss[i]
    OBVIOUS
  <1> HIDE DEF h
  <1> QED
    BY <1>1, <1>2

\* Flattenings of sequences that begin alike begin alike.
LEMMA FlatteningUnique ==
    ASSUME NEW f, NEW ss, NEW n \in Nat, IsFlattening(f, ss, n),
           NEW g, NEW tt, NEW m \in Nat, IsFlattening(g, tt, m), n <= m,
           \A i \in 1 .. n : ss[i] = tt[i]
    PROVE  \A i \in 1 .. n : f[i] = g[i]
  <1> DEFINE T == {k \in Nat : \A i \in 1 .. n : i <= k => f[i] = g[i]}
  <1>1. 0 \in T
    OBVIOUS
  <1>2. ASSUME NEW k \in Nat, k \in T PROVE k + 1 \in T
    <2> SUFFICES ASSUME k + 1 \in 1 .. n PROVE f[k + 1] = g[k + 1]
      BY <1>2
    <2>1. f[k + 1] = IF k + 1 = 1 THEN ss[k + 1] ELSE f[k + 1 - 1] \o ss[k + 1]
      BY FlatteningItem
    <2>2. g[k + 1] = IF k + 1 = 1 THEN tt[k + 1] ELSE g[k + 1 - 1] \o tt[k + 1]
      BY FlatteningItem
    <2>3. k # 0 => f[k] = g[k]
      BY <1>2
    <2> QED
      BY <2>1, <2>2, <2>3
  <1> HIDE DEF T
  <1>3. n \in T
    BY <1>1, <1>2, Induction
  <1> QED
    BY <1>3 DEF T

\* No sequences, no items.
LEMMA FlattenEmpty == FlattenSeq(<<>>) = <<>>
  BY DEF FlattenSeq

\* The flattening of sequences over S is a sequence over S.
LEMMA FlattenType ==
    ASSUME NEW S, NEW ss \in Seq(Seq(S))
    PROVE  FlattenSeq(ss) \in Seq(S)
  <1>1. CASE Len(ss) = 0
    <2>1. ss = <<>>
      BY <1>1
    <2>2. FlattenSeq(ss) = <<>>
      BY <2>1, FlattenEmpty
    <2> QED
      BY <2>2
  <1>2. CASE Len(ss) # 0
    <2>1. Len(ss) \in Nat \ {0}
      BY <1>2
    <2>2. PICK f : IsFlattening(f, ss, Len(ss)) /\ FlattenSeq(ss) = f[Len(ss)]
      BY <2>1, FlattenSeqDef
    <2> DEFINE T == {k \in Nat : k \in 1 .. Len(ss) => f[k] \in Seq(S)}
    <2>3. 0 \in T
      OBVIOUS
    <2>4. ASSUME NEW k \in Nat, k \in T PROVE k + 1 \in T
      <3> SUFFICES ASSUME k + 1 \in 1 .. Len(ss) PROVE f[k + 1] \in Seq(S)
        OBVIOUS
      <3>1. f[k + 1] = IF k + 1 = 1 THEN ss[k + 1] ELSE f[k + 1 - 1] \o ss[k + 1]
        BY <2>1, <2>2, FlatteningItem
      <3>2. ss[k + 1] \in Seq(S)
        OBVIOUS
      <3>3. k # 0 => f[k] \in Seq(S)
        BY <2>4
      <3> QED
        BY <3>1, <3>2, <3>3
    <2> HIDE DEF T
    <2>5. Len(ss) \in T
      BY <2>1, <2>3, <2>4, Induction
    <2> QED
      BY <2>1, <2>2, <2>5 DEF T
  <1> QED
    BY <1>1, <1>2

\* One more sequence: its items come last.
LEMMA FlattenAppend ==
    ASSUME NEW S, NEW ss \in Seq(Seq(S)), NEW x \in Seq(S)
    PROVE  FlattenSeq(Append(ss, x)) = FlattenSeq(ss) \o x
  <1> DEFINE tt == Append(ss, x)
             n == Len(ss)
  <1>0. n \in Nat /\ tt \in Seq(Seq(S)) /\ Len(tt) = n + 1 /\ tt[n + 1] = x
        /\ \A i \in 1 .. n : ss[i] = tt[i]
    OBVIOUS
  <1> HIDE DEF tt, n
  <1>a. n + 1 \in Nat /\ n + 1 \in 1 .. n + 1 /\ n <= n + 1 /\ n + 1 - 1 = n
    BY <1>0
  <1>1. PICK g : IsFlattening(g, tt, n + 1) /\ FlattenSeq(tt) = g[n + 1]
    <2>1. Len(tt) \in Nat \ {0}
      BY <1>0
    <2> QED
      BY <1>0, <2>1, FlattenSeqDef
  <1>2. g[n + 1] = IF n + 1 = 1 THEN x ELSE g[n] \o x
    <2>1. g[n + 1] = IF n + 1 = 1 THEN tt[n + 1] ELSE g[n + 1 - 1] \o tt[n + 1]
      BY <1>0, <1>a, <1>1, FlatteningItem
    <2> QED
      BY <1>0, <1>a, <2>1
  <1>3. CASE n = 0
    <2>1. ss = <<>>
      BY <1>3 DEF n
    <2>2. FlattenSeq(ss) = <<>>
      BY <2>1, FlattenEmpty
    <2>3. <<>> \o x = x
      OBVIOUS
    <2> QED
      BY <1>1, <1>2, <1>3, <2>2, <2>3 DEF tt
  <1>4. CASE n # 0
    <2>1. PICK f : IsFlattening(f, ss, n) /\ FlattenSeq(ss) = f[n]
      BY <1>0, <1>4, FlattenSeqDef DEF n
    <2>2. \A i \in 1 .. n : f[i] = g[i]
      BY <1>0, <1>a, <1>1, <2>1, FlatteningUnique
    <2>3. f[n] = g[n]
      BY <1>0, <1>4, <2>2
    <2> QED
      BY <1>0, <1>1, <1>2, <1>4, <2>1, <2>3 DEF tt
  <1> QED
    BY <1>3, <1>4

\* The items of a concatenation are those of its parts.
LEMMA ConcatRange ==
    ASSUME NEW S, NEW s \in Seq(S), NEW r \in Seq(S)
    PROVE  Range(s \o r) = Range(s) \cup Range(r)
  <1>1. \A i \in 1 .. Len(s) : (s \o r)[i] = s[i]
    OBVIOUS
  <1>2. \A i \in 1 .. Len(r) : (s \o r)[Len(s) + i] = r[i]
    OBVIOUS
  <1>3. Len(s \o r) = Len(s) + Len(r) /\ DOMAIN (s \o r) = 1 .. Len(s) + Len(r)
    OBVIOUS
  <1>4. ASSUME NEW v \in Range(s \o r) PROVE v \in Range(s) \cup Range(r)
    <2>1. PICK i \in 1 .. Len(s) + Len(r) : v = (s \o r)[i]
      BY <1>3 DEF Range
    <2>2. CASE i <= Len(s)
      BY <1>1, <2>1, <2>2 DEF Range
    <2>3. CASE i > Len(s)
      <3>1. i - Len(s) \in 1 .. Len(r) /\ i = Len(s) + (i - Len(s))
        BY <2>3
      <3>2. v = r[i - Len(s)]
        BY <1>2, <2>1, <3>1
      <3> QED
        BY <3>1, <3>2 DEF Range
    <2> QED
      BY <2>2, <2>3
  <1>5. ASSUME NEW v \in Range(s) PROVE v \in Range(s \o r)
    <2>1. PICK i \in 1 .. Len(s) : v = s[i]
      BY DEF Range
    <2>2. i \in 1 .. Len(s) + Len(r)
      OBVIOUS
    <2> QED
      BY <1>1, <1>3, <2>1, <2>2 DEF Range
  <1>6. ASSUME NEW v \in Range(r) PROVE v \in Range(s \o r)
    <2>1. PICK i \in 1 .. Len(r) : v = r[i]
      BY DEF Range
    <2>2. Len(s) + i \in 1 .. Len(s) + Len(r)
      OBVIOUS
    <2> QED
      BY <1>2, <1>3, <2>1, <2>2 DEF Range
  <1> QED
    BY <1>4, <1>5, <1>6

-----------------------------------------------------------------------------
(* Sequences cut and built at their ends.                                  *)

\* A prefix, one item longer.
LEMMA PrefixStep ==
    ASSUME NEW T, NEW s \in Seq(T), NEW k \in Nat, k < Len(s)
    PROVE  /\ SubSeq(s, 1, k) \in Seq(T) /\ s[k + 1] \in T
           /\ SubSeq(s, 1, k + 1) = Append(SubSeq(s, 1, k), s[k + 1])
  <1>1. Len(s) \in Nat /\ k + 1 \in 1 .. Len(s)
    OBVIOUS
  <1>2. SubSeq(s, 1, k) \in Seq(T) /\ Len(SubSeq(s, 1, k)) = k /\ \A j \in 1 .. k : SubSeq(s, 1, k)[j] = s[j]
    BY <1>1
  <1>3. /\ SubSeq(s, 1, k + 1) \in Seq(T) /\ Len(SubSeq(s, 1, k + 1)) = k + 1
        /\ \A j \in 1 .. k + 1 : SubSeq(s, 1, k + 1)[j] = s[j]
    BY <1>1
  <1> QED
    BY <1>1, <1>2, <1>3

\* The whole sequence, and nothing of it.
LEMMA PrefixEnds ==
    ASSUME NEW T, NEW s \in Seq(T)
    PROVE  SubSeq(s, 1, Len(s)) = s /\ SubSeq(s, 1, 0) = <<>>
  <1>1. Len(s) \in Nat
    OBVIOUS
  <1>2. SubSeq(s, 1, Len(s)) \in Seq(T) /\ Len(SubSeq(s, 1, Len(s))) = Len(s)
        /\ \A j \in 1 .. Len(s) : SubSeq(s, 1, Len(s))[j] = s[j]
    BY <1>1
  <1> QED
    BY <1>2

\* A prefix and the rest.
LEMMA CutInTwo ==
    ASSUME NEW T, NEW s \in Seq(T), NEW n \in Nat, n <= Len(s)
    PROVE  \E q \in Seq(T) : s = SubSeq(s, 1, n) \o q /\ Len(q) = Len(s) - n
  <1>1. PICK m \in Nat : m = Len(s) - n /\ n + m = Len(s)
    OBVIOUS
  <1>2. PICK p \in Seq(T) : p = SubSeq(s, 1, n) /\ Len(p) = n /\ \A j \in 1 .. n : p[j] = s[j]
    <2>1. SubSeq(s, 1, n) \in Seq(T) /\ Len(SubSeq(s, 1, n)) = n /\ \A j \in 1 .. n : SubSeq(s, 1, n)[j] = s[j]
      OBVIOUS
    <2> QED
      BY <2>1, Zenon
  <1>3. PICK q \in Seq(T) : Len(q) = m /\ \A j \in 1 .. m : q[j] = s[n + j]
    <2>1. n + m <= Len(s)
      BY <1>1
    <2>2. /\ SubSeq(s, n + 1, n + m) \in Seq(T) /\ Len(SubSeq(s, n + 1, n + m)) = m
          /\ \A j \in 1 .. m : SubSeq(s, n + 1, n + m)[j] = s[n + j]
      BY <2>1, SliceFacts
    <2> QED
      BY <2>2, Zenon
  <1>4. PICK r \in Seq(T) : r = p \o q /\ Len(r) = n + m /\ (\A j \in 1 .. n : r[j] = p[j])
                             /\ \A j \in 1 .. m : r[n + j] = q[j]
    <2>1. /\ p \o q \in Seq(T) /\ Len(p \o q) = Len(p) + Len(q)
          /\ \A j \in 1 .. Len(p) : (p \o q)[j] = p[j]
          /\ \A j \in 1 .. Len(q) : (p \o q)[Len(p) + j] = q[j]
      BY ConcatFacts
    <2>2. Len(p) = n /\ Len(q) = m
      BY <1>2, <1>3
    <2> QED
      BY <2>1, <2>2, Zenon
  <1>5. ASSUME NEW j \in 1 .. Len(s) PROVE s[j] = r[j]
    <2>1. CASE j <= n
      BY <1>2, <1>4, <2>1
    <2>2. CASE j > n
      <3>1. j - n \in 1 .. m /\ n + (j - n) = j
        BY <1>1, <2>2
      <3> QED
        BY <1>3, <1>4, <3>1
    <2> QED
      BY <2>1, <2>2
  <1>6. s = r
    BY <1>1, <1>4, <1>5, SeqEqual
  <1> QED
    BY <1>1, <1>2, <1>3, <1>4, <1>6

\* A sequence that is not empty has a last item.
LEMMA LastItem ==
    ASSUME NEW T, NEW s \in Seq(T), NEW n \in Nat, Len(s) = n + 1
    PROVE  \E q \in Seq(T), x \in T : s = Append(q, x) /\ Len(q) = n
  <1>1. n < Len(s) /\ n <= Len(s)
    OBVIOUS
  <1>2. SubSeq(s, 1, n) \in Seq(T) /\ s[n + 1] \in T /\ s = Append(SubSeq(s, 1, n), s[n + 1])
    BY <1>1, PrefixStep, PrefixEnds
  <1>3. Len(SubSeq(s, 1, n)) = n
    BY <1>1
  <1> QED
    BY <1>2, <1>3

\* The flattening of a prefix, one sequence longer.
LEMMA FlattenPrefix ==
    ASSUME NEW S, NEW ss \in Seq(Seq(S)), NEW k \in Nat, k < Len(ss)
    PROVE  FlattenSeq(SubSeq(ss, 1, k + 1)) = FlattenSeq(SubSeq(ss, 1, k)) \o ss[k + 1]
  <1>1. /\ SubSeq(ss, 1, k) \in Seq(Seq(S)) /\ ss[k + 1] \in Seq(S)
        /\ SubSeq(ss, 1, k + 1) = Append(SubSeq(ss, 1, k), ss[k + 1])
    BY PrefixStep
  <1> QED
    BY <1>1, FlattenAppend

\* Concatenation is associative.
LEMMA ThreeParts ==
    ASSUME NEW S
    PROVE  \A s, r, t \in Seq(S) : (s \o r) \o t = s \o (r \o t)
  <1> SUFFICES ASSUME NEW s \in Seq(S), NEW r \in Seq(S), NEW t \in Seq(S)
               PROVE  (s \o r) \o t = s \o (r \o t)
    OBVIOUS
  <1> QED
    BY ConcatAssociative

\* The flattening of two parts.
LEMMA FlattenConcat ==
    ASSUME NEW S, NEW ss \in Seq(Seq(S)), NEW tt \in Seq(Seq(S))
    PROVE  FlattenSeq(ss \o tt) = FlattenSeq(ss) \o FlattenSeq(tt)
  <1>0. \A f, g, h \in Seq(S) : (f \o g) \o h = f \o (g \o h)
    BY ThreeParts, SMTT(40)
  <1> DEFINE A == {n \in Nat : \A r \in Seq(Seq(S)) : Len(r) = n =>
                     FlattenSeq(ss \o r) = FlattenSeq(ss) \o FlattenSeq(r)}
  <1>1. 0 \in A
    <2> SUFFICES ASSUME NEW r \in Seq(Seq(S)), Len(r) = 0
                 PROVE  FlattenSeq(ss \o r) = FlattenSeq(ss) \o FlattenSeq(r)
      OBVIOUS
    <2>1. r = <<>> /\ ss \o r = ss
      OBVIOUS
    <2>2. FlattenSeq(r) = <<>> /\ FlattenSeq(ss) \in Seq(S)
      BY <2>1, FlattenEmpty, FlattenType
    <2>3. FlattenSeq(ss) \o <<>> = FlattenSeq(ss)
      BY <2>2
    <2> QED
      BY <2>1, <2>2, <2>3
  <1>2. ASSUME NEW n \in Nat, n \in A PROVE n + 1 \in A
    <2> SUFFICES ASSUME NEW r \in Seq(Seq(S)), Len(r) = n + 1
                 PROVE  FlattenSeq(ss \o r) = FlattenSeq(ss) \o FlattenSeq(r)
      OBVIOUS
    <2>1. PICK q \in Seq(Seq(S)), x \in Seq(S) : r = Append(q, x) /\ Len(q) = n
      BY LastItem
    <2>2. FlattenSeq(ss \o q) = FlattenSeq(ss) \o FlattenSeq(q)
      BY <1>2, <2>1
    <2>3. ss \o q \in Seq(Seq(S)) /\ ss \o r = Append(ss \o q, x)
      BY <2>1
    <2>4. FlattenSeq(ss \o r) = FlattenSeq(ss \o q) \o x
      BY <2>3, FlattenAppend
    <2>5. FlattenSeq(r) = FlattenSeq(q) \o x
      BY <2>1, FlattenAppend
    <2>6. FlattenSeq(ss) \in Seq(S) /\ FlattenSeq(q) \in Seq(S)
      BY FlattenType
    <2>7. (FlattenSeq(ss) \o FlattenSeq(q)) \o x = FlattenSeq(ss) \o (FlattenSeq(q) \o x)
      <3>1. PICK f \in Seq(S), g \in Seq(S) : f = FlattenSeq(ss) /\ g = FlattenSeq(q)
        BY <2>6, Zenon
      <3>2. (f \o g) \o x = f \o (g \o x)
        BY <1>0, Zenon
      <3> QED
        BY <3>1, <3>2, Zenon
    <2> QED
      BY <2>2, <2>4, <2>5, <2>7
  <1> HIDE DEF A
  <1>3. \A n \in Nat : n \in A
    BY <1>1, <1>2, Induction
  <1>4. Len(tt) \in A
    BY <1>3
  <1> QED
    BY <1>4 DEF A

-----------------------------------------------------------------------------
(* Select.                                                                 *)

\* The items selected, one sequence for each item of s.
Chosen(s, S) == [i \in DOMAIN s |-> IF s[i] \in S THEN <<s[i]>> ELSE <<>>]

LEMMA ChosenFacts ==
    ASSUME NEW T, NEW S, NEW s \in Seq(T)
    PROVE  /\ Chosen(s, S) \in Seq(Seq(T)) /\ Select(s, S) = FlattenSeq(Chosen(s, S))
           /\ Len(Chosen(s, S)) = Len(s)
           /\ \A i \in 1 .. Len(s) : Chosen(s, S)[i] = IF s[i] \in S THEN <<s[i]>> ELSE <<>>
  <1>1. Len(s) \in Nat /\ DOMAIN s = 1 .. Len(s)
    OBVIOUS
  <1>2. \A i \in 1 .. Len(s) : (IF s[i] \in S THEN <<s[i]>> ELSE <<>>) \in Seq(T)
    OBVIOUS
  <1>3. Chosen(s, S) = [i \in 1 .. Len(s) |-> IF s[i] \in S THEN <<s[i]>> ELSE <<>>]
    BY <1>1 DEF Chosen
  <1>4. Chosen(s, S) \in [1 .. Len(s) -> Seq(T)]
    BY <1>2, <1>3
  <1>5. Chosen(s, S) \in Seq(Seq(T)) /\ Len(Chosen(s, S)) = Len(s)
    BY <1>1, <1>4
  <1>6. Select(s, S) = FlattenSeq(Chosen(s, S))
    BY DEF Select, Chosen
  <1> QED
    BY <1>3, <1>5, <1>6

\* It selects from the items of s.
LEMMA SelectType ==
    ASSUME NEW T, NEW S, NEW s \in Seq(T)
    PROVE  Select(s, S) \in Seq(T)
  <1>1. Chosen(s, S) \in Seq(Seq(T)) /\ Select(s, S) = FlattenSeq(Chosen(s, S))
    BY ChosenFacts
  <1> QED
    BY <1>1, FlattenType

\* Nothing from nothing.
LEMMA SelectEmpty ==
    ASSUME NEW S
    PROVE  Select(<<>>, S) = <<>>
  <1>1. PICK e \in Seq({}) : e = <<>>
    <2>1. <<>> \in Seq({})
      OBVIOUS
    <2> QED
      BY <2>1
  <1>2. Chosen(e, S) \in Seq(Seq({})) /\ Len(Chosen(e, S)) = Len(e) /\ Select(e, S) = FlattenSeq(Chosen(e, S))
    BY ChosenFacts
  <1>3. Chosen(e, S) = <<>>
    BY <1>1, <1>2
  <1> QED
    BY <1>1, <1>2, <1>3, FlattenEmpty

\* One more item.
LEMMA SelectAppend ==
    ASSUME NEW T, NEW S, NEW s \in Seq(T), NEW x \in T
    PROVE  Select(Append(s, x), S) = IF x \in S THEN Append(Select(s, S), x) ELSE Select(s, S)
  <1> DEFINE y == IF x \in S THEN <<x>> ELSE <<>>
  <1>1. PICK t \in Seq(T) : t = Append(s, x)
    <2>1. Append(s, x) \in Seq(T)
      OBVIOUS
    <2> QED
      BY <2>1, Zenon
  <1>a. /\ Len(t) = Len(s) + 1 /\ Len(s) \in Nat /\ t[Len(s) + 1] = x
        /\ \A i \in 1 .. Len(s) : t[i] = s[i]
    BY <1>1
  <1>2. PICK c \in Seq(Seq(T)) :
          /\ c = Chosen(s, S) /\ Len(c) = Len(s) /\ Select(s, S) = FlattenSeq(c)
          /\ \A i \in 1 .. Len(s) : c[i] = IF s[i] \in S THEN <<s[i]>> ELSE <<>>
    BY ChosenFacts
  <1>3. PICK d \in Seq(Seq(T)) :
          /\ d = Chosen(t, S) /\ Len(d) = Len(t) /\ Select(t, S) = FlattenSeq(d)
          /\ \A i \in 1 .. Len(t) : d[i] = IF t[i] \in S THEN <<t[i]>> ELSE <<>>
    BY ChosenFacts
  <1>4. y \in Seq(T)
    OBVIOUS
  <1>5. d[Len(s) + 1] = y /\ \A i \in 1 .. Len(s) : d[i] = c[i]
    <2>1. Len(s) + 1 \in 1 .. Len(t) /\ \A i \in 1 .. Len(s) : i \in 1 .. Len(t)
      BY <1>a
    <2>2. d[Len(s) + 1] = y
      BY <1>3, <1>a, <2>1
    <2>3. ASSUME NEW i \in 1 .. Len(s) PROVE d[i] = c[i]
      <3>1. d[i] = IF t[i] \in S THEN <<t[i]>> ELSE <<>>
        BY <1>3, <2>1
      <3> QED
        BY <1>2, <1>a, <3>1
    <2> QED
      BY <2>2, <2>3
  <1> HIDE DEF y
  <1>6. d = Append(c, y)
    BY <1>2, <1>3, <1>4, <1>5, <1>a
  <1>7. FlattenSeq(d) = FlattenSeq(c) \o y /\ FlattenSeq(c) \in Seq(T)
    BY <1>4, <1>6, FlattenAppend, FlattenType
  <1>8. CASE x \in S
    <2>1. y = <<x>>
      BY <1>8 DEF y
    <2>2. FlattenSeq(c) \o <<x>> = Append(FlattenSeq(c), x)
      BY <1>7
    <2> QED
      BY <1>1, <1>2, <1>3, <1>7, <1>8, <2>1, <2>2
  <1>9. CASE x \notin S
    <2>1. y = <<>>
      BY <1>9 DEF y
    <2>2. FlattenSeq(c) \o <<>> = FlattenSeq(c)
      BY <1>7
    <2> QED
      BY <1>1, <1>2, <1>3, <1>7, <1>9, <2>1, <2>2
  <1> QED
    BY <1>8, <1>9

\* From two parts.
LEMMA SelectConcat ==
    ASSUME NEW T, NEW S, NEW s \in Seq(T), NEW r \in Seq(T)
    PROVE  Select(s \o r, S) = Select(s, S) \o Select(r, S)
  <1> DEFINE A == {n \in Nat : \A q \in Seq(T) : Len(q) = n => Select(s \o q, S) = Select(s, S) \o Select(q, S)}
  <1>0. Select(s, S) \in Seq(T)
    BY SelectType
  <1>1. 0 \in A
    <2> SUFFICES ASSUME NEW q \in Seq(T), Len(q) = 0
                 PROVE  Select(s \o q, S) = Select(s, S) \o Select(q, S)
      OBVIOUS
    <2>1. q = <<>> /\ s \o q = s
      OBVIOUS
    <2>2. Select(s, S) \o <<>> = Select(s, S)
      BY <1>0
    <2> QED
      BY <2>1, <2>2, SelectEmpty
  <1>2. ASSUME NEW n \in Nat, n \in A PROVE n + 1 \in A
    <2> SUFFICES ASSUME NEW q \in Seq(T), Len(q) = n + 1
                 PROVE  Select(s \o q, S) = Select(s, S) \o Select(q, S)
      OBVIOUS
    <2>1. PICK p \in Seq(T), x \in T : q = Append(p, x) /\ Len(p) = n
      BY LastItem
    <2>2. Select(s \o p, S) = Select(s, S) \o Select(p, S)
      BY <1>2, <2>1
    <2>b. \A a, b \in Seq(T) : Append(a \o b, x) = a \o Append(b, x)
      <3> SUFFICES ASSUME NEW a \in Seq(T), NEW b \in Seq(T) PROVE Append(a \o b, x) = a \o Append(b, x)
        OBVIOUS
      <3>1. PICK c \in Seq(T) : c = Append(b, x)
        <4>1. Append(b, x) \in Seq(T)
          OBVIOUS
        <4> QED
          BY <4>1, Zenon
      <3>2. a \o c = Append(a \o b, x)
        BY <3>1
      <3> QED
        BY <3>1, <3>2
    <2>3. PICK sp \in Seq(T) : sp = s \o p /\ s \o q = Append(sp, x)
      <3>1. s \o p \in Seq(T)
        OBVIOUS
      <3> QED
        BY <2>1, <2>b, <3>1, Zenon
    <2>a. Select(Append(sp, x), S) = IF x \in S THEN Append(Select(sp, S), x) ELSE Select(sp, S)
      BY SelectAppend
    <2>4. Select(s \o q, S) = IF x \in S THEN Append(Select(s \o p, S), x) ELSE Select(s \o p, S)
      BY <2>3, <2>a
    <2>5. Select(q, S) = IF x \in S THEN Append(Select(p, S), x) ELSE Select(p, S)
      BY <2>1, SelectAppend
    <2>6. Select(p, S) \in Seq(T)
      BY SelectType
    <2>7. Append(Select(s, S) \o Select(p, S), x) = Select(s, S) \o Append(Select(p, S), x)
      BY <1>0, <2>6, <2>b, Zenon
    <2> QED
      BY <2>2, <2>4, <2>5, <2>7
  <1> HIDE DEF A
  <1>3. \A n \in Nat : n \in A
    BY <1>1, <1>2, Induction
  <1>4. Len(r) \in A
    BY <1>3
  <1> QED
    BY <1>4 DEF A

\* Nothing is selected from what is not in the set.
LEMMA SelectNone ==
    ASSUME NEW T, NEW S, NEW s \in Seq(T), \A i \in 1 .. Len(s) : s[i] \notin S
    PROVE  Select(s, S) = <<>>
  <1> DEFINE A == {n \in Nat : \A q \in Seq(T) :
                     Len(q) = n /\ (\A i \in 1 .. Len(q) : q[i] \notin S) => Select(q, S) = <<>>}
  <1>1. 0 \in A
    <2> SUFFICES ASSUME NEW q \in Seq(T), Len(q) = 0 PROVE Select(q, S) = <<>>
      OBVIOUS
    <2>1. q = <<>>
      OBVIOUS
    <2> QED
      BY <2>1, SelectEmpty
  <1>2. ASSUME NEW n \in Nat, n \in A PROVE n + 1 \in A
    <2> SUFFICES ASSUME NEW q \in Seq(T), Len(q) = n + 1, \A i \in 1 .. Len(q) : q[i] \notin S
                 PROVE  Select(q, S) = <<>>
      OBVIOUS
    <2>1. PICK p \in Seq(T), x \in T : q = Append(p, x) /\ Len(p) = n
      BY LastItem
    <2>2. x = q[n + 1] /\ \A i \in 1 .. n : p[i] = q[i]
      BY <2>1
    <2>3. x \notin S /\ \A i \in 1 .. Len(p) : p[i] \notin S
      BY <2>1, <2>2
    <2>4. Select(p, S) = <<>>
      BY <1>2, <2>1, <2>3
    <2>5. Select(Append(p, x), S) = IF x \in S THEN Append(Select(p, S), x) ELSE Select(p, S)
      BY SelectAppend
    <2> QED
      BY <2>1, <2>3, <2>4, <2>5
  <1> HIDE DEF A
  <1>3. \A n \in Nat : n \in A
    BY <1>1, <1>2, Induction
  <1>4. Len(s) \in A
    BY <1>3
  <1> QED
    BY <1>4 DEF A

\* From a sequence of sequences: one after the other.
LEMMA SelectFlatten ==
    ASSUME NEW T, NEW S, NEW ss \in Seq(Seq(T)),
           NEW rr \in Seq(Seq(T)), Len(rr) = Len(ss), \A i \in 1 .. Len(ss) : rr[i] = Select(ss[i], S)
    PROVE  FlattenSeq(rr) = Select(FlattenSeq(ss), S)
  <1> DEFINE Claim(n) == FlattenSeq(SubSeq(rr, 1, n)) = Select(FlattenSeq(SubSeq(ss, 1, n)), S)
             A == {n \in Nat : n <= Len(ss) => Claim(n)}
  <1>0. Len(ss) \in Nat
    OBVIOUS
  <1>1. 0 \in A
    <2>1. SubSeq(rr, 1, 0) = <<>> /\ SubSeq(ss, 1, 0) = <<>>
      BY PrefixEnds
    <2> QED
      BY <2>1, FlattenEmpty, SelectEmpty
  <1>2. ASSUME NEW n \in Nat, n \in A PROVE n + 1 \in A
    <2> SUFFICES ASSUME n + 1 <= Len(ss) PROVE Claim(n + 1)
      OBVIOUS
    <2>0. n < Len(ss) /\ n < Len(rr) /\ n + 1 \in 1 .. Len(ss) /\ Claim(n)
      BY <1>0, <1>2
    <2> DEFINE f == FlattenSeq(SubSeq(ss, 1, n))
               g == FlattenSeq(SubSeq(rr, 1, n))
    <2>1. FlattenSeq(SubSeq(rr, 1, n + 1)) = g \o rr[n + 1]
      BY <2>0, FlattenPrefix
    <2>2. FlattenSeq(SubSeq(ss, 1, n + 1)) = f \o ss[n + 1]
      BY <2>0, FlattenPrefix
    <2>3. f \in Seq(T) /\ ss[n + 1] \in Seq(T)
      <3>1. SubSeq(ss, 1, n) \in Seq(Seq(T)) /\ ss[n + 1] \in Seq(T)
        BY <2>0, PrefixStep
      <3> QED
        BY <3>1, FlattenType
    <2>4. g = Select(f, S)
      BY <2>0
    <2> HIDE DEF f, g
    <2>5. Select(f \o ss[n + 1], S) = Select(f, S) \o Select(ss[n + 1], S)
      BY <2>3, SelectConcat
    <2> QED
      BY <2>0, <2>1, <2>2, <2>4, <2>5
  <1> HIDE DEF A
  <1>3. \A n \in Nat : n \in A
    BY <1>1, <1>2, Induction
  <1>4. Claim(Len(ss))
    BY <1>0, <1>3 DEF A
  <1> QED
    BY <1>4, PrefixEnds

\* Sequences of which nothing would be selected may be left out.
LEMMA SelectSkips ==
    ASSUME NEW T, NEW S, NEW K, NEW ss \in Seq(Seq(T)),
           \A i \in 1 .. Len(ss) : ss[i] \notin K => Select(ss[i], S) = <<>>
    PROVE  Select(FlattenSeq(Select(ss, K)), S) = Select(FlattenSeq(ss), S)
  <1> DEFINE Claim(n) == Select(FlattenSeq(Select(SubSeq(ss, 1, n), K)), S) = Select(FlattenSeq(SubSeq(ss, 1, n)), S)
             A == {n \in Nat : n <= Len(ss) => Claim(n)}
  <1>0. Len(ss) \in Nat
    OBVIOUS
  <1>1. 0 \in A
    <2>1. SubSeq(ss, 1, 0) = <<>>
      BY PrefixEnds
    <2> QED
      BY <2>1, FlattenEmpty, SelectEmpty
  <1>2. ASSUME NEW n \in Nat, n \in A PROVE n + 1 \in A
    <2> SUFFICES ASSUME n + 1 <= Len(ss) PROVE Claim(n + 1)
      OBVIOUS
    <2>0. n < Len(ss) /\ n + 1 \in 1 .. Len(ss) /\ Claim(n)
      BY <1>0, <1>2
    <2>1. PICK p \in Seq(Seq(T)), x \in Seq(T) :
            p = SubSeq(ss, 1, n) /\ x = ss[n + 1] /\ SubSeq(ss, 1, n + 1) = Append(p, x)
      <3>1. SubSeq(ss, 1, n) \in Seq(Seq(T)) /\ ss[n + 1] \in Seq(T)
            /\ SubSeq(ss, 1, n + 1) = Append(SubSeq(ss, 1, n), ss[n + 1])
        BY <2>0, PrefixStep
      <3> QED
        BY <3>1
    <2>2. Select(FlattenSeq(Select(p, K)), S) = Select(FlattenSeq(p), S)
      BY <2>0, <2>1
    <2>3. x \notin K => Select(x, S) = <<>>
      BY <2>0, <2>1
    <2>4. Select(p, K) \in Seq(Seq(T)) /\ Select(Append(p, x), K) = IF x \in K THEN Append(Select(p, K), x) ELSE Select(p, K)
      BY SelectType, SelectAppend
    <2>5. FlattenSeq(p) \in Seq(T) /\ FlattenSeq(Select(p, K)) \in Seq(T)
          /\ FlattenSeq(Append(p, x)) = FlattenSeq(p) \o x
      BY <2>4, FlattenType, FlattenAppend
    <2>6. Select(FlattenSeq(p) \o x, S) = Select(FlattenSeq(p), S) \o Select(x, S)
      BY <2>5, SelectConcat
    <2>7. Select(FlattenSeq(Select(Append(p, x), K)), S) = Select(FlattenSeq(Append(p, x)), S)
      <3>1. CASE x \in K
        <4>1. FlattenSeq(Append(Select(p, K), x)) = FlattenSeq(Select(p, K)) \o x
          BY <2>4, FlattenAppend
        <4>2. Select(FlattenSeq(Select(p, K)) \o x, S) = Select(FlattenSeq(Select(p, K)), S) \o Select(x, S)
          BY <2>5, SelectConcat
        <4> QED
          BY <2>2, <2>4, <2>5, <2>6, <3>1, <4>1, <4>2
      <3>2. CASE x \notin K
        <4>1. Select(FlattenSeq(p), S) \in Seq(T)
          BY <2>5, SelectType
        <4>2. Select(FlattenSeq(p), S) \o <<>> = Select(FlattenSeq(p), S)
          BY <4>1
        <4> QED
          BY <2>2, <2>3, <2>4, <2>5, <2>6, <3>2, <4>2
      <3> QED
        BY <3>1, <3>2
    <2> QED
      BY <2>1, <2>7
  <1> HIDE DEF A
  <1>3. \A n \in Nat : n \in A
    BY <1>1, <1>2, Induction
  <1>4. Claim(Len(ss))
    BY <1>0, <1>3 DEF A
  <1> QED
    BY <1>4, PrefixEnds
=============================================================================
