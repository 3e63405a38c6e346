---------------------------- MODULE EncodingProofs ---------------------------
(***************************************************************************)
(* Theorems about Encoding, for every width of the integers and of a byte  *)
(* and for chunks of any length and any values of their type.              *)
(***************************************************************************)
EXTENDS Encoding, SequenceLemmas

-----------------------------------------------------------------------------
(* Powers of two, quotients and remainders.                                *)

\* The powers of two are positive, and each is twice the one before.
LEMMA Pow2Facts ==
    /\ Pow2 \in [Nat -> Nat \ {0}]
    /\ Pow2[0] = 1
    /\ \A k \in Nat : Pow2[k + 1] = 2 * Pow2[k]
  <1> DEFINE S == Nat \ {0}
             step == [k \in Nat |-> [x \in S |-> 2 * x]]
             IsPow2(f) == f = [k \in Nat |-> IF k = 0 THEN 1 ELSE 2 * f[k - 1]]
  <1>1. step \in [Nat -> [S -> S]] /\ 1 \in S
    OBVIOUS
  <1>2. \A k \in Nat, x \in S : step[k][x] = 2 * x
    OBVIOUS
  <1>3. PICK f : IsRecursion(f, S, 1, step)
    <2> HIDE DEF S, step
    <2> QED
      BY <1>1, RecursionExists
  <1>4. \A i \in Nat : f[i + 1] = 2 * f[i]
    <2> SUFFICES ASSUME NEW i \in Nat PROVE f[i + 1] = 2 * f[i]
      OBVIOUS
    <2> HIDE DEF S, step
    <2>1. i + 1 \in Nat /\ f[i] \in S
      BY <1>3 DEF IsRecursion
    <2> QED
      BY <1>2, <1>3, <2>1 DEF IsRecursion
  <1>5. \A k \in Nat : f[k] = IF k = 0 THEN 1 ELSE 2 * f[k - 1]
    <2> SUFFICES ASSUME NEW k \in Nat, k # 0 PROVE f[k] = 2 * f[k - 1]
      BY <1>3 DEF IsRecursion
    <2>1. k - 1 \in Nat /\ (k - 1) + 1 = k
      OBVIOUS
    <2> QED
      BY <1>4, <2>1
  <1>6. IsPow2(f)
    BY <1>3, <1>5 DEF IsRecursion
  <1>7. IsPow2(Pow2)
    <2>1. Pow2 = CHOOSE g : IsPow2(g)
      BY DEF Pow2
    <2> HIDE DEF IsPow2
    <2> QED
      BY <1>6, <2>1
  <1>8. \A k \in Nat : Pow2[k] = IF k = 0 THEN 1 ELSE 2 * Pow2[k - 1]
    <2> DEFINE h == [k \in Nat |-> IF k = 0 THEN 1 ELSE 2 * Pow2[k - 1]]
    <2>1. Pow2 = h
      BY <1>7
    <2>2. \A k \in Nat : h[k] = IF k = 0 THEN 1 ELSE 2 * Pow2[k - 1]
      OBVIOUS
    <2> HIDE DEF h
    <2> QED
      BY <2>1, <2>2
  <1>9. \A k \in Nat : Pow2[k + 1] = 2 * Pow2[k]
    <2> SUFFICES ASSUME NEW k \in Nat PROVE Pow2[k + 1] = 2 * Pow2[k]
      OBVIOUS
    <2>1. k + 1 \in Nat /\ k + 1 # 0 /\ (k + 1) - 1 = k
      OBVIOUS
    <2> QED
      BY <1>8, <2>1
  <1>10. \A k \in Nat : Pow2[k] \in S
    <2> DEFINE T == {k \in Nat : Pow2[k] \in S}
    <2>1. 0 \in T
      BY <1>8
    <2>2. ASSUME NEW k \in Nat, k \in T PROVE k + 1 \in T
      BY <1>9, <2>2
    <2> HIDE DEF T
    <2>3. \A k \in Nat : k \in T
      BY <2>1, <2>2, Induction
    <2> QED
      BY <2>3 DEF T
  <1>11. Pow2 \in [Nat -> S]
    BY <1>7, <1>10
  <1> QED
    BY <1>8, <1>9, <1>11

\* Exponents add.
LEMMA Pow2Add ==
    ASSUME NEW a \in Nat, NEW b \in Nat
    PROVE  Pow2[a + b] = Pow2[a] * Pow2[b]
  <1> DEFINE T == {k \in Nat : Pow2[a + k] = Pow2[a] * Pow2[k]}
  <1>1. \A k \in Nat : Pow2[k] \in Nat
    BY Pow2Facts
  <1>2. 0 \in T
    BY Pow2Facts
  <1>3. ASSUME NEW k \in Nat, k \in T PROVE k + 1 \in T
    <2>1. a + (k + 1) = (a + k) + 1 /\ a + k \in Nat
      OBVIOUS
    <2>2. Pow2[a + (k + 1)] = 2 * Pow2[a + k] /\ Pow2[k + 1] = 2 * Pow2[k]
      BY <2>1, Pow2Facts
    <2>3. PICK x \in Nat, y \in Nat : x = Pow2[a] /\ y = Pow2[k]
      BY <1>1
    <2>4. Pow2[a + k] = x * y
      BY <1>3, <2>3
    <2>5. 2 * (x * y) = x * (2 * y)
      OBVIOUS
    <2> QED
      BY <2>2, <2>3, <2>4, <2>5
  <1> HIDE DEF T
  <1>4. b \in T
    BY <1>2, <1>3, Induction
  <1> QED
    BY <1>4 DEF T

\* A larger exponent gives a power that is no smaller, and a multiple.
LEMMA Pow2Mono ==
    ASSUME NEW a \in Nat, NEW b \in Nat, a <= b
    PROVE  Pow2[a] <= Pow2[b] /\ Pow2[b] = Pow2[a] * Pow2[b - a]
  <1>1. b - a \in Nat /\ a + (b - a) = b
    OBVIOUS
  <1>2. Pow2[b] = Pow2[a] * Pow2[b - a]
    BY <1>1, Pow2Add
  <1>3. PICK x \in Nat, y \in Nat \ {0} : x = Pow2[a] /\ y = Pow2[b - a]
    BY <1>1, Pow2Facts
  <1>4. x <= x * y
    OBVIOUS
  <1> QED
    BY <1>2, <1>3, <1>4

\* Quotient and remainder.
LEMMA DivMod ==
    ASSUME NEW a \in Int, NEW p \in Nat \ {0}
    PROVE  a \div p \in Int /\ a % p \in 0 .. p - 1 /\ a = p * (a \div p) + (a % p)
           /\ (a \in Nat => a \div p \in Nat)
  OBVIOUS

\* Those of a natural number.
LEMMA NatDivMod ==
    ASSUME NEW a \in Nat, NEW p \in Nat \ {0}
    PROVE  a \div p \in Nat /\ a % p \in 0 .. p - 1 /\ a = p * (a \div p) + (a % p)
  <1>1. a \in Int
    OBVIOUS
  <1> QED
    BY <1>1, DivMod, Zenon

\* They are the only ones.
LEMMA DivModUnique ==
    ASSUME NEW a \in Int, NEW p \in Nat \ {0}, NEW q \in Int, NEW r \in 0 .. p - 1, a = p * q + r
    PROVE  a \div p = q /\ a % p = r
  OBVIOUS

\* Dividing by a product is dividing twice, and the remainder splits.
ProductFacts(a, p, q) ==
    /\ a \div (p * q) = (a \div p) \div q
    /\ a % (p * q) = (a % p) + p * ((a \div p) % q)

LEMMA DivModProduct ==
    ASSUME NEW a \in Nat, NEW p \in Nat \ {0}, NEW q \in Nat \ {0}
    PROVE  ProductFacts(a, p, q)
  <1>1. PICK x \in Nat : x = a \div p
    BY NatDivMod, Zenon
  <1>2. PICK r \in 0 .. p - 1 : r = a % p
    BY NatDivMod, Zenon
  <1>3. a = p * x + r
    BY <1>1, <1>2, NatDivMod
  <1>4. PICK y \in Nat : y = x \div q
    BY NatDivMod, Zenon
  <1>5. PICK s \in 0 .. q - 1 : s = x % q
    BY NatDivMod, Zenon
  <1>6. x = q * y + s
    BY <1>4, <1>5, NatDivMod
  <1>7. a = p * (q * y) + (p * s + r)
    BY <1>3, <1>6
  <1>8. p * (q * y) = (p * q) * y
    OBVIOUS
  <1>9. p * s + r \in 0 .. (p * q) - 1
    <2>1. p * s + r \in Nat
      OBVIOUS
    <2>2. p * (s + 1) <= p * q
      OBVIOUS
    <2>3. p * (s + 1) = p * s + p
      OBVIOUS
    <2> QED
      BY <2>1, <2>2, <2>3
  <1>10. p * q \in Nat \ {0}
    OBVIOUS
  <1>11. a \div (p * q) = y /\ a % (p * q) = p * s + r
    <2>1. PICK m \in Nat \ {0} : m = p * q
      BY <1>10
    <2>2. PICK t \in 0 .. m - 1 : t = p * s + r
      BY <1>9, <2>1
    <2>3. a = m * y + t
      BY <1>7, <1>8, <2>1, <2>2
    <2> QED
      BY <2>1, <2>2, <2>3, DivModUnique
  <1>12. p * s + r = r + p * s
    OBVIOUS
  <1> QED
    BY <1>1, <1>2, <1>4, <1>5, <1>11, <1>12 DEF ProductFacts

\* A multiple of the divisor moves the quotient only.
ShiftFacts(a, y, p) == (a + y * p) \div p = (a \div p) + y /\ (a + y * p) % p = a % p

LEMMA DivModShift ==
    ASSUME NEW a \in Nat, NEW y \in Nat, NEW p \in Nat \ {0}
    PROVE  ShiftFacts(a, y, p)
  <1>1. PICK x \in Nat : x = a \div p
    BY NatDivMod, Zenon
  <1>2. PICK r \in 0 .. p - 1 : r = a % p
    BY NatDivMod, Zenon
  <1>3. a = p * x + r
    BY <1>1, <1>2, NatDivMod
  <1>4. p * (x + y) = p * x + y * p /\ y * p \in Nat /\ p * x \in Nat
    OBVIOUS
  <1>5. PICK m \in Nat : m = y * p
    BY <1>4
  <1>6. a + m = p * (x + y) + r
    BY <1>3, <1>4, <1>5
  <1>7. (a + m) \div p = x + y /\ (a + m) % p = r
    <2>1. a + m \in Int /\ x + y \in Int
      OBVIOUS
    <2> QED
      BY <1>6, <2>1, DivModUnique
  <1> QED
    BY <1>1, <1>2, <1>5, <1>7 DEF ShiftFacts

-----------------------------------------------------------------------------
(* The w bits of a number from bit p on.                                   *)

Bits(s, p, w) == (s \div Pow2[p]) % Pow2[w]

\* They are a number of w bits.
LEMMA BitsRange ==
    ASSUME NEW s \in Nat, NEW p \in Nat, NEW w \in Nat
    PROVE  Bits(s, p, w) \in Nat /\ Bits(s, p, w) < Pow2[w]
  <1>1. PICK P \in Nat \ {0}, W \in Nat \ {0} : P = Pow2[p] /\ W = Pow2[w]
    BY Pow2Facts
  <1>2. PICK x \in Nat : x = s \div P
    BY NatDivMod, Zenon
  <1>3. x % W \in 0 .. W - 1
    BY NatDivMod, Zenon
  <1> QED
    BY <1>1, <1>2, <1>3 DEF Bits

\* u + w bits are u bits and the w bits after them.
Splits(s, p, u, w) == Bits(s, p, u + w) = Bits(s, p, u) + Bits(s, p + u, w) * Pow2[u]

LEMMA BitsSplit ==
    ASSUME NEW s \in Nat, NEW p \in Nat, NEW u \in Nat, NEW w \in Nat
    PROVE  Splits(s, p, u, w)
  <1>1. PICK P \in Nat \ {0}, U \in Nat \ {0}, W \in Nat \ {0} : P = Pow2[p] /\ U = Pow2[u] /\ W = Pow2[w]
    BY Pow2Facts
  <1>2. Pow2[u + w] = U * W /\ Pow2[p + u] = P * U
    BY <1>1, Pow2Add
  <1>3. PICK x \in Nat : x = s \div P
    BY NatDivMod, Zenon
  <1>4. s \div (P * U) = x \div U
    <2>1. ProductFacts(s, P, U)
      BY DivModProduct
    <2> QED
      BY <1>3, <2>1 DEF ProductFacts
  <1>5. x % (U * W) = (x % U) + U * ((x \div U) % W)
    <2>1. ProductFacts(x, U, W)
      BY DivModProduct
    <2> QED
      BY <2>1 DEF ProductFacts
  <1>6. PICK y \in Nat : y = (x \div U) % W
    <2>1. x \div U \in Nat
      BY NatDivMod, Zenon
    <2> QED
      BY <2>1, NatDivMod
  <1>7. U * y = y * U
    OBVIOUS
  <1> QED
    BY <1>1, <1>2, <1>3, <1>4, <1>5, <1>6, <1>7 DEF Bits, Splits

\* The first u of w bits, and the others.
LEMMA BitsCut ==
    ASSUME NEW s \in Nat, NEW p \in Nat, NEW u \in Nat, NEW w \in Nat, u <= w
    PROVE  /\ Bits(s, p, w) % Pow2[u] = Bits(s, p, u)
           /\ Bits(s, p, w) \div Pow2[u] = Bits(s, p + u, w - u)
  <1>1. w - u \in Nat /\ u + (w - u) = w /\ p + u \in Nat
    OBVIOUS
  <1>2. Bits(s, p, w) = Bits(s, p, u) + Bits(s, p + u, w - u) * Pow2[u]
    <2>1. Splits(s, p, u, w - u)
      BY <1>1, BitsSplit
    <2> QED
      BY <1>1, <2>1 DEF Splits
  <1>3. PICK U \in Nat \ {0} : U = Pow2[u]
    BY Pow2Facts
  <1>4. PICK r \in 0 .. U - 1 : r = Bits(s, p, u)
    <2>1. Bits(s, p, u) \in Nat /\ Bits(s, p, u) < U
      BY <1>3, BitsRange
    <2> QED
      BY <2>1
  <1>5. PICK q \in Nat : q = Bits(s, p + u, w - u)
    BY <1>1, BitsRange
  <1>6. PICK a \in Nat : a = Bits(s, p, w)
    BY BitsRange
  <1>7. a = U * q + r
    BY <1>2, <1>3, <1>4, <1>5, <1>6
  <1>8. a \div U = q /\ a % U = r
    BY <1>7, DivModUnique
  <1> QED
    BY <1>3, <1>4, <1>5, <1>6, <1>8

\* A number of w bits is its own first w bits.
LEMMA BitsAll ==
    ASSUME NEW s \in Nat, NEW w \in Nat, s < Pow2[w]
    PROVE  Bits(s, 0, w) = s
  <1>1. PICK W \in Nat \ {0} : W = Pow2[w]
    BY Pow2Facts
  <1>2. s = 1 * s + 0 /\ 0 \in 0 .. 1 - 1 /\ 1 \in Nat \ {0}
    OBVIOUS
  <1>3. s \div 1 = s
    BY <1>2, DivModUnique
  <1>4. s = W * 0 + s /\ s \in 0 .. W - 1
    BY <1>1
  <1>5. s % W = s
    BY <1>4, DivModUnique
  <1> QED
    BY <1>1, <1>3, <1>5, Pow2Facts DEF Bits

\* No bits are 0.
LEMMA BitsNone ==
    ASSUME NEW s \in Nat, NEW p \in Nat
    PROVE  Bits(s, p, 0) = 0
  <1>1. Bits(s, p, 0) \in Nat /\ Bits(s, p, 0) < 1
    BY BitsRange, Pow2Facts
  <1> QED
    BY <1>1

\* The bits above the last one of a number are 0.
LEMMA BitsHigh ==
    ASSUME NEW s \in Nat, NEW p \in Nat, NEW w \in Nat, NEW u \in Nat, s < Pow2[p + w], w <= u
    PROVE  Bits(s, p, u) = Bits(s, p, w)
  <1>1. PICK P \in Nat \ {0}, W \in Nat \ {0}, U \in Nat \ {0} : P = Pow2[p] /\ W = Pow2[w] /\ U = Pow2[u]
    BY Pow2Facts
  <1>2. Pow2[p + w] = P * W /\ W <= U
    BY <1>1, Pow2Add, Pow2Mono
  <1>3. PICK x \in Nat : x = s \div P
    BY NatDivMod, Zenon
  <1>4. PICK r \in 0 .. P - 1 : r = s % P
    BY NatDivMod, Zenon
  <1>5. s = P * x + r
    BY <1>3, <1>4, NatDivMod
  <1>6. x < W
    <2> SUFFICES ASSUME W <= x PROVE FALSE
      OBVIOUS
    <2>1. P * W <= P * x
      OBVIOUS
    <2>2. P * W \in Nat /\ P * x \in Nat
      OBVIOUS
    <2> QED
      BY <1>2, <1>5, <2>1, <2>2
  <1>7. x = W * 0 + x /\ x = U * 0 + x /\ x \in 0 .. W - 1 /\ x \in 0 .. U - 1
    BY <1>2, <1>6
  <1>8. x % W = x
    BY <1>7, DivModUnique
  <1>9. x % U = x
    BY <1>7, DivModUnique
  <1> QED
    BY <1>1, <1>3, <1>8, <1>9 DEF Bits

\* Bits put above the t bits of a number leave those alone, and are found there.
LEMMA BitsAbove ==
    ASSUME NEW s \in Nat, NEW t \in Nat, s < Pow2[t], NEW x \in Nat
    PROVE  /\ s + x * Pow2[t] \in Nat
           /\ \A p, w \in Nat : p + w <= t => Bits(s + x * Pow2[t], p, w) = Bits(s, p, w)
           /\ \A w \in Nat : x < Pow2[w] => /\ Bits(s + x * Pow2[t], t, w) = x
                                            /\ s + x * Pow2[t] < Pow2[t + w]
  <1>1. PICK T \in Nat \ {0} : T = Pow2[t]
    BY Pow2Facts
  <1>2. s + x * T \in Nat
    OBVIOUS
  <1>3. ASSUME NEW p \in Nat, NEW w \in Nat, p + w <= t PROVE Bits(s + x * T, p, w) = Bits(s, p, w)
    <2>1. PICK P \in Nat \ {0}, W \in Nat \ {0}, M \in Nat \ {0} :
             P = Pow2[p] /\ W = Pow2[w] /\ M = Pow2[t - (p + w)]
      <3>1. t - (p + w) \in Nat
        BY <1>3
      <3> QED
        BY <3>1, Pow2Facts
    <2>2. T = (P * W) * M
      <3>1. p + w \in Nat /\ Pow2[p + w] = P * W
        BY <2>1, Pow2Add
      <3> QED
        BY <1>1, <1>3, <2>1, <3>1, Pow2Mono
    <2>3. PICK y \in Nat : y = (x * M) * W
      OBVIOUS
    <2>4. x * T = y * P
      <3>1. x * ((P * W) * M) = ((x * M) * W) * P
        OBVIOUS
      <3> QED
        BY <2>2, <2>3, <3>1
    <2>5. ShiftFacts(s, y, P)
      BY DivModShift
    <2>6. PICK z \in Nat : z = s \div P
      BY NatDivMod, Zenon
    <2>7. PICK m \in Nat : m = x * M
      OBVIOUS
    <2>8. ShiftFacts(z, m, W)
      BY DivModShift
    <2> QED
      BY <2>1, <2>3, <2>4, <2>5, <2>6, <2>7, <2>8 DEF Bits, ShiftFacts
  <1>4. ASSUME NEW w \in Nat, x < Pow2[w]
        PROVE  Bits(s + x * T, t, w) = x /\ s + x * T < Pow2[t + w]
    <2>1. PICK W \in Nat \ {0} : W = Pow2[w]
      BY Pow2Facts
    <2>2. Pow2[t + w] = T * W
      BY <1>1, <2>1, Pow2Add
    <2>3. s < T /\ x < W
      BY <1>1, <1>4, <2>1
    <2>4. s \in 0 .. T - 1 /\ x * T = T * x
      BY <2>3
    <2>5. (s + x * T) \div T = x
      <3>1. PICK a \in Nat : a = s + x * T
        BY <1>2
      <3>2. a = T * x + s
        BY <2>4, <3>1
      <3> QED
        BY <2>4, <3>1, <3>2, DivModUnique
    <2>6. x % W = x
      <3>1. x = W * 0 + x /\ x \in 0 .. W - 1
        BY <2>3
      <3> QED
        BY <3>1, DivModUnique
    <2>7. s + x * T < T * W
      <3>1. T * (x + 1) <= T * W
        BY <2>3
      <3>2. T * (x + 1) = T * x + T /\ T * x \in Nat
        OBVIOUS
      <3> QED
        BY <2>3, <2>4, <3>1, <3>2
    <2> QED
      BY <1>1, <2>1, <2>2, <2>5, <2>6, <2>7 DEF Bits
  <1> QED
    BY <1>1, <1>2, <1>3, <1>4

-----------------------------------------------------------------------------
(* Casts.                                                                  *)

\* A cast to intw_t gives back x from any number that differs from it by a
\* multiple of 2^w.
LEMMA SignedOf ==
    ASSUME NEW w \in Nat \ {0}, NEW x \in IntRange(w), NEW m \in Int, NEW y, y = x + m * Pow2[w]
    PROVE  Signed(y, w) = x
  <1>1. PICK h \in Nat \ {0}, P \in Nat \ {0} : h = Pow2[w - 1] /\ P = Pow2[w] /\ P = 2 * h
    <2>1. w - 1 \in Nat /\ (w - 1) + 1 = w
      OBVIOUS
    <2>2. Pow2[w] = 2 * Pow2[w - 1]
      BY <2>1, Pow2Facts
    <2> QED
      BY <2>1, <2>2, Pow2Facts
  <1>2. x \in Int /\ x + h \in 0 .. P - 1
    BY <1>1 DEF IntRange
  <1>3. m * P \in Int /\ m * P = P * m
    OBVIOUS
  <1>4. PICK e \in Int : e = m * P
    BY <1>3
  <1>5. y = x + e
    BY <1>1, <1>4
  <1>6. PICK a \in Int : a = y + h
    BY <1>2, <1>5
  <1>7. a = P * m + (x + h)
    BY <1>2, <1>3, <1>4, <1>5, <1>6
  <1>8. a % P = x + h
    BY <1>2, <1>7, DivModUnique
  <1>9. Signed(y, w) = (x + h) - h
    BY <1>1, <1>6, <1>8 DEF Signed
  <1> QED
    BY <1>2, <1>9

\* A cast changes a number by a multiple of 2^w.
LEMMA SignedMultiple ==
    ASSUME NEW w \in Nat \ {0}, NEW y \in Int
    PROVE  \E m \in Int : Signed(y, w) = y + m * Pow2[w]
  <1>1. PICK h \in Nat, P \in Nat \ {0} : h = Pow2[w - 1] /\ P = Pow2[w]
    <2>1. w - 1 \in Nat
      OBVIOUS
    <2> QED
      BY <2>1, Pow2Facts
  <1>2. PICK a \in Int : a = y + h
    OBVIOUS
  <1>3. PICK q \in Int : q = a \div P
    BY DivMod
  <1>4. PICK r \in Int : r = a % P
    BY DivMod
  <1>5. a = P * q + r
    BY <1>3, <1>4, DivMod
  <1>6. P * q \in Int /\ (- q) * P = - (P * q)
    OBVIOUS
  <1>7. Signed(y, w) = r - h
    BY <1>1, <1>2, <1>4 DEF Signed
  <1>8. r - h = y + (- q) * P
    BY <1>2, <1>5, <1>6
  <1> QED
    BY <1>1, <1>7, <1>8

\* A cast to uint64_t gives a number of 64 bits, and changes it by a multiple
\* of 2^64.
LEMMA UnsignedFacts ==
    ASSUME NEW y \in Int
    PROVE  /\ Unsigned(y) \in Nat /\ Unsigned(y) < Pow2[Width]
           /\ \E m \in Int : Unsigned(y) = y + m * Pow2[Width]
           /\ y \in Nat /\ y < Pow2[Width] => Unsigned(y) = y
  <1>1. PICK P \in Nat \ {0} : P = Pow2[Width]
    BY EncodingAssumption, Pow2Facts
  <1>2. PICK q \in Int : q = y \div P
    BY DivMod
  <1>3. PICK r \in 0 .. P - 1 : r = y % P
    BY DivMod
  <1>4. y = P * q + r
    BY <1>2, <1>3, DivMod
  <1>5. P * q \in Int /\ (- q) * P = - (P * q)
    OBVIOUS
  <1>6. r = y + (- q) * P
    BY <1>4, <1>5
  <1>7. ASSUME y \in Nat, y < P PROVE y % P = y
    <2>1. y = P * 0 + y /\ y \in 0 .. P - 1
      BY <1>7
    <2> QED
      BY <2>1, DivModUnique
  <1> QED
    BY <1>1, <1>3, <1>6, <1>7 DEF Unsigned

\* The integers of a narrower type are integers of the wider one.
LEMMA IntRangeWidens ==
    ASSUME NEW u \in Nat \ {0}, NEW w \in Nat \ {0}, u <= w
    PROVE  IntRange(u) \subseteq IntRange(w)
  <1>1. u - 1 \in Nat /\ w - 1 \in Nat /\ u - 1 <= w - 1
    OBVIOUS
  <1>2. PICK x \in Nat, y \in Nat : x = Pow2[u - 1] /\ y = Pow2[w - 1] /\ x <= y
    BY <1>1, Pow2Facts, Pow2Mono
  <1> QED
    BY <1>2 DEF IntRange

\* What differs from x by a multiple of 2^64 is cast to x, for every type
\* that has x.
LEMMA CastBack ==
    ASSUME NEW w \in Nat \ {0}, w <= Width, NEW x \in IntRange(w), NEW m \in Int,
           NEW y, y = x + m * Pow2[Width]
    PROVE  Signed(y, w) = x
  <1>1. Width \in Nat /\ Width - w \in Nat
    BY EncodingAssumption
  <1>2. PICK P \in Nat, Q \in Nat : P = Pow2[w] /\ Q = Pow2[Width - w] /\ Pow2[Width] = P * Q
    <2>1. Pow2[Width] = Pow2[w] * Pow2[Width - w]
      BY <1>1, Pow2Mono
    <2> QED
      BY <1>1, <2>1, Pow2Facts
  <1>3. PICK k \in Int : k = m * Q
    OBVIOUS
  <1>4. m * (P * Q) = (m * Q) * P
    OBVIOUS
  <1>5. y = x + k * Pow2[w]
    BY <1>2, <1>3, <1>4
  <1> QED
    BY <1>5, SignedOf

-----------------------------------------------------------------------------
(* The chunk.                                                              *)

\* A chunk is a sequence of values of its type and NULLs.
LEMMA ChunkFacts ==
    ASSUME chunk \in Chunks
    PROVE  /\ chunk.type \in {"int", "bigint", "float", "varchar"}
           /\ values \in Seq(Domain(chunk.type) \cup {Null})
           /\ n \in Nat /\ n <= Pow2[Width] /\ DOMAIN values = 1 .. n
           /\ \A i \in 1 .. n : values[i] # Null => values[i] \in Domain(chunk.type)
  <1>1. /\ chunk.type \in {"int", "bigint", "float", "varchar"}
        /\ chunk.values \in Seq(Domain(chunk.type) \cup {Null})
        /\ Len(chunk.values) <= Pow2[Width]
    BY EncodingAssumption
  <1> QED
    BY <1>1 DEF values, n

\* The values of an integer column.
LEMMA IntValues ==
    ASSUME chunk \in Chunks, NEW i \in 1 .. n, values[i] # Null
    PROVE  /\ chunk.type = "int" => values[i] \in IntRange(IntWidth)
           /\ chunk.type = "bigint" => values[i] \in IntRange(Width)
           /\ IsInt => values[i] \in IntRange(Width) /\ values[i] \in Int
  <1>1. values[i] \in Domain(chunk.type)
    BY ChunkFacts
  <1>2. chunk.type = "int" => values[i] \in IntRange(IntWidth)
    BY <1>1 DEF Domain
  <1>3. chunk.type = "bigint" => values[i] \in IntRange(Width)
    BY <1>1 DEF Domain
  <1>4. IntRange(IntWidth) \subseteq IntRange(Width)
    BY EncodingAssumption, IntRangeWidens
  <1>5. \A x \in IntRange(Width) : x \in Int
    BY DEF IntRange
  <1> QED
    BY <1>2, <1>3, <1>4, <1>5 DEF IsInt

\* BitsRequired finds a width, if there is one.
LEMMA BitsRequiredFacts ==
    ASSUME NEW m \in Nat, m < Pow2[Width]
    PROVE  BitsRequired(m) \in 1 .. Width /\ m < Pow2[BitsRequired(m)]
  <1> DEFINE T == {b \in 1 .. Width : m < Pow2[b]}
  <1>1. Width \in T /\ T \subseteq Nat
    BY EncodingAssumption
  <1>2. PICK b \in T : \A a \in T : b <= a
    <2> HIDE DEF T
    <2> QED
      BY <1>1, LeastNatural
  <1>3. \A a \in 1 .. b - 1 : m >= Pow2[a]
    <2> SUFFICES ASSUME NEW a \in 1 .. b - 1 PROVE m >= Pow2[a]
      OBVIOUS
    <2>1. a \in 1 .. Width /\ ~ (b <= a) /\ a \in Nat
      BY EncodingAssumption
    <2>2. Pow2[a] \in Nat
      BY <2>1, Pow2Facts
    <2>3. a \notin T
      <3> HIDE DEF T
      <3> QED
        BY <1>2, <2>1
    <2> QED
      BY <2>1, <2>2, <2>3
  <1>4. \E c \in 1 .. Width : m < Pow2[c] /\ \A a \in 1 .. c - 1 : m >= Pow2[a]
    BY <1>2, <1>3
  <1> QED
    BY <1>4 DEF BitsRequired

-----------------------------------------------------------------------------
(* The dictionary.                                                         *)

\* The dictionaries of the first i values, for the i up to m.
IsDicts(f, s, m) == f = [i \in 0 .. m |-> IF i = 0 THEN <<>> ELSE AddToDict(f[i - 1], s[i])]

\* e has the entries of d, one more at most, and x.
Grown(V, d, e, x) ==
    /\ e \in Seq(V)
    /\ Len(e) <= Len(d) + 1
    /\ \A k \in 1 .. Len(d) : k \in 1 .. Len(e) /\ e[k] = d[k]
    /\ x # Null => \E k \in 1 .. Len(e) : e[k] = x

\* AddToDict keeps the entries, and has the value afterwards.
LEMMA AddToDictFacts ==
    ASSUME NEW V, NEW d \in Seq(V), NEW x \in V
    PROVE  Grown(V, d, AddToDict(d, x), x)
  <1>1. Len(d) \in Nat
    OBVIOUS
  <1>2. CASE x = Null \/ x \in ToSet(d)
    <2>1. AddToDict(d, x) = d
      BY <1>2 DEF AddToDict
    <2>2. x # Null => \E k \in 1 .. Len(d) : d[k] = x
      BY <1>2 DEF ToSet
    <2> QED
      BY <1>1, <2>1, <2>2 DEF Grown
  <1>3. CASE ~ (x = Null \/ x \in ToSet(d))
    <2>1. AddToDict(d, x) = Append(d, x)
      BY <1>3 DEF AddToDict
    <2>2. /\ Append(d, x) \in Seq(V) /\ Len(Append(d, x)) = Len(d) + 1
          /\ \A k \in 1 .. Len(d) : Append(d, x)[k] = d[k]
          /\ Append(d, x)[Len(d) + 1] = x
      OBVIOUS
    <2>3. Len(d) + 1 \in 1 .. Len(d) + 1 /\ \A k \in 1 .. Len(d) : k \in 1 .. Len(d) + 1
      BY <1>1
    <2> QED
      BY <1>1, <2>1, <2>2, <2>3 DEF Grown
  <1> QED
    BY <1>2, <1>3

\* The dictionaries of the prefixes exist.
LEMMA DictsExist ==
    ASSUME NEW V, NEW s \in Seq(V)
    PROVE  \E f : IsDicts(f, s, Len(s))
  <1> DEFINE S == Seq(V)
             m == Len(s)
             step == [k \in Nat |-> [d \in S |-> IF k \in 1 .. m THEN AddToDict(d, s[k]) ELSE d]]
  <1>1. \A k \in Nat, d \in S : (IF k \in 1 .. m THEN AddToDict(d, s[k]) ELSE d) \in S
    <2> SUFFICES ASSUME NEW k \in 1 .. m, NEW d \in S PROVE AddToDict(d, s[k]) \in S
      OBVIOUS
    <2>1. s[k] \in V
      OBVIOUS
    <2>2. Grown(V, d, AddToDict(d, s[k]), s[k])
      BY <2>1, AddToDictFacts
    <2> QED
      BY <2>2 DEF Grown
  <1>2. step \in [Nat -> [S -> S]] /\ <<>> \in S
    <2> HIDE DEF m
    <2> QED
      BY <1>1
  <1>3. \A k \in 1 .. m, d \in S : step[k][d] = AddToDict(d, s[k])
    <2> HIDE DEF m
    <2>1. \A k \in 1 .. m : k \in Nat
      OBVIOUS
    <2> QED
      BY <2>1
  <1>4. PICK f : IsRecursion(f, S, <<>>, step)
    <2> HIDE DEF S, step
    <2> QED
      BY <1>2, RecursionExists
  <1>5. ASSUME NEW i \in 1 .. m PROVE f[i] = AddToDict(f[i - 1], s[i])
    <2> HIDE DEF S, step
    <2>1. i - 1 \in Nat /\ (i - 1) + 1 = i
      OBVIOUS
    <2>2. f[i - 1] \in S
      BY <1>4, <2>1 DEF IsRecursion
    <2>3. f[i] = step[i][f[i - 1]]
      BY <1>4, <2>1 DEF IsRecursion
    <2> QED
      BY <1>3, <2>2, <2>3
  <1>6. f[0] = <<>>
    BY <1>4 DEF IsRecursion
  <1> DEFINE g == [i \in 0 .. m |-> f[i]]
  <1>7. IsDicts(g, s, m)
    <2>0. m \in Nat
      OBVIOUS
    <2> HIDE DEF m
    <2>1. \A i \in 0 .. m : g[i] = f[i]
      OBVIOUS
    <2>2. \A i \in 0 .. m : i # 0 => i \in 1 .. m /\ i - 1 \in 0 .. m
      BY <2>0
    <2>3. \A i \in 0 .. m : f[i] = IF i = 0 THEN <<>> ELSE AddToDict(g[i - 1], s[i])
      <3> HIDE DEF g
      <3> QED
        BY <1>5, <1>6, <2>1, <2>2
    <2>4. g = [i \in 0 .. m |-> IF i = 0 THEN <<>> ELSE AddToDict(g[i - 1], s[i])]
      BY <2>3
    <2> QED
      BY <2>4 DEF IsDicts
  <1> QED
    BY <1>7

\* The dictionary has every value of the chunk, and no more entries than the
\* chunk has rows.
LEMMA DictFacts ==
    ASSUME chunk \in Chunks
    PROVE  /\ Len(Dict) \in 0 .. n
           /\ DOMAIN Dict = 1 .. Len(Dict)
           /\ \A i \in 1 .. n : values[i] # Null => \E k \in 1 .. Len(Dict) : Dict[k] = values[i]
  <1>1. PICK V, s : s \in Seq(V) /\ s = values
    BY ChunkFacts
  <1>2. PICK m \in Nat : m = Len(s) /\ m = n
    BY <1>1 DEF n
  <1> DEFINE f == CHOOSE f : IsDicts(f, s, m)
  <1>3. IsDicts(f, s, m)
    <2>1. \E g : IsDicts(g, s, m)
      BY <1>1, <1>2, DictsExist
    <2> QED
      BY <2>1
  <1>4. Dict = f[m]
    BY <1>1, <1>2 DEF Dict, IsDicts
  <1> HIDE DEF f
  <1>5. \A i \in 0 .. m : f[i] = IF i = 0 THEN <<>> ELSE AddToDict(f[i - 1], s[i])
    <2> DEFINE h == [i \in 0 .. m |-> IF i = 0 THEN <<>> ELSE AddToDict(f[i - 1], s[i])]
    <2>1. f = h
      BY <1>3 DEF IsDicts
    <2>2. \A i \in 0 .. m : h[i] = IF i = 0 THEN <<>> ELSE AddToDict(f[i - 1], s[i])
      OBVIOUS
    <2> HIDE DEF h
    <2> QED
      BY <2>1, <2>2
  <1> DEFINE Has(d, i) == /\ d \in Seq(V) /\ Len(d) <= i
                          /\ \A j \in 1 .. i : s[j] # Null => \E k \in 1 .. Len(d) : d[k] = s[j]
             T == {i \in Nat : i <= m => Has(f[i], i)}
  <1>6. 0 \in T
    <2>1. f[0] = <<>>
      BY <1>5
    <2>2. Has(<<>>, 0)
      OBVIOUS
    <2> HIDE DEF Has
    <2> QED
      BY <2>1, <2>2
  <1>7. ASSUME NEW i \in Nat, i \in T PROVE i + 1 \in T
    <2> SUFFICES ASSUME i + 1 <= m PROVE Has(f[i + 1], i + 1)
      OBVIOUS
    <2>1. i + 1 \in 0 .. m /\ i + 1 # 0 /\ (i + 1) - 1 = i /\ i + 1 \in 1 .. m
      OBVIOUS
    <2>2. PICK d : d = f[i]
      OBVIOUS
    <2>3. Has(d, i)
      BY <1>7, <2>2
    <2>4. PICK x \in V : x = s[i + 1]
      <3>1. \A j \in 1 .. Len(s) : s[j] \in V
        BY <1>1
      <3> QED
        BY <1>2, <2>1, <3>1
    <2>5. f[i + 1] = AddToDict(d, x)
      BY <1>5, <2>1, <2>2, <2>4
    <2>6. PICK e : e = AddToDict(d, x)
      OBVIOUS
    <2>7. d \in Seq(V) /\ Len(d) <= i /\ Len(d) \in Nat
      BY <2>3
    <2>8. /\ e \in Seq(V)
          /\ Len(e) <= Len(d) + 1
          /\ \A k \in 1 .. Len(d) : k \in 1 .. Len(e) /\ e[k] = d[k]
          /\ x # Null => \E k \in 1 .. Len(e) : e[k] = x
      <3>1. Grown(V, d, AddToDict(d, x), x)
        BY <2>7, AddToDictFacts
      <3> QED
        BY <2>6, <3>1 DEF Grown
    <2>9. ASSUME NEW j \in 1 .. i + 1, s[j] # Null PROVE \E k \in 1 .. Len(e) : e[k] = s[j]
      <3>1. CASE j = i + 1
        BY <2>4, <2>8, <2>9, <3>1
      <3>2. CASE j # i + 1
        <4>1. j \in 1 .. i
          BY <3>2
        <4>2. PICK k \in 1 .. Len(d) : d[k] = s[j]
          BY <2>3, <2>9, <4>1
        <4> QED
          BY <2>8, <4>2
      <3> QED
        BY <3>1, <3>2
    <2>10. Len(e) <= i + 1
      <3>1. Len(e) \in Nat
        BY <2>8
      <3> QED
        BY <2>7, <2>8, <3>1
    <2> QED
      BY <2>5, <2>6, <2>8, <2>9, <2>10
  <1> HIDE DEF T
  <1>8. m \in T
    BY <1>6, <1>7, Induction
  <1>9. Has(f[m], m)
    BY <1>8 DEF T
  <1> QED
    BY <1>1, <1>2, <1>4, <1>9

\* The index of an entry leads back to it.
LEMMA IndexInFacts ==
    ASSUME NEW d, Len(d) \in Nat, NEW x, \E k \in 1 .. Len(d) : d[k] = x
    PROVE  IndexIn(d, x) \in 0 .. Len(d) - 1 /\ d[IndexIn(d, x) + 1] = x
  <1> DEFINE I == {i \in 1 .. Len(d) : d[i] = x}
  <1>1. I # {} /\ I \subseteq Nat
    OBVIOUS
  <1>2. IndexIn(d, x) = Min(I) - 1
    BY <1>1 DEF IndexIn, SelectInSeq
  <1>3. Min(I) \in I
    <2>1. \E i \in I : \A j \in I : i <= j
      <3> HIDE DEF I
      <3> QED
        BY <1>1, LeastNatural
    <2> HIDE DEF I
    <2> QED
      BY <2>1 DEF Min
  <1>4. PICK k \in 1 .. Len(d) : k = Min(I) /\ d[k] = x
    BY <1>3
  <1>5. (k - 1) + 1 = k /\ k - 1 \in 0 .. Len(d) - 1
    OBVIOUS
  <1> HIDE DEF I
  <1> QED
    BY <1>2, <1>4, <1>5

-----------------------------------------------------------------------------
(* Runs.                                                                   *)

\* What DecodeRle makes of the runs, run by run.
Expand(runs) == [r \in DOMAIN runs |-> [k \in 1 .. runs[r][2] |-> runs[r][1]]]

\* The runs of the first i items, for the i up to m.
IsRuns(f, s, m) == f = [i \in 0 .. m |-> IF i = 0 THEN <<>> ELSE AddToRuns(f[i - 1], s[i])]

\* c times x.
Times(x, c) == [k \in 1 .. c |-> x]

\* They are a sequence, and one more goes to its end.
LEMMA TimesFacts ==
    ASSUME NEW V, NEW x \in V, NEW c \in Nat
    PROVE  Times(x, c) \in Seq(V) /\ Times(x, c + 1) = Times(x, c) \o <<x>> /\ Times(x, 1) = <<x>>
  <1>1. Times(x, c) \in Seq(V) /\ Len(Times(x, c)) = c /\ \A k \in 1 .. c : Times(x, c)[k] = x
    BY DEF Times
  <1>2. c + 1 \in Nat
    OBVIOUS
  <1>3. Times(x, c + 1) \in Seq(V) /\ Len(Times(x, c + 1)) = c + 1 /\ \A k \in 1 .. c + 1 : Times(x, c + 1)[k] = x
    BY <1>2 DEF Times
  <1>4. Times(x, c + 1) = Times(x, c) \o <<x>>
    BY <1>1, <1>3
  <1>5. Times(x, 1) = <<x>>
    BY DEF Times
  <1> QED
    BY <1>1, <1>4, <1>5

\* The expansion of runs is a sequence of sequences, one for each run.
LEMMA ExpandFacts ==
    ASSUME NEW V, NEW q \in Seq(V \X Nat)
    PROVE  /\ Expand(q) \in Seq(Seq(V)) /\ Len(Expand(q)) = Len(q)
           /\ \A r \in 1 .. Len(q) : Expand(q)[r] = Times(q[r][1], q[r][2])
  <1>1. DOMAIN q = 1 .. Len(q) /\ Len(q) \in Nat
    OBVIOUS
  <1>2. \A r \in 1 .. Len(q) : q[r] \in V \X Nat
    OBVIOUS
  <1>3. \A r \in 1 .. Len(q) : q[r][1] \in V /\ q[r][2] \in Nat
    BY <1>2
  <1>4. \A r \in 1 .. Len(q) : Times(q[r][1], q[r][2]) \in Seq(V)
    BY <1>3, TimesFacts
  <1>5. Expand(q) = [r \in 1 .. Len(q) |-> Times(q[r][1], q[r][2])]
    BY <1>1 DEF Expand, Times
  <1> QED
    BY <1>1, <1>4, <1>5

LEMMA ExpandAppend ==
    ASSUME NEW V, NEW q \in Seq(V \X Nat), NEW x \in V, NEW c \in Nat
    PROVE  Expand(Append(q, <<x, c>>)) = Append(Expand(q), Times(x, c))
  <1>1. PICK m \in Nat : m = Len(q)
    OBVIOUS
  <1>2. PICK p : p = Append(q, <<x, c>>)
    OBVIOUS
  <1>3. <<x, c>> \in V \X Nat
    OBVIOUS
  <1>4. /\ p \in Seq(V \X Nat) /\ Len(p) = m + 1 /\ p[m + 1] = <<x, c>>
        /\ \A r \in 1 .. m : p[r] = q[r]
    BY <1>1, <1>2, <1>3
  <1>5. /\ Expand(p) \in Seq(Seq(V)) /\ Len(Expand(p)) = Len(p)
        /\ \A r \in 1 .. Len(p) : Expand(p)[r] = Times(p[r][1], p[r][2])
    BY <1>4, ExpandFacts
  <1>6. /\ Expand(q) \in Seq(Seq(V)) /\ Len(Expand(q)) = Len(q)
        /\ \A r \in 1 .. Len(q) : Expand(q)[r] = Times(q[r][1], q[r][2])
    BY ExpandFacts
  <1>7. Times(x, c) \in Seq(V)
    BY TimesFacts
  <1>8. PICK a, b, t : a = Expand(p) /\ b = Expand(q) /\ t = Times(x, c)
    OBVIOUS
  <1>9. /\ a \in Seq(Seq(V)) /\ Len(a) = m + 1 /\ b \in Seq(Seq(V)) /\ Len(b) = m /\ t \in Seq(V)
    BY <1>1, <1>4, <1>5, <1>6, <1>7, <1>8
  <1>10. m + 1 \in 1 .. m + 1 /\ \A r \in 1 .. m : r \in 1 .. m + 1
    OBVIOUS
  <1>11. a[m + 1] = t
    <2>1. p[m + 1][1] = x /\ p[m + 1][2] = c
      BY <1>4
    <2> QED
      BY <1>4, <1>5, <1>8, <1>10, <2>1
  <1>12. \A r \in 1 .. m : a[r] = b[r]
    BY <1>1, <1>4, <1>5, <1>6, <1>8, <1>10
  <1>13. a = Append(b, t)
    BY <1>9, <1>11, <1>12
  <1> QED
    BY <1>2, <1>8, <1>13

\* Replacing the last item.
LEMMA ReplaceLast ==
    ASSUME NEW R, NEW q \in Seq(R), NEW e \in R, NEW y \in R
    PROVE  [Append(q, e) EXCEPT ![Len(q) + 1] = y] = Append(q, y)
  <1>1. PICK m \in Nat : m = Len(q)
    OBVIOUS
  <1>2. PICK a, b : a = Append(q, e) /\ b = Append(q, y)
    OBVIOUS
  <1>3. /\ Len(a) = m + 1 /\ Len(b) = m + 1 /\ b[m + 1] = y
        /\ a \in Seq(R) /\ b \in Seq(R)
        /\ \A k \in 1 .. m : a[k] = b[k]
    BY <1>1, <1>2
  <1>4. \A k \in 1 .. m + 1 : k # m + 1 => k \in 1 .. m
    OBVIOUS
  <1>5. [a EXCEPT ![m + 1] = y] = [k \in 1 .. m + 1 |-> IF k = m + 1 THEN y ELSE a[k]]
    <2>1. DOMAIN a = 1 .. m + 1
      BY <1>3
    <2> QED
      BY <2>1
  <1>6. b = [k \in 1 .. m + 1 |-> b[k]]
    BY <1>3
  <1>7. [k \in 1 .. m + 1 |-> IF k = m + 1 THEN y ELSE a[k]] = [k \in 1 .. m + 1 |-> b[k]]
    BY <1>3, <1>4
  <1> QED
    BY <1>1, <1>2, <1>5, <1>6, <1>7

\* The last run is one of x, and it is one longer in added.
Longer(V, runs, added, x) ==
    \E q \in Seq(V \X Nat), c \in Nat : runs = Append(q, <<x, c>>) /\ added = Append(q, <<x, c + 1>>)

\* AddToRuns lengthens the last run by one or appends a run of one.
LEMMA AddToRunsCases ==
    ASSUME NEW V, NEW runs \in Seq(V \X Nat), NEW x \in V
    PROVE  \/ AddToRuns(runs, x) = Append(runs, <<x, 1>>)
           \/ Longer(V, runs, AddToRuns(runs, x), x)
  <1>1. CASE ~ (runs # <<>> /\ Last(runs)[1] = x)
    BY <1>1 DEF AddToRuns
  <1>2. CASE runs # <<>> /\ Last(runs)[1] = x
    <2>1. Len(runs) - 1 \in Nat /\ Len(runs) = (Len(runs) - 1) + 1
      BY <1>2
    <2>2. PICK m \in Nat : Len(runs) = m + 1
      BY <2>1
    <2>3. PICK q \in Seq(V \X Nat), e \in V \X Nat : runs = Append(q, e) /\ Len(q) = m
      <3>1. PICK R : R = V \X Nat
        OBVIOUS
      <3>2. runs \in Seq(R)
        BY <3>1
      <3>3. \E q \in Seq(R), e \in R : runs = Append(q, e) /\ Len(q) = m
        BY <2>2, <3>2, LastItem, Zenon
      <3> QED
        BY <3>1, <3>3, Zenon
    <2>4. runs[m + 1] = e
      BY <2>3
    <2>5. e[1] = x /\ e[2] \in Nat
      BY <1>2, <2>2, <2>4 DEF Last
    <2>6. PICK c \in Nat : c = e[2]
      BY <2>5
    <2>7. e = <<x, c>>
      BY <2>5, <2>6
    <2>8. AddToRuns(runs, x) = [runs EXCEPT ![m + 1][2] = @ + 1]
      BY <1>2, <2>2 DEF AddToRuns
    <2>9. [e EXCEPT ![2] = @ + 1] = <<x, c + 1>>
      BY <2>7
    <2>10. [runs EXCEPT ![m + 1][2] = @ + 1] = [runs EXCEPT ![m + 1] = <<x, c + 1>>]
      BY <2>4, <2>9
    <2>11. [runs EXCEPT ![m + 1] = <<x, c + 1>>] = Append(q, <<x, c + 1>>)
      <3>1. PICK y : y = <<x, c + 1>>
        OBVIOUS
      <3>2. y \in V \X Nat
        BY <3>1
      <3>3. [Append(q, e) EXCEPT ![m + 1] = y] = Append(q, y)
        <4>1. PICK R : R = V \X Nat
          OBVIOUS
        <4>2. q \in Seq(R) /\ e \in R /\ y \in R
          BY <3>2, <4>1, Zenon
        <4> QED
          BY <2>3, <4>2, ReplaceLast
      <3> QED
        BY <2>3, <3>1, <3>3
    <2>12. AddToRuns(runs, x) = Append(q, <<x, c + 1>>)
      BY <2>8, <2>10, <2>11, Zenon
    <2>13. runs = Append(q, <<x, c>>)
      BY <2>3, <2>7, Zenon
    <2> QED
      BY <2>12, <2>13, Zenon DEF Longer
  <1> QED
    BY <1>1, <1>2

\* Either way the expansion gets one more item, and runs stay runs.
LEMMA AddToRunsFacts ==
    ASSUME NEW V, NEW runs \in Seq(V \X Nat), NEW x \in V
    PROVE  /\ AddToRuns(runs, x) \in Seq(V \X Nat)
           /\ FlattenSeq(Expand(AddToRuns(runs, x))) = FlattenSeq(Expand(runs)) \o <<x>>
  <1>1. Expand(runs) \in Seq(Seq(V))
    BY ExpandFacts
  <1>2. Times(x, 1) = <<x>> /\ 1 \in Nat /\ Times(x, 1) \in Seq(V)
    <2>1. 1 \in Nat
      OBVIOUS
    <2> QED
      BY <2>1, TimesFacts
  <1>3. CASE AddToRuns(runs, x) = Append(runs, <<x, 1>>)
    <2>1. Append(runs, <<x, 1>>) \in Seq(V \X Nat)
      OBVIOUS
    <2>2. Expand(Append(runs, <<x, 1>>)) = Append(Expand(runs), Times(x, 1))
      BY <1>2, ExpandAppend
    <2>3. FlattenSeq(Append(Expand(runs), Times(x, 1))) = FlattenSeq(Expand(runs)) \o Times(x, 1)
      BY <1>1, <1>2, FlattenAppend
    <2> QED
      BY <1>2, <1>3, <2>1, <2>2, <2>3
  <1>4. ASSUME NEW q \in Seq(V \X Nat), NEW c \in Nat,
               runs = Append(q, <<x, c>>), AddToRuns(runs, x) = Append(q, <<x, c + 1>>)
        PROVE  /\ AddToRuns(runs, x) \in Seq(V \X Nat)
               /\ FlattenSeq(Expand(AddToRuns(runs, x))) = FlattenSeq(Expand(runs)) \o <<x>>
    <2>1. PICK d \in Nat : d = c + 1
      OBVIOUS
    <2>2. Append(q, <<x, d>>) \in Seq(V \X Nat)
      OBVIOUS
    <2>3. Expand(Append(q, <<x, c>>)) = Append(Expand(q), Times(x, c))
      BY ExpandAppend
    <2>4. Expand(Append(q, <<x, d>>)) = Append(Expand(q), Times(x, d))
      BY ExpandAppend
    <2>5. Times(x, c) \in Seq(V) /\ Times(x, c + 1) = Times(x, c) \o <<x>>
      BY TimesFacts
    <2>6. Times(x, d) \in Seq(V)
      BY TimesFacts
    <2>7. Expand(q) \in Seq(Seq(V))
      BY ExpandFacts
    <2>8. FlattenSeq(Append(Expand(q), Times(x, c))) = FlattenSeq(Expand(q)) \o Times(x, c)
      BY <2>5, <2>7, FlattenAppend
    <2>9. FlattenSeq(Append(Expand(q), Times(x, d))) = FlattenSeq(Expand(q)) \o Times(x, d)
      BY <2>6, <2>7, FlattenAppend
    <2>10. PICK a \in Seq(V) : a = FlattenSeq(Expand(q))
      BY <2>7, FlattenType
    <2>11. PICK b \in Seq(V) : b = Times(x, c)
      BY <2>5
    <2>12. <<x>> \in Seq(V)
      OBVIOUS
    <2>13. (a \o b) \o <<x>> = a \o (b \o <<x>>)
      BY <2>12, ThreeParts
    <2> QED
      BY <1>4, <2>1, <2>2, <2>3, <2>4, <2>5, <2>8, <2>9, <2>10, <2>11, <2>13
  <1>5. \/ AddToRuns(runs, x) = Append(runs, <<x, 1>>)
        \/ Longer(V, runs, AddToRuns(runs, x), x)
    BY AddToRunsCases
  <1> QED
    BY <1>3, <1>4, <1>5, Zenon DEF Longer

\* The runs of the prefixes exist.
LEMMA RunsExist ==
    ASSUME NEW V, NEW s \in Seq(V)
    PROVE  \E f : IsRuns(f, s, Len(s))
  <1> DEFINE S == Seq(V \X Nat)
             m == Len(s)
             step == [k \in Nat |-> [d \in S |-> IF k \in 1 .. m THEN AddToRuns(d, s[k]) ELSE d]]
  <1>1. \A k \in Nat, d \in S : (IF k \in 1 .. m THEN AddToRuns(d, s[k]) ELSE d) \in S
    <2> SUFFICES ASSUME NEW k \in 1 .. m, NEW d \in S PROVE AddToRuns(d, s[k]) \in S
      OBVIOUS
    <2>1. s[k] \in V
      OBVIOUS
    <2> QED
      BY <2>1, AddToRunsFacts
  <1>2. step \in [Nat -> [S -> S]] /\ <<>> \in S
    <2>1. <<>> \in S
      OBVIOUS
    <2> HIDE DEF m, S
    <2> QED
      BY <1>1, <2>1
  <1>3. \A k \in 1 .. m, d \in S : step[k][d] = AddToRuns(d, s[k])
    <2> HIDE DEF m
    <2>1. \A k \in 1 .. m : k \in Nat
      OBVIOUS
    <2> QED
      BY <2>1
  <1>4. PICK f : IsRecursion(f, S, <<>>, step)
    <2> HIDE DEF S, step
    <2> QED
      BY <1>2, RecursionExists
  <1>5. ASSUME NEW i \in 1 .. m PROVE f[i] = AddToRuns(f[i - 1], s[i])
    <2> HIDE DEF S, step
    <2>1. i - 1 \in Nat /\ (i - 1) + 1 = i
      OBVIOUS
    <2>2. f[i - 1] \in S
      BY <1>4, <2>1 DEF IsRecursion
    <2>3. f[i] = step[i][f[i - 1]]
      BY <1>4, <2>1 DEF IsRecursion
    <2> QED
      BY <1>3, <2>2, <2>3
  <1>6. f[0] = <<>>
    BY <1>4 DEF IsRecursion
  <1> DEFINE g == [i \in 0 .. m |-> f[i]]
  <1>7. IsRuns(g, s, m)
    <2>0. m \in Nat
      OBVIOUS
    <2> HIDE DEF m
    <2>1. \A i \in 0 .. m : g[i] = f[i]
      OBVIOUS
    <2>2. \A i \in 0 .. m : i # 0 => i \in 1 .. m /\ i - 1 \in 0 .. m
      BY <2>0
    <2>3. \A i \in 0 .. m : f[i] = IF i = 0 THEN <<>> ELSE AddToRuns(g[i - 1], s[i])
      <3> HIDE DEF g
      <3> QED
        BY <1>5, <1>6, <2>1, <2>2
    <2>4. g = [i \in 0 .. m |-> IF i = 0 THEN <<>> ELSE AddToRuns(g[i - 1], s[i])]
      BY <2>3
    <2> QED
      BY <2>4 DEF IsRuns
  <1> QED
    BY <1>7

\* The slots are one for each row.
LEMMA SlotsFacts ==
    ASSUME chunk \in Chunks
    PROVE  \E V : Slots \in Seq(V) /\ Len(Slots) = n
  <1>1. n \in Nat
    BY ChunkFacts
  <1>2. DOMAIN Slots = 1 .. n /\ Slots \in [1 .. n -> {Slots[i] : i \in 1 .. n}]
    BY DEF Slots
  <1>3. Slots \in Seq({Slots[i] : i \in 1 .. n}) /\ Len(Slots) = n
    BY <1>1, <1>2
  <1> QED
    BY <1>3

\* The runs of the slots, one after the other, are the slots.
LEMMA RunsFacts ==
    ASSUME chunk \in Chunks
    PROVE  FlattenSeq(Expand(Runs)) = Slots
  <1>1. PICK V, s : s \in Seq(V) /\ s = Slots /\ Len(s) = n
    BY SlotsFacts
  <1>2. PICK m \in Nat : m = Len(s) /\ m = n
    BY <1>1
  <1> DEFINE f == CHOOSE f : IsRuns(f, s, m)
  <1>3. IsRuns(f, s, m)
    <2>1. \E g : IsRuns(g, s, m)
      BY <1>1, <1>2, RunsExist
    <2> QED
      BY <2>1
  <1>4. Runs = f[m]
    BY <1>1, <1>2 DEF Runs, IsRuns
  <1> HIDE DEF f
  <1>5. \A i \in 0 .. m : f[i] = IF i = 0 THEN <<>> ELSE AddToRuns(f[i - 1], s[i])
    <2> DEFINE h == [i \in 0 .. m |-> IF i = 0 THEN <<>> ELSE AddToRuns(f[i - 1], s[i])]
    <2>1. f = h
      BY <1>3 DEF IsRuns
    <2>2. \A i \in 0 .. m : h[i] = IF i = 0 THEN <<>> ELSE AddToRuns(f[i - 1], s[i])
      OBVIOUS
    <2> HIDE DEF h
    <2> QED
      BY <2>1, <2>2
  <1> DEFINE Good(q, i) == q \in Seq(V \X Nat) /\ FlattenSeq(Expand(q)) = SubSeq(s, 1, i)
             T == {i \in Nat : i <= m => Good(f[i], i)}
  <1>6. 0 \in T
    <2>1. f[0] = <<>>
      BY <1>5
    <2>2. Expand(<<>>) = <<>>
      BY DEF Expand
    <2>3. SubSeq(s, 1, 0) = <<>>
      BY <1>1, PrefixEnds
    <2>4. Good(<<>>, 0)
      <3>1. <<>> \in Seq(V \X Nat)
        OBVIOUS
      <3> QED
        BY <2>2, <2>3, <3>1, FlattenEmpty, Zenon
    <2> HIDE DEF Good
    <2> QED
      BY <2>1, <2>4
  <1>7. ASSUME NEW i \in Nat, i \in T PROVE i + 1 \in T
    <2> SUFFICES ASSUME i + 1 <= m PROVE Good(f[i + 1], i + 1)
      OBVIOUS
    <2>1. i + 1 \in 0 .. m /\ i + 1 # 0 /\ (i + 1) - 1 = i /\ i + 1 \in 1 .. m /\ i < m
      OBVIOUS
    <2>2. PICK q : q = f[i]
      OBVIOUS
    <2>3. q \in Seq(V \X Nat) /\ FlattenSeq(Expand(q)) = SubSeq(s, 1, i)
      BY <1>7, <2>1, <2>2
    <2>4. /\ SubSeq(s, 1, i) \in Seq(V) /\ s[i + 1] \in V
          /\ SubSeq(s, 1, i + 1) = Append(SubSeq(s, 1, i), s[i + 1])
      BY <1>1, <1>2, <2>1, PrefixStep
    <2>5. PICK x \in V : x = s[i + 1]
      BY <2>4
    <2>6. f[i + 1] = AddToRuns(q, x)
      BY <1>5, <2>1, <2>2, <2>5
    <2>7. /\ AddToRuns(q, x) \in Seq(V \X Nat)
          /\ FlattenSeq(Expand(AddToRuns(q, x))) = FlattenSeq(Expand(q)) \o <<x>>
      BY <2>3, AddToRunsFacts
    <2>8. PICK t \in Seq(V) : t = SubSeq(s, 1, i)
      BY <2>4
    <2>9. t \o <<x>> = Append(t, x)
      OBVIOUS
    <2> QED
      BY <2>3, <2>4, <2>5, <2>6, <2>7, <2>8, <2>9
  <1> HIDE DEF T
  <1>8. m \in T
    BY <1>6, <1>7, Induction
  <1>9. FlattenSeq(Expand(f[m])) = SubSeq(s, 1, m)
    BY <1>8 DEF T
  <1>10. SubSeq(s, 1, Len(s)) = s
    BY <1>1, PrefixEnds
  <1> QED
    BY <1>1, <1>2, <1>4, <1>9, <1>10

-----------------------------------------------------------------------------
(* What is packed: indices into the dictionary, or distances from the      *)
(* least value.                                                            *)

DictVals == [i \in 1 .. n |-> IF values[i] = Null THEN 0 ELSE IndexIn(Dict, values[i])]
DictWidth == IF Dict = <<>> THEN 0 ELSE BitsRequired(Len(Dict) - 1)
FrameVals == [i \in 1 .. n |-> IF values[i] = Null THEN 0 ELSE Unsigned(values[i] - FrameMin)]
FrameWidth == IF FrameMin = FrameMax THEN 0 ELSE BitsRequired(Unsigned(FrameMax - FrameMin))

\* One number for each row, which b bits are enough for.
Fit(vs, b) == b \in 0 .. Width /\ vs \in [1 .. n -> Nat] /\ \A i \in 1 .. n : vs[i] < Pow2[b]

\* The least and the greatest of the integers of a range.
LEMMA MinMaxFacts ==
    ASSUME NEW h \in Nat, NEW S, S \subseteq - h .. h - 1, S # {}
    PROVE  Min(S) \in S /\ Max(S) \in S /\ \A y \in S : Min(S) <= y /\ y <= Max(S)
  <1> DEFINE A == {x \in Nat : x - h \in S}
             B == {x \in Nat : h - x \in S}
  <1>1. PICK z \in S : z \in - h .. h - 1
    OBVIOUS
  <1>2. z + h \in A /\ h - z \in B
    <2>1. z + h \in Nat /\ (z + h) - h = z /\ h - z \in Nat /\ h - (h - z) = z
      BY <1>1
    <2> QED
      BY <2>1
  <1>3. PICK a \in A : \A x \in A : a <= x
    <2>1. A \subseteq Nat /\ A # {}
      BY <1>2
    <2> HIDE DEF A
    <2> QED
      BY <2>1, LeastNatural
  <1>4. PICK b \in B : \A x \in B : b <= x
    <2>1. B \subseteq Nat /\ B # {}
      BY <1>2
    <2> HIDE DEF B
    <2> QED
      BY <2>1, LeastNatural
  <1>5. \A y \in S : a - h <= y
    <2> SUFFICES ASSUME NEW y \in S PROVE a - h <= y
      OBVIOUS
    <2>1. y \in Int /\ y + h \in Nat /\ (y + h) - h = y
      OBVIOUS
    <2>2. y + h \in A
      BY <2>1
    <2>3. a <= y + h /\ a \in Nat
      BY <1>3, <2>2
    <2> QED
      BY <2>1, <2>3
  <1>6. \A y \in S : y <= h - b
    <2> SUFFICES ASSUME NEW y \in S PROVE y <= h - b
      OBVIOUS
    <2>1. y \in Int /\ h - y \in Nat /\ h - (h - y) = y
      OBVIOUS
    <2>2. h - y \in B
      BY <2>1
    <2>3. b <= h - y /\ b \in Nat
      BY <1>4, <2>2
    <2> QED
      BY <2>1, <2>3
  <1>7. a - h \in S /\ h - b \in S
    BY <1>3, <1>4
  <1>8. Min(S) \in S /\ \A y \in S : Min(S) <= y
    <2>1. \E x \in S : \A y \in S : x <= y
      BY <1>5, <1>7
    <2> QED
      BY <2>1 DEF Min
  <1>9. Max(S) \in S /\ \A y \in S : Max(S) >= y
    <2>1. \A y \in S : h - b >= y
      <3> SUFFICES ASSUME NEW y \in S PROVE h - b >= y
        OBVIOUS
      <3>1. y <= h - b /\ y \in Int /\ h - b \in Int
        BY <1>6, <1>7
      <3> QED
        BY <3>1
    <2>2. \E x \in S : \A y \in S : x >= y
      BY <1>7, <2>1
    <2> QED
      BY <2>2 DEF Max
  <1>10. \A y \in S : y <= Max(S)
    <2> SUFFICES ASSUME NEW y \in S PROVE y <= Max(S)
      OBVIOUS
    <2>1. Max(S) >= y /\ Max(S) \in S
      BY <1>9
    <2>2. \A x \in S : x \in Int
      OBVIOUS
    <2>3. y \in Int /\ Max(S) \in Int
      BY <2>1, <2>2
    <2> QED
      BY <2>1, <2>3
  <1> QED
    BY <1>8, <1>9, <1>10

\* The frame encloses the values, and is no wider than a word.
LEMMA FrameFacts ==
    ASSUME chunk \in Chunks, IsInt
    PROVE  /\ FrameMin \in Int /\ FrameMax \in Int
           /\ FrameMax - FrameMin \in 0 .. Pow2[Width] - 1
           /\ \A i \in 1 .. n : values[i] # Null =>
                 values[i] \in Int /\ FrameMin <= values[i] /\ values[i] <= FrameMax
  <1>1. NonNull = {values[i] : i \in 1 .. n} \ {Null}
    BY ChunkFacts DEF NonNull, ToSet
  <1>2. PICK h \in Nat \ {0} : h = Pow2[Width - 1] /\ Pow2[Width] = 2 * h
    <2>1. Width - 1 \in Nat /\ (Width - 1) + 1 = Width
      BY EncodingAssumption
    <2> QED
      BY <2>1, Pow2Facts
  <1>3. \A i \in 1 .. n : values[i] # Null => values[i] \in - h .. h - 1
    BY <1>2, IntValues DEF IntRange
  <1>4. CASE NonNull = {}
    <2>1. FrameMin = 0 /\ FrameMax = 0
      BY <1>4 DEF FrameMin, FrameMax
    <2>2. \A i \in 1 .. n : values[i] = Null
      BY <1>1, <1>4
    <2> QED
      BY <1>2, <2>1, <2>2
  <1>5. CASE NonNull # {}
    <2>1. PICK S : S = NonNull
      OBVIOUS
    <2>2. S \subseteq - h .. h - 1 /\ S # {}
      BY <1>1, <1>3, <1>5, <2>1
    <2>3. FrameMin = Min(S) /\ FrameMax = Max(S)
      BY <1>5, <2>1 DEF FrameMin, FrameMax
    <2>4. Min(S) \in S /\ Max(S) \in S /\ \A y \in S : Min(S) <= y /\ y <= Max(S)
      BY <2>2, MinMaxFacts
    <2>5. PICK lo \in - h .. h - 1, hi \in - h .. h - 1 : lo = FrameMin /\ hi = FrameMax /\ lo <= hi
      BY <2>2, <2>3, <2>4
    <2>6. hi - lo \in 0 .. (2 * h) - 1
      BY <2>5
    <2>7. \A i \in 1 .. n : values[i] # Null => values[i] \in S
      BY <1>1, <2>1
    <2>8. \A y \in S : y \in Int
      BY <2>2
    <2> QED
      BY <1>2, <2>3, <2>4, <2>5, <2>6, <2>7, <2>8
  <1> QED
    BY <1>4, <1>5

\* The indices fit into DictWidth bits.
LEMMA DictValsFit ==
    ASSUME chunk \in Chunks
    PROVE  Fit(DictVals, DictWidth)
  <1>1. PICK d, m : d = Dict /\ m = Len(d) /\ m \in Nat /\ m <= n /\ DOMAIN d = 1 .. m
    BY ChunkFacts, DictFacts
  <1>2. \A i \in 1 .. n : values[i] # Null => IndexIn(d, values[i]) \in 0 .. m - 1
    <2> SUFFICES ASSUME NEW i \in 1 .. n, values[i] # Null PROVE IndexIn(d, values[i]) \in 0 .. m - 1
      OBVIOUS
    <2>1. \E k \in 1 .. Len(d) : d[k] = values[i]
      BY <1>1, DictFacts
    <2> QED
      BY <1>1, <2>1, IndexInFacts
  <1>3. CASE Dict = <<>>
    <2>1. DictWidth = 0 /\ m = 0
      BY <1>1, <1>3 DEF DictWidth
    <2>2. \A i \in 1 .. n : values[i] = Null
      BY <1>2, <2>1
    <2>3. DictVals = [i \in 1 .. n |-> 0]
      BY <2>2 DEF DictVals
    <2> QED
      BY <2>1, <2>3, EncodingAssumption, Pow2Facts DEF Fit
  <1>4. CASE Dict # <<>>
    <2>1. m # 0
      BY <1>1, <1>4, DictFacts
    <2>2. m - 1 \in Nat /\ m - 1 < Pow2[Width]
      <3>1. n \in Nat /\ n <= Pow2[Width] /\ Pow2[Width] \in Nat
        BY ChunkFacts, EncodingAssumption, Pow2Facts
      <3> QED
        BY <1>1, <2>1, <3>1
    <2>3. PICK b \in 1 .. Width : b = BitsRequired(m - 1) /\ m - 1 < Pow2[b]
      BY <2>2, BitsRequiredFacts
    <2>4. DictWidth = b
      BY <1>1, <1>4, <2>3 DEF DictWidth
    <2>5. Pow2[b] \in Nat /\ b \in 0 .. Width
      BY <2>3, EncodingAssumption, Pow2Facts
    <2>6. ASSUME NEW i \in 1 .. n PROVE DictVals[i] \in Nat /\ DictVals[i] < Pow2[b]
      <3>1. DictVals[i] = IF values[i] = Null THEN 0 ELSE IndexIn(d, values[i])
        BY <1>1 DEF DictVals
      <3>2. DictVals[i] \in 0 .. m - 1
        BY <1>2, <2>2, <3>1
      <3> QED
        BY <2>2, <2>3, <2>5, <3>2
    <2>7. DictVals \in [1 .. n -> Nat]
      <3>1. DictVals = [i \in 1 .. n |-> DictVals[i]]
        BY DEF DictVals
      <3> QED
        BY <2>6, <3>1
    <2> QED
      BY <2>4, <2>5, <2>6, <2>7 DEF Fit
  <1> QED
    BY <1>3, <1>4

\* The distances fit into FrameWidth bits, and none of them has wrapped around.
LEMMA FrameValsFit ==
    ASSUME chunk \in Chunks, IsInt
    PROVE  /\ Fit(FrameVals, FrameWidth)
           /\ \A i \in 1 .. n : values[i] # Null => FrameVals[i] = values[i] - FrameMin
  <1>1. PICK lo \in Int, hi \in Int : lo = FrameMin /\ hi = FrameMax
    BY FrameFacts
  <1>2. PICK r \in Nat : r = hi - lo /\ r < Pow2[Width]
    <2>1. Pow2[Width] \in Nat
      BY EncodingAssumption, Pow2Facts
    <2> QED
      BY <1>1, <2>1, FrameFacts
  <1>3. ASSUME NEW x \in Nat, x < Pow2[Width] PROVE Unsigned(x) = x
    BY <1>3, UnsignedFacts
  <1>4. ASSUME NEW i \in 1 .. n PROVE /\ FrameVals[i] \in 0 .. r
                                      /\ values[i] # Null => FrameVals[i] = values[i] - lo
    <2>1. FrameVals[i] = IF values[i] = Null THEN 0 ELSE Unsigned(values[i] - lo)
      BY <1>1 DEF FrameVals
    <2>2. CASE values[i] = Null
      BY <2>1, <2>2
    <2>3. CASE values[i] # Null
      <3>1. values[i] \in Int /\ lo <= values[i] /\ values[i] <= hi
        BY <1>1, <2>3, FrameFacts
      <3>2. PICK x \in Nat : x = values[i] - lo /\ x <= r
        BY <1>2, <3>1
      <3>3. Pow2[Width] \in Nat
        BY EncodingAssumption, Pow2Facts
      <3>4. Unsigned(x) = x
        BY <1>2, <1>3, <3>2, <3>3
      <3>5. FrameVals[i] = Unsigned(x)
        BY <2>1, <2>3, <3>2
      <3> QED
        BY <3>2, <3>4, <3>5
    <2> QED
      BY <2>2, <2>3
  <1>5. PICK b \in 0 .. Width : b = FrameWidth /\ r < Pow2[b]
    <2>1. CASE lo = hi
      <3>1. FrameWidth = 0 /\ r = 0 /\ 0 \in 0 .. Width
        BY <1>1, <1>2, <2>1, EncodingAssumption DEF FrameWidth
      <3> QED
        BY <3>1, Pow2Facts
    <2>2. CASE lo # hi
      <3>1. FrameWidth = BitsRequired(Unsigned(r))
        BY <1>1, <1>2, <2>2 DEF FrameWidth
      <3>2. Unsigned(r) = r
        BY <1>2, <1>3
      <3>3. BitsRequired(r) \in 1 .. Width /\ r < Pow2[BitsRequired(r)]
        BY <1>2, BitsRequiredFacts
      <3>4. BitsRequired(r) \in 0 .. Width
        BY <3>3, EncodingAssumption
      <3> QED
        BY <3>1, <3>2, <3>3, <3>4
    <2> QED
      BY <2>1, <2>2
  <1>6. Pow2[b] \in Nat
    <2>1. b \in Nat
      BY EncodingAssumption
    <2> QED
      BY <2>1, Pow2Facts
  <1>7. FrameVals \in [1 .. n -> Nat]
    <2>1. FrameVals = [i \in 1 .. n |-> FrameVals[i]]
      BY DEF FrameVals
    <2>2. \A i \in 1 .. n : FrameVals[i] \in Nat
      BY <1>4
    <2> QED
      BY <2>1, <2>2
  <1>8. \A i \in 1 .. n : FrameVals[i] < Pow2[b]
    <2> SUFFICES ASSUME NEW i \in 1 .. n PROVE FrameVals[i] < Pow2[b]
      OBVIOUS
    <2>1. FrameVals[i] \in 0 .. r
      BY <1>4
    <2> QED
      BY <1>5, <1>6, <2>1
  <1> QED
    BY <1>1, <1>4, <1>5, <1>7, <1>8 DEF Fit

-----------------------------------------------------------------------------
(* Decoding.                                                               *)

\* The column is read back if every value that is not NULL is.
LEMMA NullsBack ==
    ASSUME chunk \in Chunks, payload.validity = Validity, NEW d,
           \A i \in 1 .. n : values[i] # Null => d[i] = values[i]
    PROVE  WithNulls(d) = values
  <1>1. values = [i \in 1 .. n |-> values[i]]
    BY ChunkFacts
  <1>2. \A i \in 1 .. n : payload.validity[i] = (values[i] # Null)
    BY DEF Validity
  <1>3. \A i \in 1 .. n : (IF payload.validity[i] THEN d[i] ELSE Null) = values[i]
    BY <1>2
  <1>4. WithNulls(d) = [i \in 1 .. n |-> values[i]]
    BY <1>3 DEF WithNulls
  <1> QED
    BY <1>1, <1>4, Zenon

\* A value comes back from its slot.
LEMMA SlotBack ==
    ASSUME chunk \in Chunks, NEW i \in 1 .. n, values[i] # Null
    PROVE  AsType(Slot(Slots[i])) = values[i]
  <1>1. PICK v : v = values[i]
    OBVIOUS
  <1>2. Slots[i] = IF IsInt THEN Unsigned(v) ELSE v
    BY <1>1 DEF Slots
  <1>3. ASSUME NEW w \in Nat \ {0}, w <= Width, v \in IntRange(w) PROVE Signed(Unsigned(v), w) = v
    <2>1. v \in Int
      BY <1>3 DEF IntRange
    <2>2. PICK m \in Int : Unsigned(v) = v + m * Pow2[Width]
      BY <2>1, UnsignedFacts
    <2> QED
      BY <1>3, <2>2, CastBack
  <1>4. CASE chunk.type = "int"
    <2>1. v \in IntRange(IntWidth) /\ IntWidth \in Nat \ {0} /\ IntWidth <= Width
      BY <1>1, <1>4, IntValues, EncodingAssumption
    <2>2. Signed(Unsigned(v), IntWidth) = v
      BY <1>3, <2>1
    <2>3. Slots[i] = Unsigned(v)
      BY <1>2, <1>4 DEF IsInt
    <2>4. Slot(Unsigned(v)) = Unsigned(v)
      BY <1>4, <2>2 DEF Slot
    <2>5. AsType(Unsigned(v)) = v
      BY <1>4, <2>2 DEF AsType
    <2> QED
      BY <1>1, <2>3, <2>4, <2>5
  <1>5. CASE chunk.type = "bigint"
    <2>1. v \in IntRange(Width) /\ Width \in Nat \ {0} /\ Width <= Width
      BY <1>1, <1>5, IntValues, EncodingAssumption
    <2>2. Signed(Unsigned(v), Width) = v
      BY <1>3, <2>1
    <2>3. Slots[i] = Unsigned(v)
      BY <1>2, <1>5 DEF IsInt
    <2>4. Slot(Unsigned(v)) = Unsigned(v)
      BY <1>5 DEF Slot
    <2>5. AsType(Unsigned(v)) = v
      BY <1>5, <2>2 DEF AsType
    <2> QED
      BY <1>1, <2>3, <2>4, <2>5
  <1>6. CASE chunk.type # "int" /\ chunk.type # "bigint"
    <2>1. Slots[i] = v
      BY <1>2, <1>6 DEF IsInt
    <2>2. AsType(Slot(v)) = v
      BY <1>6 DEF AsType, Slot
    <2> QED
      BY <1>1, <2>1, <2>2
  <1> QED
    BY <1>4, <1>5, <1>6

LEMMA PlainBack ==
    ASSUME chunk \in Chunks, payload = [validity |-> Validity, slots |-> Slots]
    PROVE  WithNulls([i \in 1 .. n |-> AsType(Slot(payload.slots[i]))]) = values
  <1> DEFINE d == [i \in 1 .. n |-> AsType(Slot(payload.slots[i]))]
  <1>1. payload.validity = Validity /\ payload.slots = Slots
    OBVIOUS
  <1>2. \A i \in 1 .. n : d[i] = AsType(Slot(Slots[i]))
    BY <1>1
  <1>3. \A i \in 1 .. n : values[i] # Null => d[i] = values[i]
    <2> HIDE DEF d
    <2> QED
      BY <1>2, SlotBack
  <1> HIDE DEF d
  <1>4. WithNulls(d) = values
    BY <1>1, <1>3, NullsBack
  <1> QED
    BY <1>4 DEF d

LEMMA RleBack ==
    ASSUME chunk \in Chunks, payload = [validity |-> Validity, runs |-> Runs],
           NEW slots, slots = FlattenSeq(Expand(payload.runs))
    PROVE  WithNulls([i \in 1 .. n |-> AsType(Slot(slots[i]))]) = values
  <1> DEFINE d == [i \in 1 .. n |-> AsType(Slot(slots[i]))]
  <1>1. payload.validity = Validity /\ payload.runs = Runs
    OBVIOUS
  <1>2. slots = Slots
    BY <1>1, RunsFacts, Zenon
  <1>3. \A i \in 1 .. n : d[i] = AsType(Slot(Slots[i]))
    BY <1>2
  <1>4. \A i \in 1 .. n : values[i] # Null => d[i] = values[i]
    <2> HIDE DEF d
    <2> QED
      BY <1>3, SlotBack
  <1> HIDE DEF d
  <1>5. WithNulls(d) = values
    BY <1>1, <1>4, NullsBack
  <1> QED
    BY <1>5 DEF d

LEMMA DictionaryBack ==
    ASSUME chunk \in Chunks, payload = [validity |-> Validity, dict |-> Dict], unpacked = DictVals
    PROVE  WithNulls([i \in 1 .. n |-> payload.dict[unpacked[i] + 1]]) = values
  <1> DEFINE d == [i \in 1 .. n |-> payload.dict[unpacked[i] + 1]]
  <1>1. payload.validity = Validity /\ payload.dict = Dict
    OBVIOUS
  <1>2. ASSUME NEW i \in 1 .. n, values[i] # Null PROVE d[i] = values[i]
    <2>1. d[i] = Dict[unpacked[i] + 1]
      BY <1>1
    <2>2. unpacked[i] = IndexIn(Dict, values[i])
      BY <1>2 DEF DictVals
    <2>3. \E k \in 1 .. Len(Dict) : Dict[k] = values[i]
      BY <1>2, DictFacts
    <2>4. Len(Dict) \in Nat
      BY ChunkFacts, DictFacts
    <2>5. Dict[IndexIn(Dict, values[i]) + 1] = values[i]
      BY <2>3, <2>4, IndexInFacts
    <2> HIDE DEF d
    <2> QED
      BY <2>1, <2>2, <2>5
  <1> HIDE DEF d
  <1>3. WithNulls(d) = values
    BY <1>1, <1>2, NullsBack
  <1> QED
    BY <1>3 DEF d

LEMMA BitpackBack ==
    ASSUME chunk \in Chunks, IsInt, payload = [validity |-> Validity, frame_min |-> FrameMin],
           unpacked = FrameVals
    PROVE  WithNulls([i \in 1 .. n |-> AsType(FrameSum(i))]) = values
  <1> DEFINE d == [i \in 1 .. n |-> AsType(FrameSum(i))]
  <1>1. payload.validity = Validity /\ payload.frame_min = FrameMin
    OBVIOUS
  <1>2. ASSUME NEW i \in 1 .. n, values[i] # Null PROVE d[i] = values[i]
    <2>1. PICK v \in Int : v = values[i]
      BY <1>2, IntValues
    <2>2. PICK lo \in Int : lo = FrameMin
      BY FrameFacts
    <2>3. unpacked[i] = v - lo
      BY <1>2, <2>1, <2>2, FrameValsFit
    <2>4. PICK u \in Int : u = v - lo
      OBVIOUS
    <2>5. Width \in Nat \ {0} /\ Width <= Width
      BY EncodingAssumption
    <2>6. PICK m \in Int : Signed(u, Width) = u + m * Pow2[Width]
      BY <2>5, SignedMultiple
    <2>7. PICK y : y = FrameSum(i)
      OBVIOUS
    <2>8. y = lo + (u + m * Pow2[Width])
      BY <1>1, <2>2, <2>3, <2>4, <2>6, <2>7 DEF FrameSum
    <2>9. y = v + m * Pow2[Width]
      <3>1. PICK e \in Int : e = m * Pow2[Width]
        <4>1. PICK P \in Nat : P = Pow2[Width]
          BY <2>5, Pow2Facts
        <4>2. m * P \in Int
          OBVIOUS
        <4> QED
          BY <4>1, <4>2
      <3>2. lo + (u + e) = v + e
        BY <2>4
      <3> QED
        BY <2>8, <3>1, <3>2
    <2>10. CASE chunk.type = "int"
      <3>1. v \in IntRange(IntWidth) /\ IntWidth \in Nat \ {0} /\ IntWidth <= Width
        BY <1>2, <2>1, <2>10, IntValues, EncodingAssumption
      <3>2. Signed(y, IntWidth) = v
        BY <2>9, <3>1, CastBack
      <3>3. AsType(y) = v
        BY <2>10, <3>2 DEF AsType
      <3> QED
        BY <2>1, <2>7, <3>3
    <2>11. CASE chunk.type = "bigint"
      <3>1. v \in IntRange(Width)
        BY <1>2, <2>1, <2>11, IntValues
      <3>2. Signed(y, Width) = v
        BY <2>5, <2>9, <3>1, CastBack
      <3>3. AsType(y) = v
        BY <2>11, <3>2 DEF AsType
      <3> QED
        BY <2>1, <2>7, <3>3
    <2> QED
      BY <2>10, <2>11 DEF IsInt
  <1> HIDE DEF d
  <1>3. WithNulls(d) = values
    BY <1>1, <1>2, NullsBack
  <1> QED
    BY <1>3 DEF d

-----------------------------------------------------------------------------
(* Packing.  The bits written so far are a number s: byte j of the output  *)
(* is its bits from ByteBits * (j - 1) on, and value j its bits from       *)
(* bw * (j - 1) on.                                                        *)

HasBytes(bs, s) == \A j \in 1 .. Len(bs) : bs[j] = Bits(s, ByteBits * (j - 1), ByteBits)
HasVals(vs, b, s, k) == \A j \in 1 .. k : vs[j] = Bits(s, b * (j - 1), b)

\* PackBits has packed the first i - 1 values and b - remaining bits of the
\* next one.
PackState(vs, b, m, bs, p, s) ==
    /\ bs \in Seq(Nat)
    /\ p.i \in 1 .. m + 1 /\ p.remaining \in 1 .. b /\ p.cur_bits \in 0 .. ByteBits - 1
    /\ p.i = m + 1 => p.remaining = b
    /\ ByteBits * Len(bs) + p.cur_bits = b * (p.i - 1) + (b - p.remaining)
    /\ s \in Nat /\ s < Pow2[ByteBits * Len(bs) + p.cur_bits]
    /\ HasBytes(bs, s)
    /\ p.cur = Bits(s, ByteBits * Len(bs), p.cur_bits)
    /\ HasVals(vs, b, s, p.i - 1)
    /\ p.i <= m => /\ Bits(s, b * (p.i - 1), b - p.remaining) = Bits(vs[p.i], 0, b - p.remaining)
                   /\ p.v = Bits(vs[p.i], b - p.remaining, p.remaining)

\* What one turn of the loop of PackBits makes of the output and its state.
Taken(p) == Lesser(ByteBits - p.cur_bits, p.remaining)
NewCur(p) == (p.cur + (p.v % Pow2[Taken(p)]) * Pow2[p.cur_bits]) % Pow2[ByteBits]
Full(p) == p.cur_bits + Taken(p) = ByteBits
PackedBytes(bs, p) == IF Full(p) THEN Append(bs, NewCur(p)) ELSE bs
PackNext(vs, b, m, p) ==
    [i |-> IF p.remaining = Taken(p) THEN p.i + 1 ELSE p.i,
     v |-> IF p.remaining > Taken(p) THEN p.v \div Pow2[Taken(p)]
           ELSE IF p.i < m THEN vs[p.i + 1] ELSE 0,
     remaining |-> IF p.remaining = Taken(p) THEN b ELSE p.remaining - Taken(p),
     cur |-> IF Full(p) THEN 0 ELSE NewCur(p),
     cur_bits |-> IF Full(p) THEN 0 ELSE p.cur_bits + Taken(p)]

\* A product with a number that is one greater.
LEMMA TimesNext ==
    ASSUME NEW a \in Nat, NEW k \in Nat
    PROVE  a * k \in Nat /\ a * (k + 1) = a * k + a
  OBVIOUS

\* Items before the k-th end before it begins.
LEMMA TimesBefore ==
    ASSUME NEW a \in Nat, NEW k \in Nat, NEW j \in 1 .. k
    PROVE  j - 1 \in Nat /\ a * (j - 1) \in Nat /\ a * (j - 1) + a <= a * k
  <1>1. j - 1 \in Nat /\ k - j \in Nat
    OBVIOUS
  <1>2. a * k = (a * (j - 1) + a) + a * (k - j)
    OBVIOUS
  <1>3. a * (j - 1) \in Nat /\ a * (k - j) \in Nat
    BY <1>1
  <1> QED
    BY <1>1, <1>2, <1>3

\* A piece from bit a on that ends where s ends grows by what is put above s.
Grows(s, a, c, t, x) == Bits(s + x * Pow2[a + c], a, c + t) = Bits(s, a, c) + x * Pow2[c]

LEMMA PieceGrows ==
    ASSUME NEW s \in Nat, NEW a \in Nat, NEW c \in Nat, s < Pow2[a + c],
           NEW t \in Nat, NEW x \in Nat, x < Pow2[t]
    PROVE  Grows(s, a, c, t, x)
  <1>1. PICK T \in Nat : T = a + c
    OBVIOUS
  <1>2. PICK z \in Nat : z = s + x * Pow2[T]
    BY <1>1, BitsAbove
  <1>3. Bits(z, a, c + t) = Bits(z, a, c) + Bits(z, a + c, t) * Pow2[c]
    <2>1. Splits(z, a, c, t)
      BY BitsSplit
    <2> QED
      BY <2>1 DEF Splits
  <1>4. Bits(z, a, c) = Bits(s, a, c) /\ Bits(z, T, t) = x
    <2>1. a + c <= T /\ s < Pow2[T]
      BY <1>1
    <2> QED
      BY <1>2, <2>1, BitsAbove
  <1> QED
    BY <1>1, <1>2, <1>3, <1>4 DEF Grows

\* The pieces that end before s ends stay.
LEMMA PiecesStay ==
    ASSUME NEW s \in Nat, NEW T \in Nat, s < Pow2[T], NEW x \in Nat
    PROVE  /\ \A bs \in Seq(Nat) : ByteBits * Len(bs) <= T /\ HasBytes(bs, s) =>
                                      HasBytes(bs, s + x * Pow2[T])
           /\ \A vs, b, k : b \in Nat /\ k \in Nat /\ b * k <= T /\ HasVals(vs, b, s, k) =>
                               HasVals(vs, b, s + x * Pow2[T], k)
  <1>1. PICK z \in Nat : z = s + x * Pow2[T]
    BY BitsAbove
  <1>2. \A p, w \in Nat : p + w <= T => Bits(z, p, w) = Bits(s, p, w)
    BY <1>1, BitsAbove
  <1>3. ASSUME NEW a \in Nat, NEW k \in Nat, a * k <= T, NEW j \in 1 .. k
        PROVE  Bits(z, a * (j - 1), a) = Bits(s, a * (j - 1), a)
    <2>1. a * (j - 1) \in Nat /\ a * (j - 1) + a <= a * k /\ a * k \in Nat
      BY TimesBefore, TimesNext
    <2>2. PICK e \in Nat, f \in Nat : e = a * (j - 1) /\ f = a * k
      BY <2>1
    <2>3. e + a <= T
      BY <1>3, <2>1, <2>2
    <2> QED
      BY <1>2, <2>2, <2>3
  <1>4. \A bs \in Seq(Nat) : ByteBits * Len(bs) <= T /\ HasBytes(bs, s) => HasBytes(bs, z)
    <2> SUFFICES ASSUME NEW bs \in Seq(Nat), ByteBits * Len(bs) <= T, HasBytes(bs, s)
                 PROVE  HasBytes(bs, z)
      OBVIOUS
    <2>1. PICK k \in Nat : k = Len(bs)
      OBVIOUS
    <2>2. ByteBits \in Nat
      BY EncodingAssumption
    <2>3. \A j \in 1 .. k : Bits(z, ByteBits * (j - 1), ByteBits) = Bits(s, ByteBits * (j - 1), ByteBits)
      BY <1>3, <2>1, <2>2
    <2> QED
      BY <2>1, <2>3 DEF HasBytes
  <1>5. \A vs, b, k : b \in Nat /\ k \in Nat /\ b * k <= T /\ HasVals(vs, b, s, k) => HasVals(vs, b, z, k)
    <2> SUFFICES ASSUME NEW vs, NEW b, NEW k, b \in Nat, k \in Nat, b * k <= T, HasVals(vs, b, s, k)
                 PROVE  HasVals(vs, b, z, k)
      OBVIOUS
    <2>1. \A j \in 1 .. k : Bits(z, b * (j - 1), b) = Bits(s, b * (j - 1), b)
      BY <1>3
    <2> QED
      BY <2>1 DEF HasVals
  <1> QED
    BY <1>1, <1>4, <1>5, Zenon

\* The output side of a turn: t bits x go into the current byte, which goes
\* out when it is full.
ByteBefore(bs, cb, t, s, x, z, c, bs2, cb2, cur2) ==
    /\ bs \in Seq(Nat) /\ cb \in 0 .. ByteBits - 1 /\ t \in 1 .. ByteBits - cb
    /\ s \in Nat /\ s < Pow2[ByteBits * Len(bs) + cb] /\ HasBytes(bs, s)
    /\ x \in Nat /\ x < Pow2[t]
    /\ z = s + x * Pow2[ByteBits * Len(bs) + cb]
    /\ c = (Bits(s, ByteBits * Len(bs), cb) + x * Pow2[cb]) % Pow2[ByteBits]
    /\ bs2 = IF cb + t = ByteBits THEN Append(bs, c) ELSE bs
    /\ cb2 = IF cb + t = ByteBits THEN 0 ELSE cb + t
    /\ cur2 = IF cb + t = ByteBits THEN 0 ELSE c
ByteAfter(bs, cb, t, z, bs2, cb2, cur2) ==
    /\ bs2 \in Seq(Nat) /\ cb2 \in 0 .. ByteBits - 1
    /\ ByteBits * Len(bs2) + cb2 = (ByteBits * Len(bs) + cb) + t
    /\ z \in Nat /\ z < Pow2[ByteBits * Len(bs2) + cb2]
    /\ HasBytes(bs2, z)
    /\ cur2 = Bits(z, ByteBits * Len(bs2), cb2)

LEMMA PackByte ==
    ASSUME NEW bs, NEW cb, NEW t, NEW s, NEW x, NEW z, NEW c, NEW bs2, NEW cb2, NEW cur2,
           ByteBefore(bs, cb, t, s, x, z, c, bs2, cb2, cur2)
    PROVE  ByteAfter(bs, cb, t, z, bs2, cb2, cur2)
  <1> USE DEF ByteBefore
  <1> SUFFICES /\ bs2 \in Seq(Nat) /\ cb2 \in 0 .. ByteBits - 1
               /\ ByteBits * Len(bs2) + cb2 = (ByteBits * Len(bs) + cb) + t
               /\ z \in Nat /\ z < Pow2[ByteBits * Len(bs2) + cb2]
               /\ HasBytes(bs2, z)
               /\ cur2 = Bits(z, ByteBits * Len(bs2), cb2)
    BY Zenon DEF ByteAfter
  <1>1. ByteBits \in Nat \ {0}
    BY EncodingAssumption
  <1>2. PICK k \in Nat : k = Len(bs)
    OBVIOUS
  <1>3. PICK a \in Nat : a = ByteBits * k
    BY <1>1, TimesNext
  <1>4. ByteBits * (k + 1) = a + ByteBits
    BY <1>1, <1>3, TimesNext
  <1>5. PICK T \in Nat : T = a + cb /\ T = ByteBits * Len(bs) + cb
    BY <1>2, <1>3
  <1>6. cb \in Nat /\ t \in Nat /\ cb + t \in Nat /\ cb + t <= ByteBits
    BY <1>1
  <1>7. z \in Nat /\ z < Pow2[T + t]
    BY <1>5, <1>6, BitsAbove
  <1>8. HasBytes(bs, z)
    <2>1. ByteBits * Len(bs) <= T
      BY <1>2, <1>3, <1>5, <1>6
    <2> QED
      BY <1>5, <2>1, PiecesStay
  <1>9. Bits(s, a, cb) + x * Pow2[cb] = Bits(z, a, cb + t)
    <2>1. s < Pow2[a + cb] /\ z = s + x * Pow2[a + cb]
      BY <1>5
    <2>2. Grows(s, a, cb, t, x)
      BY <1>6, <2>1, PieceGrows
    <2> QED
      BY <2>1, <2>2, Zenon DEF Grows
  <1>10. c = Bits(z, a, cb + t)
    <2>1. PICK y \in Nat : y = Bits(z, a, cb + t) /\ y < Pow2[cb + t]
      BY <1>6, <1>7, BitsRange
    <2>2. Pow2[cb + t] <= Pow2[ByteBits]
      BY <1>1, <1>6, Pow2Mono
    <2>3. PICK P \in Nat \ {0}, Q \in Nat : P = Pow2[ByteBits] /\ Q = Pow2[cb + t]
      BY <1>1, <1>6, Pow2Facts
    <2>4. y = P * 0 + y /\ y \in 0 .. P - 1
      <3> HIDE DEF ByteBefore
      <3>1. y < Q /\ Q <= P
        BY <2>1, <2>2, <2>3, Zenon
      <3> QED
        BY <2>3, <3>1
    <2>5. y % P = y
      <3>1. y \in Int /\ 0 \in Int
        OBVIOUS
      <3> QED
        BY <2>4, <3>1, DivModUnique, Zenon
    <2>6. c = y % P
      BY <1>2, <1>3, <1>9, <2>1, <2>3
    <2> QED
      BY <2>1, <2>5, <2>6
  <1>11. CASE cb + t = ByteBits
    <2>1. bs2 = Append(bs, c) /\ cb2 = 0 /\ cur2 = 0
      BY <1>11
    <2>2. c \in Nat
      <3>1. Bits(z, a, cb + t) \in Nat
        BY <1>6, <1>7, BitsRange, Zenon
      <3> QED
        BY <1>10, <3>1, Zenon
    <2>3. /\ bs2 \in Seq(Nat) /\ Len(bs2) = k + 1 /\ bs2[k + 1] = c
          /\ \A j \in 1 .. k : bs2[j] = bs[j]
      BY <1>2, <2>1, <2>2
    <2>4. ByteBits * Len(bs2) = T + t
      BY <1>4, <1>5, <1>6, <1>11, <2>3
    <2>5. HasBytes(bs2, z)
      <3> SUFFICES ASSUME NEW j \in 1 .. k + 1 PROVE bs2[j] = Bits(z, ByteBits * (j - 1), ByteBits)
        BY <2>3 DEF HasBytes
      <3>1. CASE j = k + 1
        <4>1. j - 1 = k
          BY <3>1
        <4> QED
          BY <1>3, <1>10, <1>11, <2>3, <3>1, <4>1
      <3>2. CASE j # k + 1
        <4>1. j \in 1 .. k
          BY <3>2
        <4> QED
          BY <1>2, <1>8, <2>3, <4>1 DEF HasBytes
      <3> QED
        BY <3>1, <3>2
    <2>6. T + t \in Nat /\ (T + t) + 0 = T + t
      BY <1>6
    <2>7. Bits(z, T + t, 0) = 0
      BY <1>7, <2>6, BitsNone
    <2>8. 0 \in 0 .. ByteBits - 1
      BY <1>1
    <2> QED
      BY <1>5, <1>7, <2>1, <2>3, <2>4, <2>5, <2>6, <2>7, <2>8
  <1>12. CASE cb + t # ByteBits
    <2>1. bs2 = bs /\ cb2 = cb + t /\ cur2 = c
      BY <1>12
    <2>2. cb2 \in 0 .. ByteBits - 1
      BY <1>1, <1>6, <1>12, <2>1
    <2>3. ByteBits * Len(bs2) + cb2 = T + t
      BY <1>2, <1>3, <1>5, <1>6, <2>1
    <2>4. cur2 = Bits(z, ByteBits * Len(bs2), cb2)
      BY <1>2, <1>3, <1>10, <2>1
    <2> QED
      BY <1>5, <1>7, <1>8, <2>1, <2>2, <2>3, <2>4
  <1> QED
    BY <1>11, <1>12

\* The input side: the next t bits of value i.
ValueBefore(vs, b, m, i, rem, t, T, s, v, x, z, i2, rem2, v2) ==
    /\ m \in Nat /\ b \in Nat \ {0} /\ vs \in [1 .. m -> Nat] /\ \A j \in 1 .. m : vs[j] < Pow2[b]
    /\ i \in 1 .. m /\ rem \in 1 .. b /\ t \in 1 .. rem
    /\ T \in Nat /\ T = b * (i - 1) + (b - rem) /\ s \in Nat /\ s < Pow2[T]
    /\ HasVals(vs, b, s, i - 1)
    /\ Bits(s, b * (i - 1), b - rem) = Bits(vs[i], 0, b - rem)
    /\ v = Bits(vs[i], b - rem, rem)
    /\ x = v % Pow2[t] /\ z = s + x * Pow2[T]
    /\ i2 = IF rem = t THEN i + 1 ELSE i
    /\ rem2 = IF rem = t THEN b ELSE rem - t
    /\ v2 = IF rem > t THEN v \div Pow2[t] ELSE IF i < m THEN vs[i + 1] ELSE 0
ValueAfter(vs, b, m, t, T, x, z, i2, rem2, v2) ==
    /\ x \in Nat /\ x < Pow2[t]
    /\ i2 \in 1 .. m + 1 /\ rem2 \in 1 .. b /\ (i2 = m + 1 => rem2 = b)
    /\ T + t = b * (i2 - 1) + (b - rem2)
    /\ HasVals(vs, b, z, i2 - 1)
    /\ i2 <= m => /\ Bits(z, b * (i2 - 1), b - rem2) = Bits(vs[i2], 0, b - rem2)
                  /\ v2 = Bits(vs[i2], b - rem2, rem2)

LEMMA PackValue ==
    ASSUME NEW vs, NEW b, NEW m, NEW i, NEW rem, NEW t, NEW T, NEW s, NEW v, NEW x, NEW z,
           NEW i2, NEW rem2, NEW v2,
           ValueBefore(vs, b, m, i, rem, t, T, s, v, x, z, i2, rem2, v2)
    PROVE  ValueAfter(vs, b, m, t, T, x, z, i2, rem2, v2)
  <1> USE DEF ValueBefore
  <1> SUFFICES /\ x \in Nat /\ x < Pow2[t]
               /\ i2 \in 1 .. m + 1 /\ rem2 \in 1 .. b /\ (i2 = m + 1 => rem2 = b)
               /\ T + t = b * (i2 - 1) + (b - rem2)
               /\ HasVals(vs, b, z, i2 - 1)
               /\ i2 <= m => /\ Bits(z, b * (i2 - 1), b - rem2) = Bits(vs[i2], 0, b - rem2)
                             /\ v2 = Bits(vs[i2], b - rem2, rem2)
    BY Zenon DEF ValueAfter
  <1>1. PICK y \in Nat : y = vs[i] /\ y < Pow2[b]
    OBVIOUS
  <1>2. PICK d \in Nat : d = b - rem
    OBVIOUS
  <1>3. t \in Nat /\ rem \in Nat /\ t <= rem /\ i - 1 \in Nat /\ (i - 1) + 1 = i /\ rem - t \in Nat
    OBVIOUS
  <1>4. PICK a \in Nat : a = b * (i - 1)
    BY <1>3, TimesNext
  <1>5. T = a + d /\ b * i = a + b
    BY <1>2, <1>3, <1>4, TimesNext
  <1>6. x = Bits(y, d, t) /\ v \div Pow2[t] = Bits(y, d + t, rem - t)
    BY <1>1, <1>2, <1>3, BitsCut
  <1>7. x \in Nat /\ x < Pow2[t]
    <2>1. Bits(y, d, t) \in Nat /\ Bits(y, d, t) < Pow2[t]
      BY <1>3, BitsRange, Zenon
    <2> QED
      BY <1>6, <2>1, Zenon
  <1>8. z \in Nat
    BY <1>7, BitsAbove
  <1>9. HasVals(vs, b, z, i - 1)
    <2>1. b \in Nat /\ b * (i - 1) <= T
      BY <1>4, <1>5
    <2> QED
      BY <1>3, <1>7, <2>1, PiecesStay
  <1>10. Bits(z, a, d + t) = Bits(y, 0, d + t)
    <2>1. Bits(z, a, d + t) = Bits(s, a, d) + x * Pow2[d]
      <3>1. s < Pow2[a + d] /\ z = s + x * Pow2[a + d]
        BY <1>5
      <3>2. Grows(s, a, d, t, x)
        BY <1>3, <1>7, <3>1, PieceGrows
      <3> QED
        BY <3>1, <3>2, Zenon DEF Grows
    <2>2. Bits(y, 0, d + t) = Bits(y, 0, d) + Bits(y, 0 + d, t) * Pow2[d]
      <3>1. 0 \in Nat
        OBVIOUS
      <3>2. Splits(y, 0, d, t)
        BY <1>3, <3>1, BitsSplit
      <3> QED
        BY <3>2 DEF Splits
    <2>3. 0 + d = d
      OBVIOUS
    <2>4. Bits(s, a, d) = Bits(y, 0, d)
      BY <1>1, <1>2, <1>4
    <2> QED
      BY <1>6, <2>1, <2>2, <2>3, <2>4
  <1>11. CASE rem = t
    <2>1. i2 = i + 1 /\ rem2 = b /\ i2 - 1 = i /\ b - rem2 = 0 /\ d + t = b
      BY <1>2, <1>11
    <2>2. T + t = b * (i2 - 1) + (b - rem2)
      BY <1>2, <1>3, <1>5, <2>1
    <2>3. vs[i] = Bits(z, b * (i - 1), b)
      <3>1. Bits(y, 0, b) = y
        BY <1>1, BitsAll
      <3> QED
        BY <1>1, <1>4, <1>10, <2>1, <3>1
    <2>4. HasVals(vs, b, z, i)
      <3> SUFFICES ASSUME NEW j \in 1 .. i PROVE vs[j] = Bits(z, b * (j - 1), b)
        BY DEF HasVals
      <3>1. j = i \/ j \in 1 .. i - 1
        OBVIOUS
      <3> QED
        BY <1>9, <2>3, <3>1 DEF HasVals
    <2>5. ASSUME i2 <= m
          PROVE  /\ Bits(z, b * (i2 - 1), b - rem2) = Bits(vs[i2], 0, b - rem2)
                 /\ v2 = Bits(vs[i2], b - rem2, rem2)
      <3>1. i + 1 \in 1 .. m /\ i < m /\ ~ (rem > t)
        BY <1>11, <2>1, <2>5
      <3>2. PICK u \in Nat : u = vs[i + 1] /\ u < Pow2[b]
        BY <3>1
      <3>3. v2 = u
        BY <3>1, <3>2
      <3>4. Bits(u, 0, b) = u
        BY <3>2, BitsAll
      <3>5. b * i \in Nat
        BY <1>5
      <3>6. Bits(z, b * i, 0) = 0 /\ Bits(u, 0, 0) = 0
        BY <1>8, <3>5, BitsNone
      <3> QED
        BY <2>1, <3>2, <3>3, <3>4, <3>6
    <2>6. i2 \in 1 .. m + 1 /\ rem2 \in 1 .. b
      BY <2>1
    <2> QED
      BY <1>7, <2>1, <2>2, <2>4, <2>5, <2>6
  <1>12. CASE rem # t
    <2>1. i2 = i /\ rem2 = rem - t /\ rem > t /\ b - rem2 = d + t /\ rem2 \in 1 .. b /\ i2 \in 1 .. m + 1 /\ i2 # m + 1
      BY <1>2, <1>3, <1>12
    <2>2. v2 = v \div Pow2[t]
      BY <2>1
    <2>3. T + t = b * (i2 - 1) + (b - rem2)
      BY <1>3, <1>4, <1>5, <2>1
    <2> QED
      BY <1>1, <1>4, <1>6, <1>7, <1>9, <1>10, <2>1, <2>2, <2>3
  <1> QED
    BY <1>11, <1>12

LEMMA PackTypes ==
    ASSUME NEW vs, NEW b, NEW m, NEW bs, NEW p, NEW s, PackState(vs, b, m, bs, p, s)
    PROVE  /\ bs \in Seq(Nat) /\ Len(bs) \in Nat /\ s \in Nat
           /\ p.i \in 1 .. m + 1 /\ p.remaining \in 1 .. b /\ p.cur_bits \in 0 .. ByteBits - 1
  <1>1. /\ bs \in Seq(Nat) /\ s \in Nat
        /\ p.i \in 1 .. m + 1 /\ p.remaining \in 1 .. b /\ p.cur_bits \in 0 .. ByteBits - 1
    BY Zenon DEF PackState
  <1>2. Len(bs) \in Nat
    BY <1>1
  <1> QED
    BY <1>1, <1>2, Zenon

\* PackBits begins.
LEMMA PackStart ==
    ASSUME NEW m \in Nat, NEW b \in Nat \ {0}, NEW vs \in [1 .. m -> Nat], \A j \in 1 .. m : vs[j] < Pow2[b],
           NEW p, p.i = 1, p.v = IF 1 <= m THEN vs[1] ELSE 0, p.remaining = b, p.cur = 0, p.cur_bits = 0
    PROVE  PackState(vs, b, m, <<>>, p, 0)
  <1>1. ByteBits \in Nat \ {0}
    BY EncodingAssumption
  <1>2. ByteBits * 0 = 0 /\ b * 0 = 0 /\ p.i - 1 = 0 /\ b - p.remaining = 0
    BY <1>1
  <1>3. \A y \in Nat : Bits(y, 0, 0) = 0
    BY BitsNone
  <1>4. <<>> \in Seq(Nat) /\ Len(<<>>) = 0
    OBVIOUS
  <1>5. ByteBits * Len(<<>>) + p.cur_bits = 0
    BY <1>2, <1>4
  <1>6. 0 < Pow2[0]
    BY Pow2Facts
  <1>7. HasBytes(<<>>, 0) /\ HasVals(vs, b, 0, 0)
    BY <1>4 DEF HasBytes, HasVals
  <1>8. p.i <= m => /\ Bits(0, 0, 0) = Bits(vs[p.i], 0, 0)
                    /\ p.v = Bits(vs[p.i], 0, b)
    <2> SUFFICES ASSUME 1 <= m PROVE Bits(0, 0, 0) = Bits(vs[1], 0, 0) /\ p.v = Bits(vs[1], 0, b)
      OBVIOUS
    <2>1. PICK y \in Nat : y = vs[1] /\ y < Pow2[b]
      OBVIOUS
    <2>2. Bits(y, 0, b) = y
      BY <2>1, BitsAll
    <2> QED
      BY <1>3, <2>1, <2>2
  <1>9. p.i \in 1 .. m + 1 /\ p.remaining \in 1 .. b /\ p.cur_bits \in 0 .. ByteBits - 1
    BY <1>1
  <1>10. p.cur = Bits(0, ByteBits * Len(<<>>), p.cur_bits)
    BY <1>2, <1>3, <1>4
  <1> QED
    BY <1>2, <1>4, <1>5, <1>6, <1>7, <1>8, <1>9, <1>10 DEF PackState

\* One turn of its loop.
LEMMA PackStep ==
    ASSUME NEW m \in Nat, NEW b \in Nat \ {0}, NEW vs \in [1 .. m -> Nat], \A j \in 1 .. m : vs[j] < Pow2[b],
           NEW bs, NEW p, NEW s, PackState(vs, b, m, bs, p, s), p.i <= m
    PROVE  \E z : PackState(vs, b, m, PackedBytes(bs, p), PackNext(vs, b, m, p), z)
  <1>1. ByteBits \in Nat \ {0}
    BY EncodingAssumption
  <1>2. PICK i \in 1 .. m, rem \in 1 .. b, cb \in 0 .. ByteBits - 1 :
           i = p.i /\ rem = p.remaining /\ cb = p.cur_bits
    <2>1. p.i \in 1 .. m + 1 /\ p.remaining \in 1 .. b /\ p.cur_bits \in 0 .. ByteBits - 1
      BY PackTypes, Zenon
    <2>2. p.i \in 1 .. m
      BY <2>1
    <2> QED
      BY <2>1, <2>2, Zenon
  <1>3. PICK t \in Nat : t = Taken(p) /\ t \in 1 .. ByteBits - cb /\ t \in 1 .. rem
    <2>1. PICK room \in Nat \ {0} : room = ByteBits - cb
      BY <1>1
    <2>2. Taken(p) = IF room < rem THEN room ELSE rem
      BY <1>2, <2>1 DEF Taken, Lesser
    <2> QED
      BY <2>1, <2>2
  <1>4. bs \in Seq(Nat) /\ s \in Nat
    BY PackTypes, Zenon
  <1>5. PICK T \in Nat : T = ByteBits * Len(bs) + cb /\ T = b * (i - 1) + (b - rem)
    <2>1. PICK k \in Nat : k = Len(bs)
      BY <1>4
    <2>2. PICK a \in Nat : a = ByteBits * k
      BY <1>1, TimesNext
    <2> QED
      BY <1>2, <2>1, <2>2 DEF PackState
  <1>6. s < Pow2[T] /\ HasBytes(bs, s) /\ p.cur = Bits(s, ByteBits * Len(bs), cb)
    BY <1>2, <1>5 DEF PackState
  <1>7. /\ HasVals(vs, b, s, i - 1)
        /\ Bits(s, b * (i - 1), b - rem) = Bits(vs[i], 0, b - rem)
        /\ p.v = Bits(vs[i], b - rem, rem)
    BY <1>2 DEF PackState
  <1>8. PICK x, z : x = p.v % Pow2[t] /\ z = s + x * Pow2[T]
    OBVIOUS
  <1>9. PICK p2, bs2 : p2 = PackNext(vs, b, m, p) /\ bs2 = PackedBytes(bs, p)
    OBVIOUS
  <1>10. /\ p2.i = IF rem = t THEN i + 1 ELSE i
         /\ p2.v = IF rem > t THEN p.v \div Pow2[t] ELSE IF i < m THEN vs[i + 1] ELSE 0
         /\ p2.remaining = IF rem = t THEN b ELSE rem - t
         /\ p2.cur = IF cb + t = ByteBits THEN 0 ELSE NewCur(p)
         /\ p2.cur_bits = IF cb + t = ByteBits THEN 0 ELSE cb + t
    BY <1>2, <1>3, <1>9 DEF PackNext, Full
  <1>11. PICK v, i2, rem2, v2 : v = p.v /\ i2 = p2.i /\ rem2 = p2.remaining /\ v2 = p2.v
    OBVIOUS
  <1>12. ValueAfter(vs, b, m, t, T, x, z, i2, rem2, v2)
    <2>1. ValueBefore(vs, b, m, i, rem, t, T, s, v, x, z, i2, rem2, v2)
      BY <1>3, <1>4, <1>5, <1>6, <1>7, <1>8, <1>10, <1>11 DEF ValueBefore
    <2> QED
      BY <2>1, PackValue, Zenon
  <1>13. NewCur(p) = (Bits(s, ByteBits * Len(bs), cb) + x * Pow2[cb]) % Pow2[ByteBits]
    BY <1>2, <1>3, <1>6, <1>8 DEF NewCur
  <1>14. bs2 = IF cb + t = ByteBits THEN Append(bs, NewCur(p)) ELSE bs
    BY <1>2, <1>3, <1>9 DEF PackedBytes, Full
  <1>15. PICK c, cb2, cur2 : c = NewCur(p) /\ cb2 = p2.cur_bits /\ cur2 = p2.cur
    OBVIOUS
  <1>16. ByteAfter(bs, cb, t, z, bs2, cb2, cur2)
    <2>1. x \in Nat /\ x < Pow2[t]
      BY <1>12 DEF ValueAfter
    <2>2. ByteBefore(bs, cb, t, s, x, z, c, bs2, cb2, cur2)
      BY <1>3, <1>4, <1>5, <1>6, <1>8, <1>10, <1>13, <1>14, <1>15, <2>1 DEF ByteBefore
    <2> QED
      BY <2>2, PackByte, Zenon
  <1>17. PackState(vs, b, m, bs2, p2, z)
    BY <1>5, <1>11, <1>12, <1>15, <1>16 DEF PackState, ValueAfter, ByteAfter
  <1> QED
    BY <1>9, <1>17

-----------------------------------------------------------------------------
(* Unpacking.                                                              *)

\* UnpackBits has read the first values and the next got bits of s, and has
\* cur_bits more of them in cur.
UnpackState(vs, b, m, bs, r, us, s) ==
    /\ s \in Nat /\ bs \in Seq(Nat) /\ HasBytes(bs, s) /\ HasVals(vs, b, s, m)
    /\ b * m <= ByteBits * Len(bs) /\ ByteBits * Len(bs) < b * m + ByteBits
    /\ us \in Seq(Nat) /\ Len(us) <= m /\ \A j \in 1 .. Len(us) : us[j] = vs[j]
    /\ r.byte_idx \in Nat /\ r.cur_bits \in 0 .. ByteBits - 1 /\ r.got \in 0 .. b - 1
    /\ Len(us) = m => r.got = 0
    /\ ByteBits * r.byte_idx = (b * Len(us) + r.got) + r.cur_bits
    /\ r.cur = Bits(s, b * Len(us) + r.got, r.cur_bits)
    /\ r.val = Bits(s, b * Len(us), r.got)

\* What is packed can be unpacked.
LEMMA PackFinish ==
    ASSUME NEW m \in Nat, NEW b \in Nat \ {0}, NEW vs \in [1 .. m -> Nat],
           NEW bs, NEW p, NEW s, PackState(vs, b, m, bs, p, s), p.i > m,
           NEW bs2, bs2 = IF p.cur_bits > 0 THEN Append(bs, p.cur) ELSE bs
    PROVE  UnpackState(vs, b, m, bs2, AtStart, <<>>, s)
  <1>1. ByteBits \in Nat \ {0}
    BY EncodingAssumption
  <1>2. p.i = m + 1 /\ p.remaining = b /\ p.i - 1 = m
    <2>1. PICK x \in 1 .. m + 1 : x = p.i /\ x > m
      BY PackTypes, Zenon
    <2>2. x = m + 1 /\ x - 1 = m
      BY <2>1
    <2>3. p.i = m + 1 => p.remaining = b
      BY Zenon DEF PackState
    <2> QED
      BY <2>1, <2>2, <2>3, Zenon
  <1>3. bs \in Seq(Nat) /\ s \in Nat /\ HasBytes(bs, s) /\ HasVals(vs, b, s, m)
    BY <1>2 DEF PackState
  <1>4. PICK k \in Nat : k = Len(bs)
    BY <1>3
  <1>5. PICK a \in Nat, e \in Nat : a = ByteBits * k /\ e = b * m
    BY <1>1, TimesNext
  <1>6. ByteBits * (k + 1) = a + ByteBits
    BY <1>1, <1>5, TimesNext
  <1>7. PICK cb \in 0 .. ByteBits - 1 : cb = p.cur_bits
    BY PackTypes, Zenon
  <1>8. a + cb = e /\ s < Pow2[a + cb] /\ p.cur = Bits(s, a, cb)
    <2>1. b - b = 0
      OBVIOUS
    <2> QED
      BY <1>2, <1>4, <1>5, <1>7, <2>1 DEF PackState
  <1>9. bs2 \in Seq(Nat) /\ HasBytes(bs2, s) /\ e <= ByteBits * Len(bs2) /\ ByteBits * Len(bs2) < e + ByteBits
    <2>1. CASE cb = 0
      <3>1. bs2 = bs
        BY <1>7, <2>1
      <3> QED
        BY <1>1, <1>3, <1>4, <1>5, <1>8, <2>1, <3>1
    <2>2. CASE cb # 0
      <3>1. bs2 = Append(bs, p.cur)
        BY <1>7, <2>2
      <3>2. p.cur \in Nat
        <4>1. cb \in Nat
          OBVIOUS
        <4>2. Bits(s, a, cb) \in Nat
          BY <1>3, <4>1, BitsRange, Zenon
        <4> QED
          BY <1>8, <4>2
      <3>3. /\ bs2 \in Seq(Nat) /\ Len(bs2) = k + 1 /\ bs2[k + 1] = p.cur
            /\ \A j \in 1 .. k : bs2[j] = bs[j]
        BY <1>3, <1>4, <3>1, <3>2
      <3>4. p.cur = Bits(s, a, ByteBits)
        <4>1. cb \in Nat /\ cb <= ByteBits /\ ByteBits \in Nat
          BY <1>1
        <4> QED
          BY <1>3, <1>8, <4>1, BitsHigh
      <3>5. HasBytes(bs2, s)
        <4> SUFFICES ASSUME NEW j \in 1 .. k + 1 PROVE bs2[j] = Bits(s, ByteBits * (j - 1), ByteBits)
          BY <3>3 DEF HasBytes
        <4>1. CASE j = k + 1
          <5>1. j - 1 = k
            BY <4>1
          <5> QED
            BY <1>5, <3>3, <3>4, <4>1, <5>1
        <4>2. CASE j # k + 1
          <5>1. j \in 1 .. k
            BY <4>2
          <5> QED
            BY <1>3, <1>4, <3>3, <5>1 DEF HasBytes
        <4> QED
          BY <4>1, <4>2
      <3>6. e <= a + ByteBits /\ a + ByteBits < e + ByteBits
        BY <1>1, <1>8, <2>2
      <3> QED
        BY <1>6, <3>3, <3>5, <3>6
    <2> QED
      BY <2>1, <2>2
  <1>10. PICK r, us : r = AtStart /\ us = <<>>
    OBVIOUS
  <1>11. r.byte_idx = 0 /\ r.cur = 0 /\ r.cur_bits = 0 /\ r.val = 0 /\ r.got = 0
    BY <1>10 DEF AtStart
  <1>12. us \in Seq(Nat) /\ Len(us) = 0 /\ b * Len(us) = 0 /\ ByteBits * r.byte_idx = 0
    BY <1>1, <1>10, <1>11
  <1>13. r.cur = Bits(s, b * Len(us) + r.got, r.cur_bits) /\ r.val = Bits(s, b * Len(us), r.got)
    <2>1. Bits(s, 0, 0) = 0 /\ 0 + 0 = 0
      BY <1>3, BitsNone
    <2> QED
      BY <1>11, <1>12, <2>1
  <1>14. 0 \in 0 .. ByteBits - 1 /\ 0 \in 0 .. b - 1 /\ 0 \in Nat /\ 0 <= m /\ (0 + 0) + 0 = 0
    BY <1>1
  <1>15. UnpackState(vs, b, m, bs2, r, us, s)
    BY <1>3, <1>5, <1>9, <1>11, <1>12, <1>13, <1>14 DEF UnpackState
  <1> QED
    BY <1>10, <1>15

LEMMA UnpackTypes ==
    ASSUME NEW vs, NEW b, NEW m, NEW bs, NEW r, NEW us, NEW s, UnpackState(vs, b, m, bs, r, us, s)
    PROVE  /\ bs \in Seq(Nat) /\ Len(bs) \in Nat /\ us \in Seq(Nat) /\ Len(us) \in Nat
           /\ r.byte_idx \in Nat /\ r.cur_bits \in 0 .. ByteBits - 1 /\ r.got \in 0 .. b - 1
  <1>1. /\ bs \in Seq(Nat) /\ us \in Seq(Nat)
        /\ r.byte_idx \in Nat /\ r.cur_bits \in 0 .. ByteBits - 1 /\ r.got \in 0 .. b - 1
    BY Zenon DEF UnpackState
  <1>2. Len(bs) \in Nat /\ Len(us) \in Nat
    BY <1>1
  <1> QED
    BY <1>1, <1>2, Zenon

\* Whenever UnpackBits needs a byte there is one.
LEMMA UnpackHasByte ==
    ASSUME NEW m \in Nat, NEW b \in Nat \ {0}, NEW vs, NEW bs, NEW r, NEW us, NEW s,
           UnpackState(vs, b, m, bs, r, us, s), Len(us) < m, r.cur_bits = 0
    PROVE  r.byte_idx < Len(bs)
  <1>1. ByteBits \in Nat \ {0}
    BY EncodingAssumption
  <1>2. PICK k \in Nat, q \in Nat, g \in 0 .. b - 1, e \in Nat :
           k = Len(us) /\ q = r.byte_idx /\ g = r.got /\ e = Len(bs)
    BY UnpackTypes, Zenon
  <1>3. b * m <= ByteBits * e /\ ByteBits * q = (b * k + g) + 0
    BY <1>2 DEF UnpackState
  <1>4. b * k \in Nat /\ b * k + b <= b * m
    <2>1. k + 1 \in 1 .. m /\ (k + 1) - 1 = k
      BY <1>2
    <2> QED
      BY <2>1, TimesBefore
  <1>5. PICK x \in Nat, y \in Nat, z \in Nat, w \in Nat :
           x = b * k /\ y = b * m /\ z = ByteBits * e /\ w = ByteBits * q
    BY <1>1, <1>4, TimesNext
  <1>6. w < z
    BY <1>3, <1>4, <1>5
  <1>7. CASE e <= q
    <2>1. PICK d \in Nat : q = e + d
      BY <1>7
    <2>2. ByteBits * q = ByteBits * e + ByteBits * d /\ ByteBits * d \in Nat
      BY <1>1, <2>1
    <2> QED
      BY <1>5, <1>6, <2>2
  <1> QED
    BY <1>2, <1>7

\* What one turn of the loop of UnpackBits makes of its state and the values.
CurBits(bs, r) == IF r.cur_bits = 0 THEN bs[r.byte_idx + 1] ELSE r.cur
Avail(r) == IF r.cur_bits = 0 THEN ByteBits ELSE r.cur_bits
BitsTaken(b, r) == Lesser(Avail(r), b - r.got)
NewVal(b, bs, r) == Unsigned(r.val + (CurBits(bs, r) % Pow2[BitsTaken(b, r)]) * Pow2[r.got])
Complete(b, r) == r.got + BitsTaken(b, r) = b
UnpackNext(b, bs, r) ==
    [byte_idx |-> IF r.cur_bits = 0 THEN r.byte_idx + 1 ELSE r.byte_idx,
     cur |-> CurBits(bs, r) \div Pow2[BitsTaken(b, r)], cur_bits |-> Avail(r) - BitsTaken(b, r),
     val |-> IF Complete(b, r) THEN 0 ELSE NewVal(b, bs, r),
     got |-> IF Complete(b, r) THEN 0 ELSE r.got + BitsTaken(b, r)]
UnpackedNext(b, bs, r, us) == IF Complete(b, r) THEN Append(us, NewVal(b, bs, r)) ELSE us

\* The current byte, a new one where the last is used up: the next bits of s.
LEMMA UnpackFetch ==
    ASSUME NEW m \in Nat, NEW b \in Nat \ {0}, NEW vs, NEW bs, NEW r, NEW us, NEW s,
           UnpackState(vs, b, m, bs, r, us, s), r.cur_bits = 0 => r.byte_idx < Len(bs)
    PROVE  /\ Avail(r) \in 1 .. ByteBits
           /\ CurBits(bs, r) = Bits(s, b * Len(us) + r.got, Avail(r))
           /\ ByteBits * UnpackNext(b, bs, r).byte_idx = (b * Len(us) + r.got) + Avail(r)
           /\ UnpackNext(b, bs, r).byte_idx \in Nat
  <1>1. ByteBits \in Nat \ {0}
    BY EncodingAssumption
  <1>2. PICK k \in Nat, q \in Nat, g \in 0 .. b - 1, e \in Nat, cb \in 0 .. ByteBits - 1 :
           k = Len(us) /\ q = r.byte_idx /\ g = r.got /\ e = Len(bs) /\ cb = r.cur_bits
    BY UnpackTypes, Zenon
  <1>3. PICK p \in Nat : p = b * k + g
    BY TimesNext
  <1>4. PICK c : c = r.cur /\ ByteBits * q = p + cb /\ c = Bits(s, p, cb)
    BY <1>2, <1>3 DEF UnpackState
  <1>5. PICK q2, c2, a : /\ q2 = UnpackNext(b, bs, r).byte_idx /\ c2 = CurBits(bs, r) /\ a = Avail(r)
    OBVIOUS
  <1>6. q2 = IF cb = 0 THEN q + 1 ELSE q
    BY <1>2, <1>5 DEF UnpackNext
  <1>7. c2 = (IF cb = 0 THEN bs[q + 1] ELSE c) /\ a = (IF cb = 0 THEN ByteBits ELSE cb)
    BY <1>2, <1>4, <1>5 DEF CurBits, Avail
  <1>8. a \in 1 .. ByteBits /\ c2 = Bits(s, p, a) /\ ByteBits * q2 = p + a /\ q2 \in Nat
    <2>1. CASE cb = 0
      <3>1. q + 1 \in 1 .. Len(bs) /\ (q + 1) - 1 = q /\ p + cb = p
        BY <1>2, <2>1
      <3>2. bs[q + 1] = Bits(s, ByteBits * q, ByteBits)
        <4>1. HasBytes(bs, s)
          BY Zenon DEF UnpackState
        <4>2. bs[q + 1] = Bits(s, ByteBits * ((q + 1) - 1), ByteBits)
          BY <3>1, <4>1, Zenon DEF HasBytes
        <4> QED
          BY <3>1, <4>2
      <3>3. ByteBits * (q + 1) = ByteBits * q + ByteBits
        BY <1>1, TimesNext
      <3>4. ByteBits \in 1 .. ByteBits
        BY <1>1
      <3> QED
        BY <1>4, <1>6, <1>7, <2>1, <3>1, <3>2, <3>3, <3>4
    <2>2. CASE cb # 0
      <3>1. cb \in 1 .. ByteBits
        BY <1>1, <2>2
      <3> QED
        BY <1>4, <1>6, <1>7, <2>2, <3>1
    <2> QED
      BY <2>1, <2>2
  <1> QED
    BY <1>2, <1>3, <1>5, <1>8

\* The value so far and the bits that are added to it.
TakesBits(b, s, a, g, v, t, c) ==
    /\ t \in 1 .. v /\ t \in 1 .. b - g
    /\ c \div Pow2[t] = Bits(s, (a + g) + t, v - t)
    /\ Unsigned(Bits(s, a, g) + (c % Pow2[t]) * Pow2[g]) = Bits(s, a, g + t)
    /\ Bits(s, a, g + t) \in Nat

LEMMA UnpackValue ==
    ASSUME NEW b \in Nat \ {0}, b <= Width, NEW s \in Nat, NEW a \in Nat, NEW g \in 0 .. b - 1,
           NEW v \in 1 .. ByteBits, NEW t, t = Lesser(v, b - g),
           NEW c, c = Bits(s, a + g, v)
    PROVE  TakesBits(b, s, a, g, v, t, c)
  <1>1. ByteBits \in Nat \ {0} /\ Width \in Nat
    BY EncodingAssumption
  <1>2. PICK h \in Nat \ {0} : h = b - g
    OBVIOUS
  <1>3. v \in Nat \ {0}
    BY <1>1
  <1>4. t = IF v < h THEN v ELSE h
    BY <1>2 DEF Lesser
  <1>5. t \in Nat \ {0} /\ t <= v /\ t <= h
    BY <1>3, <1>4
  <1>6. t \in 1 .. v /\ t \in 1 .. b - g
    BY <1>2, <1>3, <1>5
  <1>7. g \in Nat /\ a + g \in Nat /\ g + t \in Nat /\ g + t <= b /\ g + t <= Width
    BY <1>1, <1>2, <1>5
  <1>8. c % Pow2[t] = Bits(s, a + g, t) /\ c \div Pow2[t] = Bits(s, (a + g) + t, v - t)
    <2>1. PICK p \in Nat, w \in Nat, u \in Nat : p = a + g /\ w = v /\ u = t /\ u <= w
      BY <1>3, <1>5, <1>7
    <2>2. Bits(s, p, w) % Pow2[u] = Bits(s, p, u) /\ Bits(s, p, w) \div Pow2[u] = Bits(s, p + u, w - u)
      BY <2>1, BitsCut
    <2> QED
      BY <2>1, <2>2
  <1>9. Bits(s, a, g + t) = Bits(s, a, g) + Bits(s, a + g, t) * Pow2[g]
    <2>1. Splits(s, a, g, t)
      BY <1>5, <1>7, BitsSplit
    <2> QED
      BY <2>1, Zenon DEF Splits
  <1>10. PICK y \in Nat : y = Bits(s, a, g + t) /\ y < Pow2[g + t]
    BY <1>7, BitsRange
  <1>11. y < Pow2[Width]
    <2>1. Pow2[g + t] <= Pow2[Width]
      BY <1>1, <1>7, Pow2Mono
    <2>2. PICK P \in Nat, Q \in Nat : P = Pow2[g + t] /\ Q = Pow2[Width]
      BY <1>1, <1>7, Pow2Facts
    <2> QED
      BY <1>10, <2>1, <2>2
  <1>12. Unsigned(y) = y
    <2>1. y \in Int
      OBVIOUS
    <2> QED
      BY <1>11, <2>1, UnsignedFacts
  <1> QED
    BY <1>6, <1>8, <1>9, <1>10, <1>12 DEF TakesBits

\* One turn of its loop.
LEMMA UnpackStep ==
    ASSUME NEW m \in Nat, NEW b \in Nat \ {0}, b <= Width, NEW vs, NEW bs, NEW r, NEW us, NEW s,
           UnpackState(vs, b, m, bs, r, us, s), Len(us) < m
    PROVE  UnpackState(vs, b, m, bs, UnpackNext(b, bs, r), UnpackedNext(b, bs, r, us), s)
  <1>1. ByteBits \in Nat \ {0}
    BY EncodingAssumption
  <1>2. PICK k \in Nat, g \in 0 .. b - 1 : k = Len(us) /\ g = r.got
    BY UnpackTypes, Zenon
  <1>3. PICK a \in Nat : a = b * k /\ b * (k + 1) = a + b
    BY TimesNext
  <1>4. PICK r2, us2 : r2 = UnpackNext(b, bs, r) /\ us2 = UnpackedNext(b, bs, r, us)
    OBVIOUS
  <1>5. PICK c, t, v : v \in 1 .. ByteBits /\ v = Avail(r) /\ c = CurBits(bs, r) /\ t = BitsTaken(b, r)
    BY UnpackHasByte, UnpackFetch
  <1>6. /\ c = Bits(s, a + g, v) /\ r2.byte_idx \in Nat
        /\ ByteBits * r2.byte_idx = (a + g) + v
    <2>1. r.cur_bits = 0 => r.byte_idx < Len(bs)
      BY UnpackHasByte
    <2>2. /\ CurBits(bs, r) = Bits(s, b * Len(us) + r.got, Avail(r))
          /\ ByteBits * UnpackNext(b, bs, r).byte_idx = (b * Len(us) + r.got) + Avail(r)
          /\ UnpackNext(b, bs, r).byte_idx \in Nat
      BY <2>1, UnpackFetch
    <2> QED
      BY <1>2, <1>3, <1>4, <1>5, <2>2
  <1>7. s \in Nat /\ r.val = Bits(s, a, g) /\ us \in Seq(Nat)
    BY <1>2, <1>3 DEF UnpackState
  <1>8. t = Lesser(v, b - g)
    BY <1>2, <1>5 DEF BitsTaken
  <1>9. /\ t \in 1 .. v /\ t \in 1 .. b - g
        /\ c \div Pow2[t] = Bits(s, (a + g) + t, v - t)
        /\ Unsigned(Bits(s, a, g) + (c % Pow2[t]) * Pow2[g]) = Bits(s, a, g + t)
        /\ Bits(s, a, g + t) \in Nat
    <2>1. TakesBits(b, s, a, g, v, t, c)
      BY <1>5, <1>6, <1>7, <1>8, UnpackValue, Zenon
    <2> QED
      BY <2>1 DEF TakesBits
  <1>10. PICK y \in Nat : y = Bits(s, a, g + t) /\ y = NewVal(b, bs, r)
    BY <1>2, <1>5, <1>7, <1>9 DEF NewVal
  <1>11. r2.cur = Bits(s, (a + g) + t, v - t) /\ r2.cur_bits = v - t
    BY <1>4, <1>5, <1>9 DEF UnpackNext
  <1>12. r2.val = (IF g + t = b THEN 0 ELSE y) /\ r2.got = (IF g + t = b THEN 0 ELSE g + t)
    BY <1>2, <1>4, <1>5, <1>10 DEF UnpackNext, Complete
  <1>13. us2 = IF g + t = b THEN Append(us, y) ELSE us
    BY <1>2, <1>4, <1>5, <1>10 DEF UnpackedNext, Complete
  <1>14. t \in Nat \ {0} /\ v - t \in 0 .. ByteBits - 1 /\ g + t \in 0 .. b /\ ((a + g) + t) + (v - t) = (a + g) + v
    <2>1. v \in Nat /\ v <= ByteBits
      BY <1>1, <1>5
    <2>2. t \in 1 .. v /\ t \in 1 .. b - g
      BY <1>9
    <2> QED
      BY <1>1, <2>1, <2>2
  <1>15. HasBytes(bs, s) /\ HasVals(vs, b, s, m) /\ bs \in Seq(Nat)
    BY Zenon DEF UnpackState
  <1>16. b * m <= ByteBits * Len(bs) /\ ByteBits * Len(bs) < b * m + ByteBits
    BY Zenon DEF UnpackState
  <1>17. \A j \in 1 .. k : us[j] = vs[j]
    BY <1>2 DEF UnpackState
  <1>18. CASE g + t = b
    <2>1. us2 = Append(us, y) /\ r2.val = 0 /\ r2.got = 0
      BY <1>12, <1>13, <1>18
    <2>2. us2 \in Seq(Nat) /\ Len(us2) = k + 1 /\ us2[k + 1] = y /\ \A j \in 1 .. k : us2[j] = us[j]
      BY <1>2, <1>7, <2>1
    <2>3. y = vs[k + 1]
      <3>1. k + 1 \in 1 .. m /\ (k + 1) - 1 = k
        BY <1>2
      <3>2. vs[k + 1] = Bits(s, b * ((k + 1) - 1), b)
        BY <1>15, <3>1, Zenon DEF HasVals
      <3> QED
        BY <1>3, <1>10, <1>18, <3>1, <3>2
    <2>4. \A j \in 1 .. Len(us2) : us2[j] = vs[j]
      <3> SUFFICES ASSUME NEW j \in 1 .. k + 1 PROVE us2[j] = vs[j]
        BY <2>2
      <3>1. j = k + 1 \/ j \in 1 .. k
        OBVIOUS
      <3> QED
        BY <1>17, <2>2, <2>3, <3>1
    <2>5. PICK e \in Nat : e = b * Len(us2) /\ e + 0 = e /\ e = (a + g) + t
      <3>1. b * Len(us2) = a + b
        BY <1>3, <2>2
      <3>2. a + b \in Nat /\ (a + b) + 0 = a + b /\ a + b = (a + g) + t
        BY <1>14, <1>18
      <3> QED
        BY <3>1, <3>2
    <2>6. ByteBits * r2.byte_idx = (b * Len(us2) + r2.got) + r2.cur_bits
      BY <1>6, <1>11, <1>14, <2>1, <2>5
    <2>7. r2.cur = Bits(s, b * Len(us2) + r2.got, r2.cur_bits)
      BY <1>11, <2>1, <2>5
    <2>8. r2.val = Bits(s, b * Len(us2), r2.got)
      <3>1. Bits(s, e, 0) = 0
        BY <1>7, BitsNone
      <3> QED
        BY <2>1, <2>5, <3>1
    <2>9. Len(us2) <= m /\ r2.got \in 0 .. b - 1 /\ r2.cur_bits \in 0 .. ByteBits - 1
      BY <1>2, <1>11, <1>14, <2>1, <2>2
    <2> QED
      BY <1>4, <1>6, <1>7, <1>15, <1>16, <2>1, <2>2, <2>4, <2>6, <2>7, <2>8, <2>9 DEF UnpackState
  <1>19. CASE g + t # b
    <2>1. us2 = us /\ r2.val = y /\ r2.got = g + t
      BY <1>12, <1>13, <1>19
    <2>2. PICK e \in Nat : e = b * Len(us2) /\ e = a /\ e + (g + t) = (a + g) + t
      BY <1>2, <1>3, <1>14, <2>1
    <2>3. ByteBits * r2.byte_idx = (b * Len(us2) + r2.got) + r2.cur_bits
      BY <1>6, <1>11, <1>14, <2>1, <2>2
    <2>4. r2.cur = Bits(s, b * Len(us2) + r2.got, r2.cur_bits)
      BY <1>11, <2>1, <2>2
    <2>5. r2.val = Bits(s, b * Len(us2), r2.got)
      BY <1>10, <2>1, <2>2
    <2>6. Len(us2) <= m /\ Len(us2) # m /\ r2.got \in 0 .. b - 1 /\ r2.cur_bits \in 0 .. ByteBits - 1
      BY <1>2, <1>11, <1>14, <1>19, <2>1
    <2>7. \A j \in 1 .. Len(us2) : us2[j] = vs[j]
      BY <1>2, <1>17, <2>1
    <2> QED
      BY <1>4, <1>6, <1>7, <1>15, <1>16, <2>1, <2>3, <2>4, <2>5, <2>6, <2>7 DEF UnpackState
  <1> QED
    BY <1>18, <1>19

\* All values are unpacked, from all of the bytes.
LEMMA UnpackFinish ==
    ASSUME NEW m \in Nat, NEW b \in Nat \ {0}, NEW vs \in [1 .. m -> Nat], NEW bs, NEW r, NEW us, NEW s,
           UnpackState(vs, b, m, bs, r, us, s), Len(us) = m
    PROVE  us = vs /\ r.byte_idx = Len(bs)
  <1>1. ByteBits \in Nat \ {0}
    BY EncodingAssumption
  <1>2. us = vs
    <2>1. us \in Seq(Nat) /\ DOMAIN us = 1 .. m /\ \A j \in 1 .. m : us[j] = vs[j]
      BY DEF UnpackState
    <2> QED
      BY <2>1
  <1>3. PICK q \in Nat, e \in Nat, cb \in 0 .. ByteBits - 1 :
           q = r.byte_idx /\ e = Len(bs) /\ cb = r.cur_bits
    BY UnpackTypes, Zenon
  <1>4. PICK w \in Nat : w = b * m
    BY TimesNext
  <1>5. ByteBits * q = (w + 0) + cb /\ w <= ByteBits * e /\ ByteBits * e < w + ByteBits
    BY <1>3, <1>4 DEF UnpackState
  <1>6. PICK x \in Nat, y \in Nat : x = ByteBits * q /\ y = ByteBits * e
    BY <1>1, TimesNext
  <1>7. x < y + ByteBits /\ y < x + ByteBits
    BY <1>1, <1>5, <1>6
  <1>8. CASE q < e
    <2>1. q + 1 \in 1 .. e /\ (q + 1) - 1 = q
      BY <1>8
    <2>2. x + ByteBits <= y
      BY <1>1, <1>6, <2>1, TimesBefore
    <2> QED
      BY <1>1, <1>7, <2>2
  <1>9. CASE e < q
    <2>1. e + 1 \in 1 .. q /\ (e + 1) - 1 = e
      BY <1>9
    <2>2. y + ByteBits <= x
      BY <1>1, <1>6, <2>1, TimesBefore
    <2> QED
      BY <1>1, <1>7, <2>2
  <1> QED
    BY <1>2, <1>3, <1>8, <1>9

-----------------------------------------------------------------------------
(* The inductive invariant.                                                *)

Packed == enc \in {"dictionary", "bitpack"}

\* What the encoder has put into the payload, and what it packs.
PayloadIs ==
    /\ enc = "plain" => payload = [validity |-> Validity, slots |-> Slots]
    /\ enc = "rle" => payload = [validity |-> Validity, runs |-> Runs]
    /\ enc = "dictionary" => /\ payload = [validity |-> Validity, dict |-> Dict]
                             /\ vals = DictVals /\ bw = DictWidth
    /\ enc = "bitpack" => /\ IsInt
                          /\ payload = [validity |-> Validity, frame_min |-> FrameMin]
                          /\ vals = FrameVals /\ bw = FrameWidth

Packing ==
    /\ pr = AtStart /\ unpacked = <<>>
    /\ bw = 0 => bytes = <<>> /\ pw.cur_bits = 0
    /\ bw # 0 => \E s : PackState(vals, bw, n, bytes, pw, s)

Unpacking ==
    /\ bw = 0 => bytes = <<>> /\ pr = AtStart
    /\ bw # 0 => \E s : UnpackState(vals, bw, n, bytes, pr, unpacked, s)

Inv ==
    /\ chunk \in Chunks /\ enc \in Candidates
    /\ pc \in {"encode", "pack", "unpack", "decode", "done"}
    /\ pc # "encode" => PayloadIs
    /\ pc \in {"pack", "unpack"} => Packed
    /\ pc = "encode" \/ ~ Packed => bytes = <<>> /\ pr = AtStart
    /\ pc = "encode" => unpacked = <<>>
    /\ pc = "pack" => Packing
    /\ pc = "unpack" => Unpacking
    /\ pc \in {"decode", "done"} /\ Packed => unpacked = vals /\ pr.byte_idx = Len(bytes)
    /\ pc = "done" => result = values

\* The values of a packed chunk fit into their bits.
LEMMA PackedFit ==
    ASSUME chunk \in Chunks, PayloadIs, Packed
    PROVE  Fit(vals, bw)
  <1>1. CASE enc = "dictionary"
    BY <1>1, DictValsFit DEF PayloadIs
  <1>2. CASE enc = "bitpack"
    BY <1>2, FrameValsFit DEF PayloadIs
  <1> QED
    BY <1>1, <1>2 DEF Packed

\* What is computed from the chunk stays while the chunk stays.
LEMMA SameChunk ==
    ASSUME chunk' = chunk
    PROVE  /\ values' = values /\ n' = n /\ (IsInt' <=> IsInt) /\ Candidates' = Candidates
           /\ Validity' = Validity /\ Slots' = Slots /\ Runs' = Runs /\ Dict' = Dict
           /\ FrameMin' = FrameMin /\ FrameVals' = FrameVals /\ FrameWidth' = FrameWidth
           /\ DictVals' = DictVals /\ DictWidth' = DictWidth
  <1>1. values' = values /\ n' = n /\ (IsInt' <=> IsInt)
    BY DEF values, n, IsInt
  <1>2. Candidates' = Candidates
    BY DEF Candidates, IsInt
  <1>3. Validity' = Validity
    BY DEF Validity, n, values
  <1>4. Slots' = Slots
    BY DEF Slots, IsInt, values, n, Unsigned
  <1>5. Runs' = Runs
    BY DEF Runs, AddToRuns, Slots, IsInt, values, n, Unsigned
  <1>6. Dict' = Dict
    BY DEF Dict, AddToDict, values, n
  <1>7. FrameMin' = FrameMin /\ FrameMax' = FrameMax
    BY DEF FrameMin, FrameMax, NonNull, values, n
  <1>8. FrameVals' = FrameVals
    BY <1>1, <1>7 DEF FrameVals, Unsigned
  <1>9. FrameWidth' = FrameWidth
    BY <1>7 DEF FrameWidth, BitsRequired, Unsigned
  <1>10. DictVals' = DictVals
    BY <1>1, <1>6 DEF DictVals
  <1>11. DictWidth' = DictWidth
    BY <1>6 DEF DictWidth, BitsRequired
  <1> QED
    BY <1>1, <1>2, <1>3, <1>4, <1>5, <1>6, <1>7, <1>8, <1>9, <1>10, <1>11

LEMMA SamePayload ==
    ASSUME chunk' = chunk, enc' = enc, payload' = payload, vals' = vals, bw' = bw, PayloadIs
    PROVE  PayloadIs'
  BY SameChunk DEF PayloadIs

LEMMA InitInv == Init => Inv
  BY DEF Init, Inv, Packed, Packing, Unpacking

\* PackBits is about to begin.
LEMMA PackBegins ==
    ASSUME chunk \in Chunks, chunk' = chunk, NEW vs, NEW b, Fit(vs, b), vals' = vs, bw' = b,
           pw' = AtValue(1), bytes' = <<>>, pr' = AtStart, unpacked' = <<>>
    PROVE  Packing'
  <1>1. n \in Nat /\ n' = n
    BY ChunkFacts, SameChunk
  <1>2. b \in Nat /\ vs \in [1 .. n -> Nat] /\ \A j \in 1 .. n : vs[j] < Pow2[b]
    BY EncodingAssumption DEF Fit
  <1>3. PICK p : p = pw'
    OBVIOUS
  <1>4. Len(vs) = n
    BY <1>1, <1>2
  <1>5. p.i = 1 /\ p.v = (IF 1 <= n THEN vs[1] ELSE 0) /\ p.remaining = b /\ p.cur = 0 /\ p.cur_bits = 0
    BY <1>3, <1>4 DEF AtValue
  <1>6. ASSUME b # 0 PROVE \E s : PackState(vs, b, n, <<>>, p, s)
    <2>1. PackState(vs, b, n, <<>>, p, 0)
      BY <1>1, <1>2, <1>5, <1>6, PackStart
    <2> QED
      BY <2>1
  <1> QED
    BY <1>1, <1>3, <1>5, <1>6 DEF Packing

LEMMA EncodePlainInv == ASSUME Inv, EncodePlain PROVE Inv'
  <1>1. chunk' = chunk
    BY DEF EncodePlain
  <1>2. PayloadIs'
    BY <1>1, SameChunk DEF EncodePlain, PayloadIs
  <1>3. ~ Packed' /\ enc' \in Candidates' /\ chunk' \in Chunks
    BY <1>1, SameChunk DEF Inv, EncodePlain, Packed
  <1> QED
    BY <1>2, <1>3 DEF Inv, EncodePlain

LEMMA EncodeRleInv == ASSUME Inv, EncodeRle PROVE Inv'
  <1>1. chunk' = chunk
    BY DEF EncodeRle
  <1>2. PayloadIs'
    BY <1>1, SameChunk DEF EncodeRle, PayloadIs
  <1>3. ~ Packed' /\ enc' \in Candidates' /\ chunk' \in Chunks
    BY <1>1, SameChunk DEF Inv, EncodeRle, Packed
  <1> QED
    BY <1>2, <1>3 DEF Inv, EncodeRle

LEMMA EncodeDictionaryInv == ASSUME Inv, EncodeDictionary PROVE Inv'
  <1>1. chunk' = chunk
    BY DEF EncodeDictionary
  <1>2. vals' = DictVals /\ bw' = DictWidth
    BY DEF EncodeDictionary, DictVals, DictWidth
  <1>3. PayloadIs'
    BY <1>1, <1>2, SameChunk DEF EncodeDictionary, PayloadIs
  <1>4. Packing'
    <2>1. chunk \in Chunks /\ bytes' = <<>> /\ pr' = AtStart /\ unpacked' = <<>> /\ pw' = AtValue(1)
      BY DEF Inv, EncodeDictionary
    <2>2. Fit(DictVals, DictWidth)
      BY <2>1, DictValsFit
    <2> QED
      BY <1>1, <1>2, <2>1, <2>2, PackBegins
  <1>5. Packed' /\ enc' \in Candidates' /\ chunk' \in Chunks
    BY <1>1, SameChunk DEF Inv, EncodeDictionary, Packed
  <1> QED
    BY <1>3, <1>4, <1>5 DEF Inv, EncodeDictionary

LEMMA EncodeBitpackInv == ASSUME Inv, EncodeBitpack PROVE Inv'
  <1>1. chunk' = chunk
    BY DEF EncodeBitpack
  <1>2. vals' = FrameVals /\ bw' = FrameWidth
    BY DEF EncodeBitpack, FrameVals, FrameWidth
  <1>3. IsInt
    <2>1. enc = "bitpack" /\ enc \in Candidates /\ chunk.type \in {"int", "bigint", "float", "varchar"}
      BY ChunkFacts DEF Inv, EncodeBitpack
    <2> QED
      BY <2>1 DEF Candidates, IsInt
  <1>4. PayloadIs'
    BY <1>1, <1>2, <1>3, SameChunk DEF EncodeBitpack, PayloadIs
  <1>5. Packing'
    <2>1. chunk \in Chunks /\ bytes' = <<>> /\ pr' = AtStart /\ unpacked' = <<>> /\ pw' = AtValue(1)
      BY DEF Inv, EncodeBitpack
    <2>2. Fit(FrameVals, FrameWidth)
      BY <1>3, <2>1, FrameValsFit
    <2> QED
      BY <1>1, <1>2, <2>1, <2>2, PackBegins
  <1>6. Packed' /\ enc' \in Candidates' /\ chunk' \in Chunks
    BY <1>1, SameChunk DEF Inv, EncodeBitpack, Packed
  <1> QED
    BY <1>4, <1>5, <1>6 DEF Inv, EncodeBitpack

\* While the values are packed and unpacked they fit into their bits.
LEMMA InvFit ==
    ASSUME Inv, pc \in {"pack", "unpack"}
    PROVE  /\ PayloadIs /\ Packed /\ chunk \in Chunks /\ n \in Nat /\ bw \in Nat /\ bw <= Width
           /\ vals \in [1 .. n -> Nat] /\ \A j \in 1 .. n : vals[j] < Pow2[bw]
  <1>1. PayloadIs /\ Packed /\ chunk \in Chunks
    BY DEF Inv
  <1>2. Fit(vals, bw) /\ n \in Nat
    BY <1>1, PackedFit, ChunkFacts
  <1> QED
    BY <1>1, <1>2, EncodingAssumption DEF Fit

LEMMA PackBitsInv == ASSUME Inv, PackBits PROVE Inv'
  <1>1. /\ chunk' = chunk /\ enc' = enc /\ payload' = payload /\ vals' = vals /\ bw' = bw
        /\ pr' = pr /\ unpacked' = unpacked /\ pc = "pack" /\ pc' = "pack" /\ bw > 0 /\ pw.i <= n
    BY DEF PackBits
  <1>2. /\ PayloadIs /\ Packed /\ chunk \in Chunks /\ n \in Nat /\ bw \in Nat
        /\ vals \in [1 .. n -> Nat] /\ \A j \in 1 .. n : vals[j] < Pow2[bw]
    BY <1>1, InvFit
  <1>3. bytes' = PackedBytes(bytes, pw) /\ pw' = PackNext(vals, bw, n, pw)
    BY DEF PackBits, PackedBytes, PackNext, Full, Taken, NewCur
  <1>4. bw \in Nat \ {0}
    BY <1>1, <1>2
  <1>5. PICK s : PackState(vals, bw, n, bytes, pw, s)
    BY <1>1, <1>4 DEF Inv, Packing
  <1>6. \E z : PackState(vals, bw, n, PackedBytes(bytes, pw), PackNext(vals, bw, n, pw), z)
    <2>1. PICK m \in Nat, b \in Nat \ {0}, vs \in [1 .. n -> Nat] : m = n /\ b = bw /\ vs = vals
      BY <1>2, <1>4
    <2>2. /\ \A j \in 1 .. m : vs[j] < Pow2[b]
          /\ PackState(vs, b, m, bytes, pw, s) /\ pw.i <= m
      BY <1>1, <1>2, <1>5, <2>1
    <2>3. \E z : PackState(vs, b, m, PackedBytes(bytes, pw), PackNext(vs, b, m, pw), z)
      BY <2>1, <2>2, PackStep
    <2> QED
      BY <2>1, <2>3
  <1>7. n' = n /\ Candidates' = Candidates
    BY <1>1, SameChunk
  <1>8. Packing'
    <2>1. pr' = AtStart /\ unpacked' = <<>>
      BY <1>1 DEF Inv, Packing
    <2>2. bw' # 0
      BY <1>1, <1>4
    <2>3. \E z : PackState(vals', bw', n', bytes', pw', z)
      BY <1>1, <1>3, <1>6, <1>7
    <2> QED
      BY <2>1, <2>2, <2>3 DEF Packing
  <1>9. PayloadIs'
    BY <1>1, <1>2, SamePayload
  <1>10. Packed'
    BY <1>1, <1>2 DEF Packed
  <1>11. chunk' \in Chunks /\ enc' \in Candidates'
    BY <1>1, <1>7 DEF Inv
  <1> QED
    BY <1>1, <1>8, <1>9, <1>10, <1>11 DEF Inv

LEMMA PackEndInv == ASSUME Inv, PackEnd PROVE Inv'
  <1>1. /\ chunk' = chunk /\ enc' = enc /\ payload' = payload /\ vals' = vals /\ bw' = bw
        /\ pr' = pr /\ unpacked' = unpacked /\ pc = "pack" /\ pc' = "unpack" /\ (pw.i > n \/ bw = 0)
        /\ bytes' = IF pw.cur_bits > 0 THEN Append(bytes, pw.cur) ELSE bytes
    BY DEF PackEnd
  <1>2. /\ PayloadIs /\ Packed /\ chunk \in Chunks /\ n \in Nat /\ bw \in Nat
        /\ vals \in [1 .. n -> Nat] /\ \A j \in 1 .. n : vals[j] < Pow2[bw]
    BY <1>1, InvFit
  <1>3. Packing
    BY <1>1 DEF Inv
  <1>4. n' = n /\ Candidates' = Candidates
    BY <1>1, SameChunk
  <1>5. CASE bw = 0
    <2>1. bytes' = <<>> /\ pr' = AtStart
      BY <1>1, <1>3, <1>5 DEF Packing
    <2> QED
      BY <1>1, <1>2, <1>4, <1>5, <2>1, SamePayload DEF Inv, Unpacking, Packed
  <1>6. CASE bw # 0
    <2>1. PICK s : PackState(vals, bw, n, bytes, pw, s)
      BY <1>3, <1>6 DEF Packing
    <2>2. UnpackState(vals, bw, n, bytes', AtStart, <<>>, s)
      <3>1. PICK m \in Nat, b \in Nat \ {0}, vs \in [1 .. n -> Nat] : m = n /\ b = bw /\ vs = vals
        BY <1>2, <1>6
      <3>2. PackState(vs, b, m, bytes, pw, s) /\ pw.i > m
        BY <1>1, <1>6, <2>1, <3>1
      <3>3. UnpackState(vs, b, m, bytes', AtStart, <<>>, s)
        BY <1>1, <3>1, <3>2, PackFinish
      <3> QED
        BY <3>1, <3>3
    <2>3. pr' = AtStart /\ unpacked' = <<>>
      BY <1>1, <1>3 DEF Packing
    <2>4. \E z : UnpackState(vals', bw', n', bytes', pr', unpacked', z)
      BY <1>1, <1>4, <2>2, <2>3
    <2>5. Unpacking'
      BY <1>1, <1>6, <2>4 DEF Unpacking
    <2>6. PayloadIs' /\ Packed'
      BY <1>1, <1>2, SamePayload DEF Packed
    <2>7. chunk' \in Chunks /\ enc' \in Candidates'
      BY <1>1, <1>4 DEF Inv
    <2> QED
      BY <1>1, <2>5, <2>6, <2>7 DEF Inv
  <1> QED
    BY <1>5, <1>6

LEMMA UnpackZerosInv == ASSUME Inv, UnpackZeros PROVE Inv'
  <1>1. /\ chunk' = chunk /\ enc' = enc /\ payload' = payload /\ vals' = vals /\ bw' = bw
        /\ pr' = pr /\ bytes' = bytes /\ pc = "unpack" /\ pc' = "decode" /\ bw = 0
        /\ unpacked' = [i \in 1 .. n |-> 0]
    BY DEF UnpackZeros
  <1>2. /\ PayloadIs /\ Packed /\ chunk \in Chunks /\ n \in Nat /\ bw \in Nat
        /\ vals \in [1 .. n -> Nat] /\ \A j \in 1 .. n : vals[j] < Pow2[bw]
    BY <1>1, InvFit
  <1>3. unpacked' = vals
    <2>1. Pow2[0] = 1
      BY Pow2Facts
    <2>2. \A j \in 1 .. n : vals[j] \in Nat /\ vals[j] < 1
      BY <1>1, <1>2, <2>1
    <2>3. \A j \in 1 .. n : vals[j] = 0
      BY <2>2
    <2> QED
      BY <1>1, <1>2, <2>3
  <1>4. bytes = <<>> /\ pr = AtStart
    BY <1>1 DEF Inv, Unpacking
  <1>5. pr.byte_idx = 0 /\ Len(bytes) = 0
    BY <1>4 DEF AtStart
  <1>6. PayloadIs' /\ Packed'
    BY <1>1, <1>2, SamePayload DEF Packed
  <1>7. chunk' \in Chunks /\ enc' \in Candidates'
    BY <1>1, SameChunk DEF Inv
  <1> QED
    BY <1>1, <1>3, <1>5, <1>6, <1>7 DEF Inv

LEMMA UnpackBitsInv == ASSUME Inv, UnpackBits PROVE Inv'
  <1>1. /\ chunk' = chunk /\ enc' = enc /\ payload' = payload /\ vals' = vals /\ bw' = bw
        /\ bytes' = bytes /\ pc = "unpack" /\ pc' = "unpack" /\ bw > 0 /\ Len(unpacked) < n
    BY DEF UnpackBits
  <1>2. /\ PayloadIs /\ Packed /\ chunk \in Chunks /\ n \in Nat /\ bw \in Nat /\ bw <= Width
    BY <1>1, InvFit
  <1>3. pr' = UnpackNext(bw, bytes, pr) /\ unpacked' = UnpackedNext(bw, bytes, pr, unpacked)
    BY DEF UnpackBits, UnpackNext, UnpackedNext, Complete, NewVal, BitsTaken, Avail, CurBits
  <1>4. bw \in Nat \ {0}
    BY <1>1, <1>2
  <1>5. PICK s : UnpackState(vals, bw, n, bytes, pr, unpacked, s)
    BY <1>1, <1>4 DEF Inv, Unpacking
  <1>6. UnpackState(vals, bw, n, bytes, pr', unpacked', s)
    <2>1. PICK m \in Nat, b \in Nat \ {0} : m = n /\ b = bw
      BY <1>2, <1>4
    <2>2. UnpackState(vals, b, m, bytes, pr, unpacked, s) /\ Len(unpacked) < m /\ b <= Width
      BY <1>1, <1>2, <1>5, <2>1
    <2>3. UnpackState(vals, b, m, bytes, UnpackNext(b, bytes, pr), UnpackedNext(b, bytes, pr, unpacked), s)
      BY <2>2, UnpackStep
    <2> QED
      BY <1>3, <2>1, <2>3
  <1>7. n' = n /\ Candidates' = Candidates
    BY <1>1, SameChunk
  <1>8. Unpacking'
    <2>1. bw' # 0
      BY <1>1, <1>4
    <2>2. \E z : UnpackState(vals', bw', n', bytes', pr', unpacked', z)
      BY <1>1, <1>6, <1>7
    <2> QED
      BY <2>1, <2>2 DEF Unpacking
  <1>9. PayloadIs' /\ Packed'
    BY <1>1, <1>2, SamePayload DEF Packed
  <1>10. chunk' \in Chunks /\ enc' \in Candidates'
    BY <1>1, <1>7 DEF Inv
  <1> QED
    BY <1>1, <1>8, <1>9, <1>10 DEF Inv

LEMMA UnpackEndInv == ASSUME Inv, UnpackEnd PROVE Inv'
  <1>1. /\ chunk' = chunk /\ enc' = enc /\ payload' = payload /\ vals' = vals /\ bw' = bw
        /\ pr' = pr /\ bytes' = bytes /\ unpacked' = unpacked /\ pc = "unpack" /\ pc' = "decode"
        /\ bw > 0 /\ Len(unpacked) = n
    BY DEF UnpackEnd
  <1>2. /\ PayloadIs /\ Packed /\ chunk \in Chunks /\ n \in Nat /\ bw \in Nat /\ vals \in [1 .. n -> Nat]
    BY <1>1, InvFit
  <1>3. bw \in Nat \ {0}
    BY <1>1, <1>2
  <1>4. PICK s : UnpackState(vals, bw, n, bytes, pr, unpacked, s)
    BY <1>1, <1>3 DEF Inv, Unpacking
  <1>5. unpacked = vals /\ pr.byte_idx = Len(bytes)
    <2>1. PICK m \in Nat, b \in Nat \ {0}, vs \in [1 .. n -> Nat] : m = n /\ b = bw /\ vs = vals
      BY <1>2, <1>3
    <2>2. UnpackState(vs, b, m, bytes, pr, unpacked, s) /\ Len(unpacked) = m
      BY <1>1, <1>4, <2>1
    <2>3. unpacked = vs /\ pr.byte_idx = Len(bytes)
      BY <2>1, <2>2, UnpackFinish
    <2> QED
      BY <2>1, <2>3
  <1>6. PayloadIs' /\ Packed'
    BY <1>1, <1>2, SamePayload DEF Packed
  <1>7. chunk' \in Chunks /\ enc' \in Candidates'
    BY <1>1, SameChunk DEF Inv
  <1> QED
    BY <1>1, <1>5, <1>6, <1>7 DEF Inv

\* A decoder gives back the values and ends.
LEMMA DecodedInv ==
    ASSUME Inv, pc = "decode", NEW res, res = values, Decoded(res)
    PROVE  Inv'
  <1>1. /\ chunk' = chunk /\ enc' = enc /\ payload' = payload /\ vals' = vals /\ bw' = bw
        /\ pr' = pr /\ bytes' = bytes /\ unpacked' = unpacked /\ pc' = "done" /\ result' = res
    BY DEF Decoded
  <1>2. values' = values /\ Candidates' = Candidates
    BY <1>1, SameChunk
  <1>3. PayloadIs' /\ (Packed' <=> Packed)
    BY <1>1, SamePayload DEF Inv, Packed
  <1> QED
    BY <1>1, <1>2, <1>3 DEF Inv

LEMMA DecodePlainInv == ASSUME Inv, DecodePlain PROVE Inv'
  <1> DEFINE res == WithNulls([i \in 1 .. n |-> AsType(Slot(payload.slots[i]))])
  <1>1. pc = "decode" /\ Decoded(res)
    BY DEF DecodePlain
  <1>2. chunk \in Chunks /\ payload = [validity |-> Validity, slots |-> Slots]
    BY DEF Inv, DecodePlain, PayloadIs
  <1>3. res = values
    BY <1>2, PlainBack
  <1> QED
    BY <1>1, <1>3, DecodedInv

LEMMA DecodeRleInv == ASSUME Inv, DecodeRle PROVE Inv'
  <1>1. PICK slots : slots = FlattenSeq(Expand(payload.runs))
    OBVIOUS
  <1> DEFINE res == WithNulls([i \in 1 .. n |-> AsType(Slot(slots[i]))])
  <1>2. pc = "decode" /\ Decoded(res)
    BY <1>1 DEF DecodeRle, Expand
  <1>3. chunk \in Chunks /\ payload = [validity |-> Validity, runs |-> Runs]
    BY DEF Inv, DecodeRle, PayloadIs
  <1>4. res = values
    BY <1>1, <1>3, RleBack
  <1> QED
    BY <1>2, <1>4, DecodedInv

LEMMA DecodeDictionaryInv == ASSUME Inv, DecodeDictionary PROVE Inv'
  <1> DEFINE res == WithNulls([i \in 1 .. n |-> payload.dict[unpacked[i] + 1]])
  <1>1. pc = "decode" /\ Decoded(res)
    BY DEF DecodeDictionary
  <1>2. chunk \in Chunks /\ payload = [validity |-> Validity, dict |-> Dict] /\ unpacked = DictVals
    BY DEF Inv, DecodeDictionary, PayloadIs, Packed
  <1>3. res = values
    BY <1>2, DictionaryBack
  <1> QED
    BY <1>1, <1>3, DecodedInv

LEMMA DecodeBitpackInv == ASSUME Inv, DecodeBitpack PROVE Inv'
  <1> DEFINE res == WithNulls([i \in 1 .. n |-> AsType(FrameSum(i))])
  <1>1. pc = "decode" /\ Decoded(res)
    BY DEF DecodeBitpack
  <1>2. /\ chunk \in Chunks /\ IsInt /\ payload = [validity |-> Validity, frame_min |-> FrameMin]
        /\ unpacked = FrameVals
    BY DEF Inv, DecodeBitpack, PayloadIs, Packed
  <1>3. res = values
    BY <1>2, BitpackBack
  <1> QED
    BY <1>1, <1>3, DecodedInv

\* A step that changes nothing.
LEMMA StutterInv == ASSUME Inv, UNCHANGED vars PROVE Inv'
  <1>1. /\ chunk' = chunk /\ enc' = enc /\ payload' = payload /\ vals' = vals /\ bw' = bw /\ pw' = pw
        /\ pr' = pr /\ bytes' = bytes /\ unpacked' = unpacked /\ pc' = pc /\ result' = result
    BY DEF vars
  <1>2. values' = values /\ Candidates' = Candidates /\ n' = n
    BY <1>1, SameChunk
  <1>3. (PayloadIs => PayloadIs') /\ (Packed' <=> Packed)
    BY <1>1, SamePayload DEF Packed
  <1>4. (Packing => Packing') /\ (Unpacking => Unpacking')
    BY <1>1, <1>2 DEF Packing, Unpacking
  <1> QED
    BY <1>1, <1>2, <1>3, <1>4 DEF Inv

LEMMA NextInv == Inv /\ [Next]_vars => Inv'
  <1> SUFFICES ASSUME Inv, [Next]_vars PROVE Inv'
    OBVIOUS
  <1>1. CASE UNCHANGED vars
    BY <1>1, StutterInv
  <1>2. CASE Next
    BY <1>1, <1>2, EncodePlainInv, EncodeRleInv, EncodeDictionaryInv, EncodeBitpackInv,
       PackBitsInv, PackEndInv, UnpackZerosInv, UnpackBitsInv, UnpackEndInv,
       DecodePlainInv, DecodeRleInv, DecodeDictionaryInv, DecodeBitpackInv DEF Next, Done
  <1> QED
    BY <1>1, <1>2

LEMMA SpecInv == Spec => []Inv
  BY InitInv, NextInv, PTL DEF Spec

\* Whatever the widths of the integers, the type and the values of a chunk,
\* the NULLs among them and the encoding, DecodeChunk gives back what
\* EncodeChunk was given.
THEOREM ChunkReadBack == Spec => []RoundTrip
  <1>1. Inv => RoundTrip
    BY DEF Inv, RoundTrip
  <1> QED
    BY <1>1, SpecInv, PTL

\* UnpackBits, which trusts the payload to be long enough, only reads bytes
\* that PackBits wrote, and all of them.
THEOREM UnpackStaysInPayload == Spec => []WithinPayload
  <1>1. ASSUME Inv PROVE WithinPayload
    <2>1. ASSUME NeedsByte PROVE pr.byte_idx < Len(bytes)
      <3>1. pc = "unpack" /\ bw > 0 /\ Len(unpacked) < n /\ pr.cur_bits = 0
        BY <2>1 DEF NeedsByte
      <3>2. n \in Nat /\ bw \in Nat \ {0}
        <4>1. n \in Nat /\ bw \in Nat
          BY <1>1, <3>1, InvFit
        <4> QED
          BY <3>1, <4>1
      <3>3. PICK s : UnpackState(vals, bw, n, bytes, pr, unpacked, s)
        BY <1>1, <3>1, <3>2 DEF Inv, Unpacking
      <3> QED
        BY <3>1, <3>2, <3>3, UnpackHasByte
    <2>2. ASSUME pc \in {"decode", "done"} PROVE pr.byte_idx = Len(bytes)
      <3>1. CASE Packed
        BY <1>1, <2>2, <3>1 DEF Inv
      <3>2. CASE ~ Packed
        <4>1. bytes = <<>> /\ pr = AtStart
          BY <1>1, <3>2 DEF Inv
        <4> QED
          BY <4>1 DEF AtStart
      <3> QED
        BY <3>1, <3>2
    <2> QED
      BY <2>1, <2>2 DEF WithinPayload
  <1> QED
    BY <1>1, SpecInv, PTL
=============================================================================
