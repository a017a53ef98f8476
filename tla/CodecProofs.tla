---------------------------- MODULE CodecProofs -----------------------------
(***************************************************************************)
(* What is written is read back, and an edit of some bytes writes what a   *)
(* new serialization would: Codec for every base, width and length.        *)
(***************************************************************************)
EXTENDS Codec, SumTheorems, SequenceTheorems

-----------------------------------------------------------------------------
(* Integers and the powers of the base                                      *)

LEMMA ProductGrows ==
    ASSUME NEW a \in Nat, NEW b \in Nat, NEW c \in Nat, a <= b
    PROVE  a * c \in Nat /\ a * c <= b * c
OBVIOUS

LEMMA Division ==
    ASSUME NEW v \in Nat, NEW d \in Nat, d > 0
    PROVE  /\ v \div d \in Nat /\ v % d \in Nat /\ v % d < d
           /\ v = d * (v \div d) + (v % d)
OBVIOUS

\* A quotient is known by what it leaves.
LEMMA QuotientUnique ==
    ASSUME NEW d \in Nat, d > 0, NEW a \in Nat, NEW b \in Nat, NEW r \in Nat, NEW s \in Nat,
           r < d, s < d, d * a + r = d * b + s
    PROVE  a = b
<1>1. ASSUME NEW x \in Nat, NEW y \in Nat, x < y
      PROVE  d * x + d <= d * y
  <2>1. (x + 1) * d <= y * d
    BY <1>1, ProductGrows
  <2>2. (x + 1) * d = d * x + d /\ y * d = d * y
    OBVIOUS
  <2>. QED BY <2>1, <2>2
<1>2. d * a \in Nat /\ d * b \in Nat
  OBVIOUS
<1>3. ~(a < b) /\ ~(b < a)
  BY <1>1, <1>2
<1>. QED BY <1>3

LEMMA DivideTwice ==
    ASSUME NEW v \in Nat, NEW d \in Nat, d > 0, NEW b \in Nat, b > 0
    PROVE  /\ d * b \in Nat /\ d * b > 0
           /\ v \div (d * b) = (v \div d) \div b
<1>. DEFINE q == v \div d
            r == v % d
            p == q \div b
            s == q % b
            w == v \div (d * b)
            t == v % (d * b)
<1>1. d * b \in Nat /\ d * b > 0
  OBVIOUS
<1>2. q \in Nat /\ r \in Nat /\ r < d /\ v = d * q + r
  BY Division
<1>3. w \in Nat /\ t \in Nat /\ t < d * b /\ v = (d * b) * w + t
  BY <1>1, Division
<1>. HIDE DEF q, r, w, t
<1>4. p \in Nat /\ s \in Nat /\ s < b /\ q = b * p + s
  BY <1>2, Division
<1>. HIDE DEF p, s
<1>5. d * q = d * (b * p) + d * s /\ d * (b * p) = (d * b) * p
  BY <1>4
<1>6. d * s + r \in Nat /\ d * s + r < d * b
  <2>1. (s + 1) * d <= b * d
    BY <1>4, ProductGrows
  <2>2. (s + 1) * d = d * s + d /\ b * d = d * b /\ d * s \in Nat
    BY <1>4
  <2>. QED BY <2>1, <2>2, <1>2
<1>7. v = (d * b) * p + (d * s + r)
  BY <1>2, <1>4, <1>5
<1>8. w = p
  <2>. DEFINE m == d * b
              u == d * s + r
  <2>1. /\ m \in Nat /\ m > 0 /\ u \in Nat /\ u < m /\ m * w + t = m * p + u
        /\ t < m
    BY <1>1, <1>3, <1>6, <1>7
  <2>. HIDE DEF m, u
  <2>. QED BY <2>1, <1>3, <1>4, QuotientUnique
<1>. QED BY <1>1, <1>8 DEF w, p, q

LEMMA Digits == Byte \in Nat /\ Byte > 1
<1>1. 1 * Base <= Base * Base
  BY BaseAssumption, ProductGrows
<1>. QED BY <1>1, BaseAssumption DEF Byte

\* `g` is Power up to n.
PowersTo(g, n) == g = [i \in 0 .. n |-> IF i = 0 THEN 1 ELSE Base * g[i - 1]]

LEMMA PowersApply ==
    ASSUME NEW n \in Nat, NEW g, PowersTo(g, n)
    PROVE  /\ DOMAIN g = 0 .. n
           /\ g[0] = 1
           /\ \A i \in 1 .. n : g[i] = Base * g[i - 1]
BY DEF PowersTo

LEMMA PowersAgree ==
    ASSUME NEW n \in Nat, NEW m \in Nat, n <= m, NEW g, NEW h, PowersTo(g, n), PowersTo(h, m)
    PROVE  \A i \in 0 .. n : g[i] = h[i]
<1>. DEFINE Bad == {i \in 0 .. n : g[i] # h[i]}
<1>1. Bad = {}
  <2>. SUFFICES ASSUME Bad # {} PROVE FALSE
    OBVIOUS
  <2>1. PICK i \in Bad : \A j \in Bad : i <= j
    <3>. Bad \in SUBSET Nat
      OBVIOUS
    <3>. HIDE DEF Bad
    <3>. QED BY SmallestNat
  <2>2. i \in 0 .. n /\ g[i] # h[i] /\ i # 0
    BY <2>1, PowersApply
  <2>3. g[i] = Base * g[i - 1] /\ h[i] = Base * h[i - 1]
    <3>1. i \in 1 .. n /\ i \in 1 .. m
      BY <2>2
    <3>. QED BY <3>1, PowersApply
  <2>4. g[i - 1] = h[i - 1]
    BY <2>1, <2>2
  <2>. QED BY <2>2, <2>3, <2>4
<1>. QED BY <1>1

LEMMA PowersExist ==
    \A n \in Nat : \E g : PowersTo(g, n)
<1>. DEFINE Bad == {n \in Nat : ~ \E g : PowersTo(g, n)}
<1>1. Bad = {}
  <2>. SUFFICES ASSUME Bad # {} PROVE FALSE
    OBVIOUS
  <2>1. PICK n \in Bad : \A m \in Bad : n <= m
    <3>. Bad \in SUBSET Nat
      OBVIOUS
    <3>. HIDE DEF Bad
    <3>. QED BY SmallestNat
  <2>2. n \in Nat /\ ~ \E g : PowersTo(g, n)
    BY <2>1
  <2>3. n # 0
    <3>1. PowersTo([i \in 0 .. 0 |-> 1], 0)
      BY DEF PowersTo
    <3>. QED BY <3>1, <2>2
  <2>4. PICK h : PowersTo(h, n - 1)
    BY <2>1, <2>2, <2>3
  <2>. DEFINE g == [i \in 0 .. n |-> IF i = n THEN Base * h[n - 1] ELSE h[i]]
  <2>5. PowersTo(g, n)
    <3>1. /\ h[0] = 1
          /\ \A i \in 1 .. n - 1 : h[i] = Base * h[i - 1]
      BY <2>2, <2>3, <2>4, PowersApply
    <3>2. \A i \in 0 .. n : g[i] = IF i = 0 THEN 1 ELSE Base * g[i - 1]
      BY <2>2, <2>3, <3>1
    <3>3. g = [i \in 0 .. n |-> g[i]]
      OBVIOUS
    <3>4. [i \in 0 .. n |-> g[i]] = [i \in 0 .. n |-> IF i = 0 THEN 1 ELSE Base * g[i - 1]]
      <4>. HIDE DEF g
      <4>. QED BY <3>2
    <3>5. g = [i \in 0 .. n |-> IF i = 0 THEN 1 ELSE Base * g[i - 1]]
      <4>. HIDE DEF g
      <4>. QED BY <3>3, <3>4
    <3>. HIDE DEF g
    <3>. QED BY <3>5 DEF PowersTo
  <2>. QED BY <2>2, <2>5
<1>. QED BY <1>1

LEMMA PowerDef ==
    Power = [n \in Nat |-> IF n = 0 THEN 1 ELSE Base * Power[n - 1]]
<1>. DEFINE Upto(n) == CHOOSE g : PowersTo(g, n)
            f == [n \in Nat |-> Upto(n)[n]]
<1>1. \A n \in Nat : PowersTo(Upto(n), n)
  BY PowersExist
<1>2. \A n \in Nat : f[n] = IF n = 0 THEN 1 ELSE Base * f[n - 1]
  <2>. HIDE DEF Upto
  <2>1. f[0] = 1
    BY <1>1, PowersApply
  <2>2. ASSUME NEW n \in Nat, n # 0
        PROVE  f[n] = Base * f[n - 1]
    <3>1. n - 1 \in Nat /\ n - 1 <= n /\ n \in 1 .. n /\ n - 1 \in 0 .. n - 1
      BY <2>2
    <3>2. Upto(n)[n] = Base * Upto(n)[n - 1]
      BY <1>1, <3>1, PowersApply
    <3>3. Upto(n - 1)[n - 1] = Upto(n)[n - 1]
      BY <1>1, <3>1, PowersAgree
    <3>. QED BY <3>1, <3>2, <3>3
  <2>. QED BY <2>1, <2>2
<1>3. f = [n \in Nat |-> f[n]]
  OBVIOUS
<1>. HIDE DEF f
<1>4. f = [n \in Nat |-> IF n = 0 THEN 1 ELSE Base * f[n - 1]]
  BY <1>2, <1>3
<1>. QED BY <1>4 DEF Power

LEMMA PowerStep ==
    /\ Power[0] = 1
    /\ \A n \in Nat : Power[n + 1] = Base * Power[n]
<1>. DEFINE P(n) == IF n = 0 THEN 1 ELSE Base * Power[n - 1]
<1>1. \A n \in Nat : Power[n] = P(n)
  <2>1. Power = [n \in Nat |-> P(n)]
    BY PowerDef
  <2>. HIDE DEF P
  <2>. QED BY <2>1
<1>. QED BY <1>1

LEMMA PowerNat == \A n \in Nat : Power[n] \in Nat /\ Power[n] > n
<1>. DEFINE S == {n \in Nat : Power[n] \in Nat /\ Power[n] > n}
<1>1. 0 \in S
  BY PowerStep
<1>2. ASSUME NEW n \in S
      PROVE  n + 1 \in S
  <2>1. n \in Nat /\ Power[n] \in Nat /\ Power[n] > n /\ Power[n + 1] = Base * Power[n]
    BY PowerStep
  <2>2. 2 * Power[n] <= Base * Power[n] /\ Base * Power[n] \in Nat
    BY <2>1, BaseAssumption, ProductGrows
  <2>. QED BY <2>1, <2>2
<1>3. S = Nat
  <2>1. S \in SUBSET Nat
    OBVIOUS
  <2>. HIDE DEF S
  <2>. QED BY <1>1, <1>2, <2>1, AllNaturals
<1>. QED BY <1>3

LEMMA PowerGrows ==
    ASSUME NEW n \in Nat, NEW m \in Nat, n <= m
    PROVE  Power[n] <= Power[m]
<1>. DEFINE S == {k \in Nat : Power[n] <= Power[n + k]}
<1>1. 0 \in S
  BY PowerNat
<1>2. ASSUME NEW k \in S
      PROVE  k + 1 \in S
  <2>1. k \in Nat /\ n + k \in Nat /\ n + (k + 1) = (n + k) + 1 /\ Power[n] <= Power[n + k]
    OBVIOUS
  <2>2. Power[n + (k + 1)] = Base * Power[n + k]
    BY <2>1, PowerStep
  <2>3. 1 * Power[n + k] <= Base * Power[n + k] /\ Base * Power[n + k] \in Nat
    BY <2>1, BaseAssumption, PowerNat, ProductGrows
  <2>4. Power[n] \in Nat /\ Power[n + k] \in Nat
    BY <2>1, PowerNat
  <2>. QED BY <2>1, <2>2, <2>3, <2>4
<1>3. S = Nat
  <2>1. S \in SUBSET Nat
    OBVIOUS
  <2>. HIDE DEF S
  <2>. QED BY <1>1, <1>2, <2>1, AllNaturals
<1>4. m - n \in S /\ n + (m - n) = m
  <2>1. m - n \in Nat /\ n + (m - n) = m
    OBVIOUS
  <2>. HIDE DEF S
  <2>. QED BY <1>3, <2>1
<1>. QED BY <1>4

LEMMA PowerOfByte ==
    ASSUME NEW n \in Nat
    PROVE  /\ Power[2 * n] \in Nat /\ Power[2 * n] > 0
           /\ Power[2 * (n + 1)] = Power[2 * n] * Byte
<1>1. 2 * n \in Nat /\ 2 * n + 1 \in Nat /\ 2 * (n + 1) = (2 * n + 1) + 1
  OBVIOUS
<1>2. Power[2 * (n + 1)] = Base * (Base * Power[2 * n])
  BY <1>1, PowerStep
<1>3. Power[2 * n] \in Nat /\ Power[2 * n] > 0
  BY <1>1, PowerNat
<1>4. Base * (Base * Power[2 * n]) = Power[2 * n] * (Base * Base)
  BY <1>3, BaseAssumption
<1>. QED BY <1>2, <1>3, <1>4 DEF Byte

\* The number of digits: the least that suffices.
LEMMA HexLengthFits ==
    ASSUME NEW v \in Nat, NEW k \in Nat, k > 0, v < Power[k]
    PROVE  HexLength(v) \in 1 .. k
<1>. DEFINE IsLength(n) == v < Power[n] /\ (n = 1 \/ v >= Power[n - 1])
            Enough == {n \in 1 .. v + 1 : v < Power[n]}
<1>1. v + 1 \in Enough
  BY PowerNat
<1>2. PICK n \in Enough : \A m \in Enough : n <= m
  <2>1. Enough \in SUBSET Nat /\ Enough # {}
    BY <1>1
  <2>. HIDE DEF Enough
  <2>. QED BY <2>1, SmallestNat
<1>3. n \in 1 .. v + 1 /\ IsLength(n)
  <2>1. n \in 1 .. v + 1 /\ v < Power[n]
    OBVIOUS
  <2>2. CASE n # 1
    <3>1. n - 1 \in 1 .. v + 1 /\ n - 1 \notin Enough /\ n - 1 \in Nat
      BY <1>2, <2>1, <2>2
    <3>2. Power[n - 1] \in Nat /\ ~(v < Power[n - 1])
      BY <3>1, PowerNat
    <3>. QED BY <2>1, <3>2
  <2>. QED BY <2>1, <2>2
<1>4. HexLength(v) \in 1 .. v + 1 /\ IsLength(HexLength(v))
  <2>1. HexLength(v) = CHOOSE m \in 1 .. v + 1 : IsLength(m)
    BY DEF HexLength
  <2>. HIDE DEF IsLength
  <2>. QED BY <1>3, <2>1
<1>5. HexLength(v) <= k
  <2>. SUFFICES ASSUME k < HexLength(v)
                PROVE  FALSE
    BY <1>4
  <2>. DEFINE m == HexLength(v) - 1
  <2>1. m \in Nat /\ k <= m /\ HexLength(v) # 1
    BY <1>4
  <2>2. v >= Power[m]
    BY <1>4, <2>1
  <2>3. Power[k] <= Power[m] /\ Power[k] \in Nat /\ Power[m] \in Nat
    BY <2>1, PowerGrows, PowerNat
  <2>. QED BY <2>2, <2>3
<1>. QED BY <1>4, <1>5

\* A number that a u64 field can hold.
Fits(v) == v \in Nat /\ v < Power[2 * Width]

LEMMA FieldShape ==
    ASSUME NEW v, Fits(v)
    PROVE  /\ U64ToHexLE(v) = [i \in 1 .. Width |-> (v \div Power[2 * (i - 1)]) % Byte]
           /\ U64ToHexLE(v) \in Seq(Int)
           /\ Len(U64ToHexLE(v)) = Width
<1>1. HexLength(v) \in 1 .. 2 * Width
  BY HexLengthFits, WidthAssumption DEF Fits
<1>2. AtLeast(HexLength(v), 2 * Width) \div 2 = Width
  BY <1>1, WidthAssumption DEF AtLeast
<1>3. U64ToHexLE(v) = [i \in 1 .. Width |-> (v \div Power[2 * (i - 1)]) % Byte]
  BY <1>2 DEF U64ToHexLE
<1>4. \A i \in 1 .. Width : (v \div Power[2 * (i - 1)]) % Byte \in Int
  <2>. SUFFICES ASSUME NEW i \in 1 .. Width
                PROVE  (v \div Power[2 * (i - 1)]) % Byte \in Int
    OBVIOUS
  <2>1. Power[2 * (i - 1)] \in Nat /\ Power[2 * (i - 1)] > 0
    <3>1. i - 1 \in Nat
      BY WidthAssumption
    <3>. QED BY <3>1, PowerOfByte
  <2>2. v \div Power[2 * (i - 1)] \in Nat
    BY <2>1, Division DEF Fits
  <2>. QED BY <2>2, Digits, Division
<1>5. Width \in Nat
  BY WidthAssumption
<1>. QED BY <1>3, <1>4, <1>5

\* The digits of a number, each at its place, add up to it but for what is
\* beyond them.
LEMMA DigitsAddUp ==
    ASSUME NEW v \in Nat, NEW n \in Nat
    PROVE  LET f == [i \in 1 .. n |-> ((v \div Power[2 * (i - 1)]) % Byte) * Power[2 * (i - 1)]]
           IN  SumFunction(f) + Power[2 * n] * (v \div Power[2 * n]) = v
<1>. DEFINE f == [i \in 1 .. n |-> ((v \div Power[2 * (i - 1)]) % Byte) * Power[2 * (i - 1)]]
            Upto(k) == SumFunctionOnSet(f, 1 .. k) + Power[2 * k] * (v \div Power[2 * k]) = v
            S == {k \in Nat : k <= n => Upto(k)}
<1>1. ASSUME NEW k \in Nat
      PROVE  /\ Power[2 * k] \in Nat /\ Power[2 * k] > 0
             /\ v \div Power[2 * k] \in Nat
             /\ (v \div Power[2 * k]) % Byte \in Nat
  <2>1. Power[2 * k] \in Nat /\ Power[2 * k] > 0
    BY PowerOfByte
  <2>2. v \div Power[2 * k] \in Nat
    BY <2>1, Division
  <2>. QED BY <2>1, <2>2, Digits, Division
<1>2. \A i \in 1 .. n : f[i] \in Int
  <2>. SUFFICES ASSUME NEW i \in 1 .. n
                PROVE  f[i] \in Int
    OBVIOUS
  <2>1. i - 1 \in Nat
    OBVIOUS
  <2>. DEFINE P == Power[2 * (i - 1)]
              d == (v \div P) % Byte
  <2>2. P \in Nat /\ d \in Nat /\ f[i] = d * P
    BY <1>1, <2>1
  <2>. HIDE DEF P, d, f
  <2>. QED BY <2>2
<1>3. 0 \in S
  <2>1. 1 .. 0 = {} /\ 2 * 0 = 0
    OBVIOUS
  <2>2. SumFunctionOnSet(f, 1 .. 0) = 0
    BY <2>1, SumEmpty
  <2>3. Power[2 * 0] = 1
    BY <2>1, PowerStep
  <2>4. v = 1 * (v \div 1)
    OBVIOUS
  <2>. QED BY <2>2, <2>3, <2>4
<1>4. ASSUME NEW k \in S
      PROVE  k + 1 \in S
  <2>. SUFFICES ASSUME k + 1 <= n
                PROVE  Upto(k + 1)
    OBVIOUS
  <2>. DEFINE P == Power[2 * k]
              q == v \div P
              d == q % Byte
              rest == SumFunctionOnSet(f, 1 .. k)
  <2>1. P \in Nat /\ P > 0 /\ q \in Nat /\ d \in Nat
    BY <1>1
  <2>2. k \in Nat /\ rest + P * q = v
    OBVIOUS
  <2>3. SumFunctionOnSet(f, 1 .. k + 1) = d * P + rest
    <3>1. /\ IsFiniteSet(1 .. k + 1)
          /\ k + 1 \in 1 .. k + 1
          /\ (1 .. k + 1) \ {k + 1} = 1 .. k
          /\ (1 .. k + 1) \subseteq 1 .. n
      <4>1. k \in Nat /\ k + 1 <= n
        BY <2>2
      <4>2. IsFiniteSet(1 .. k + 1)
        BY <4>1, FS_Interval
      <4>. HIDE DEF S
      <4>. QED BY <4>1, <4>2
    <3>2. \A i \in 1 .. k + 1 : f[i] \in Int
      BY <1>2, <3>1
    <3>3. f[k + 1] = d * P
      <4>1. k + 1 \in 1 .. n /\ (k + 1) - 1 = k
        BY <2>2
      <4>. QED BY <4>1
    <3>4. SumFunctionOnSet(f, 1 .. k + 1) = f[k + 1] + SumFunctionOnSet(f, (1 .. k + 1) \ {k + 1})
      <4>. HIDE DEF f
      <4>. QED BY <3>1, <3>2, SumRemove
    <3>. QED BY <3>1, <3>3, <3>4
  <2>4. rest \in Int
    <3>1. /\ IsFiniteSet(1 .. k)
          /\ (1 .. k) \subseteq 1 .. n
      BY <2>2, FS_Interval
    <3>2. \A i \in 1 .. k : f[i] \in Int
      BY <1>2, <3>1
    <3>. HIDE DEF f
    <3>. QED BY <3>1, <3>2, SumInt
  <2>5. Power[2 * (k + 1)] = P * Byte /\ v \div (P * Byte) = q \div Byte
    <3>1. Power[2 * (k + 1)] = P * Byte
      BY <2>2, PowerOfByte
    <3>2. Byte \in Nat /\ Byte > 0 /\ P \in Nat /\ P > 0
      BY <2>1, Digits
    <3>3. v \div (P * Byte) = (v \div P) \div Byte
      <4>. HIDE DEF P
      <4>. QED BY <3>2, DivideTwice
    <3>. QED BY <3>1, <3>3
  <2>6. q \div Byte \in Nat /\ q = Byte * (q \div Byte) + d
    <3>1. Byte \in Nat /\ Byte > 0 /\ q \in Nat
      BY <2>1, Digits
    <3>. HIDE DEF q
    <3>. QED BY <3>1, Division
  <2>7. d * P + (P * Byte) * (q \div Byte) = P * q
    <3>. DEFINE p == q \div Byte
    <3>1. p \in Nat /\ d \in Nat /\ P \in Nat /\ Byte \in Nat /\ q = Byte * p + d
      BY <2>1, <2>6, Digits
    <3>. HIDE DEF p, d, P, q
    <3>2. P * (Byte * p + d) = P * (Byte * p) + P * d /\ P * (Byte * p) = (P * Byte) * p
      BY <3>1
    <3>3. P * d = d * P
      BY <3>1
    <3>4. P * d \in Nat /\ (P * Byte) * p \in Nat
      BY <3>1
    <3>. QED BY <3>1, <3>2, <3>3, <3>4 DEF p
  <2>8. d * P \in Int /\ (P * Byte) * (q \div Byte) \in Int /\ P * q \in Int
    <3>. DEFINE p == q \div Byte
    <3>1. p \in Nat /\ d \in Nat /\ P \in Nat /\ Byte \in Nat /\ q \in Nat
      BY <2>1, <2>6, Digits
    <3>. HIDE DEF p, d, P, q
    <3>2. d * P \in Int /\ (P * Byte) * p \in Int /\ P * q \in Int
      BY <3>1
    <3>. QED BY <3>2 DEF p
  <2>9. (d * P + rest) + (P * Byte) * (q \div Byte) = v
    <3>. DEFINE x == d * P
                y == (P * Byte) * (q \div Byte)
                z == P * q
    <3>1. x \in Int /\ y \in Int /\ z \in Int /\ x + y = z /\ rest + z = v
      BY <2>2, <2>7, <2>8
    <3>2. (x + rest) + y = v
      <4>. HIDE DEF x, y, z, rest
      <4>. QED BY <2>4, <3>1
    <3>. QED BY <3>2
  <2>. QED BY <2>3, <2>5, <2>9, Zenon
<1>5. S = Nat
  <2>1. S \in SUBSET Nat
    OBVIOUS
  <2>. HIDE DEF S
  <2>. QED BY <1>3, <1>4, <2>1, AllNaturals
<1>6. Upto(n)
  <2>1. n \in S
    BY <1>5
  <2>. QED BY <2>1
<1>7. SumFunction(f) = SumFunctionOnSet(f, 1 .. n)
  BY DEF SumFunction
<1>. QED BY <1>6, <1>7

\* What u64ToHexLE writes reads back as the number, as long as it fits
\* (readU64LE, hexToU64LE; the same code in serializer.ts, parser.ts and
\* lib/serialization.ts).
THEOREM NumberReadsBack ==
    ASSUME NEW v, Fits(v)
    PROVE  FromLE(U64ToHexLE(v)) = v
<1>. DEFINE field == U64ToHexLE(v)
            f == [i \in 1 .. Width |-> ((v \div Power[2 * (i - 1)]) % Byte) * Power[2 * (i - 1)]]
<1>1. /\ field = [i \in 1 .. Width |-> (v \div Power[2 * (i - 1)]) % Byte]
      /\ Len(field) = Width
  BY FieldShape
<1>2. [i \in 1 .. Len(field) |-> field[i] * Power[2 * (i - 1)]] = f
  BY <1>1
<1>3. FromLE(field) = SumFunction(f)
  BY <1>2 DEF FromLE
<1>4. v \in Nat /\ Width \in Nat /\ v < Power[2 * Width]
  BY WidthAssumption DEF Fits
<1>5. SumFunction(f) + Power[2 * Width] * (v \div Power[2 * Width]) = v
  BY <1>4, DigitsAddUp
<1>6. Power[2 * Width] * (v \div Power[2 * Width]) = 0 /\ SumFunction(f) \in Int
  <2>1. Power[2 * Width] \in Nat /\ Power[2 * Width] > 0
    BY <1>4, PowerOfByte
  <2>2. v \div Power[2 * Width] = 0
    BY <1>4, <2>1
  <2>3. SumFunction(f) \in Int
    <3>1. IsFiniteSet(1 .. Width) /\ DOMAIN f = 1 .. Width
      BY <1>4, FS_Interval
    <3>2. \A i \in 1 .. Width : f[i] \in Int
      <4>. SUFFICES ASSUME NEW i \in 1 .. Width
                    PROVE  f[i] \in Int
        OBVIOUS
      <4>. DEFINE P == Power[2 * (i - 1)]
                  d == field[i]
      <4>1. P \in Nat
        <5>1. i - 1 \in Nat
          BY <1>4
        <5>. QED BY <5>1, PowerOfByte
      <4>2. d \in Int
        <5>1. field \in Seq(Int)
          BY FieldShape
        <5>. HIDE DEF field
        <5>. QED BY <5>1, <1>1, <1>4
      <4>3. f[i] = d * P
        BY <1>1
      <4>. HIDE DEF f, d, P
      <4>. QED BY <4>1, <4>2, <4>3
    <3>. HIDE DEF f
    <3>. QED BY <3>1, <3>2, SumInt DEF SumFunction
  <2>. QED BY <2>1, <2>2, <2>3
<1>7. SumFunction(f) = v
  <2>. HIDE DEF f
  <2>. QED BY <1>4, <1>5, <1>6
<1>. QED BY <1>3, <1>7

-----------------------------------------------------------------------------
(* Slices of what was put together                                          *)

\* A piece is found where the pieces before it end.
LEMMA Middle ==
    ASSUME NEW V, NEW a \in Seq(V), NEW b \in Seq(V), NEW c \in Seq(V)
    PROVE  LET s == (a \o b) \o c
           IN  /\ s \in Seq(V) /\ Len(s) = Len(a) + Len(b) + Len(c)
               /\ Slice(s, Len(a), Len(a) + Len(b)) = b
               /\ SubSeq(s, 1, Len(a)) = a
               /\ SubSeq(s, Len(a) + Len(b) + 1, Len(s)) = c
               /\ \A i \in 1 .. Len(b) : s[Len(a) + i] = b[i]
<1>. DEFINE ab == a \o b
            s == ab \o c
            m == Len(a)
            n == Len(b)
<1>1. m \in Nat /\ n \in Nat /\ Len(c) \in Nat
  BY LenProperties
<1>2. /\ ab \in Seq(V) /\ Len(ab) = m + n
      /\ \A i \in 1 .. m + n : ab[i] = IF i <= m THEN a[i] ELSE b[i - m]
  BY ConcatProperties
<1>3. /\ s \in Seq(V) /\ Len(s) = m + n + Len(c)
      /\ \A i \in 1 .. m + n + Len(c) : s[i] = IF i <= m + n THEN ab[i] ELSE c[i - (m + n)]
  <2>1. ab \in Seq(V)
    BY <1>2
  <2>. HIDE DEF ab, m, n
  <2>2. /\ s \in Seq(V) /\ Len(s) = Len(ab) + Len(c)
        /\ \A i \in 1 .. Len(ab) + Len(c) : s[i] = IF i <= Len(ab) THEN ab[i] ELSE c[i - Len(ab)]
    BY <2>1, ConcatProperties
  <2>3. Len(ab) = m + n
    BY <1>2
  <2>. QED BY <2>2, <2>3
<1>4. /\ \A i \in 1 .. m : s[i] = a[i]
      /\ \A i \in 1 .. n : s[m + i] = b[i]
      /\ \A i \in 1 .. Len(c) : s[m + n + i] = c[i]
  <2>. HIDE DEF ab, s, m, n
  <2>1. ASSUME NEW i \in 1 .. m
        PROVE  s[i] = a[i]
    <3>1. i \in 1 .. m + n + Len(c) /\ i \in 1 .. m + n /\ i <= m + n /\ i <= m
      BY <1>1
    <3>. QED BY <3>1, <1>2, <1>3
  <2>2. ASSUME NEW i \in 1 .. n
        PROVE  s[m + i] = b[i]
    <3>1. /\ m + i \in 1 .. m + n + Len(c) /\ m + i \in 1 .. m + n /\ m + i <= m + n
          /\ ~(m + i <= m) /\ (m + i) - m = i
      BY <1>1
    <3>2. s[m + i] = ab[m + i]
      BY <3>1, <1>3
    <3>3. ab[m + i] = b[(m + i) - m]
      BY <3>1, <1>2
    <3>. QED BY <3>1, <3>2, <3>3
  <2>3. ASSUME NEW i \in 1 .. Len(c)
        PROVE  s[m + n + i] = c[i]
    <3>1. /\ m + n + i \in 1 .. m + n + Len(c) /\ ~(m + n + i <= m + n)
          /\ (m + n + i) - (m + n) = i
      BY <1>1
    <3>2. s[m + n + i] = c[(m + n + i) - (m + n)]
      BY <3>1, <1>3
    <3>. QED BY <3>1, <3>2
  <2>. QED BY <2>1, <2>2, <2>3
<1>5. ASSUME NEW from \in Nat, NEW d \in Seq(V), from + Len(d) <= Len(s),
             \A i \in 1 .. Len(d) : s[from + i] = d[i]
      PROVE  SubSeq(s, from + 1, from + Len(d)) = d
  <2>. HIDE DEF ab, s
  <2>. DEFINE x == SubSeq(s, from + 1, from + Len(d))
  <2>1. Len(d) \in Nat /\ Len(s) \in Nat
    BY <1>3, LenProperties
  <2>2. \A i \in from + 1 .. from + Len(d) : s[i] \in V
    <3>. SUFFICES ASSUME NEW i \in from + 1 .. from + Len(d)
                  PROVE  s[i] \in V
      OBVIOUS
    <3>1. i \in 1 .. Len(s)
      BY <1>5, <2>1
    <3>. QED BY <3>1, <1>3, ElementOfSeq
  <2>3. /\ from + 1 \in Int /\ from + Len(d) \in Int
        /\ (from + Len(d)) - (from + 1) + 1 = Len(d)
        /\ (from + 1 <= from + Len(d) \/ Len(d) = 0)
    BY <2>1
  <2>4. /\ x \in Seq(V)
        /\ Len(x) = IF from + 1 <= from + Len(d) THEN (from + Len(d)) - (from + 1) + 1 ELSE 0
        /\ \A i \in 1 .. (from + Len(d)) - (from + 1) + 1 : x[i] = s[from + 1 + i - 1]
    BY <2>2, <2>3, SubSeqProperties
  <2>5. x \in Seq(V) /\ Len(x) = Len(d) /\ \A i \in 1 .. Len(d) : x[i] = d[i]
    <3>1. Len(x) = Len(d)
      BY <2>1, <2>4
    <3>2. \A i \in 1 .. Len(d) : x[i] = s[from + i]
      <4>1. \A i \in 1 .. Len(d) : from + 1 + i - 1 = from + i
        BY <2>1
      <4>. QED BY <2>3, <2>4, <4>1
    <3>. QED BY <2>4, <3>1, <3>2, <1>5
  <2>. HIDE DEF x
  <2>. QED BY <2>5, SeqEqual DEF x
<1>. HIDE DEF s
<1>6. SubSeq(s, 1, m) = a
  <2>1. 0 + m <= Len(s) /\ \A i \in 1 .. m : s[0 + i] = a[i]
    BY <1>1, <1>3, <1>4
  <2>2. SubSeq(s, 0 + 1, 0 + m) = a
    BY <2>1, <1>5
  <2>. QED BY <2>2, <1>1
<1>7. SubSeq(s, m + 1, m + n) = b
  <2>1. m + n <= Len(s)
    BY <1>1, <1>3
  <2>. QED BY <2>1, <1>1, <1>4, <1>5
<1>8. SubSeq(s, m + n + 1, Len(s)) = c
  <2>1. (m + n) + Len(c) <= Len(s) /\ m + n \in Nat /\ Len(s) = (m + n) + Len(c)
    BY <1>1, <1>3
  <2>2. SubSeq(s, (m + n) + 1, (m + n) + Len(c)) = c
    BY <2>1, <1>4, <1>5
  <2>. QED BY <2>1, <2>2
<1>9. Slice(s, m, m + n) = b
  <2>1. m + n <= Len(s)
    BY <1>1, <1>3
  <2>. QED BY <2>1, <1>7 DEF Slice
<1>. QED BY <1>3, <1>4, <1>6, <1>7, <1>8, <1>9 DEF s

LEMMA MiddleSlice ==
    ASSUME NEW V, NEW a \in Seq(V), NEW b \in Seq(V), NEW c \in Seq(V)
    PROVE  Slice((a \o b) \o c, Len(a), Len(a) + Len(b)) = b
BY Middle

\* The number in a field, wherever the field is.
LEMMA FieldReadsBack ==
    ASSUME NEW V, Int \subseteq V, NEW a \in Seq(V), NEW c \in Seq(V), NEW v, Fits(v)
    PROVE  /\ FromLE(Slice((a \o U64ToHexLE(v)) \o c, Len(a), Len(a) + Width)) = v
           /\ U64At((a \o U64ToHexLE(v)) \o c, Len(a)) = {v}
<1>. DEFINE field == U64ToHexLE(v)
            s == (a \o field) \o c
<1>1. field \in Seq(V) /\ Len(field) = Width
  BY FieldShape, SeqMonotonic
<1>2. Slice(s, Len(a), Len(a) + Width) = field
  <2>1. Slice(s, Len(a), Len(a) + Len(field)) = field
    <3>1. field \in Seq(V)
      BY <1>1
    <3>. HIDE DEF field
    <3>. QED BY <3>1, MiddleSlice
  <2>. QED BY <1>1, <2>1
<1>3. FromLE(field) = v
  BY NumberReadsBack
<1>. HIDE DEF field, s
<1>4. U64At(s, Len(a)) = {FromLE(field)}
  BY <1>1, <1>2 DEF U64At
<1>. QED BY <1>2, <1>3, <1>4 DEF field, s

-----------------------------------------------------------------------------
(* Pledges, receipts and pledge locks                                       *)

\* What serializePledgeData writes, readPledgeAmount and parsePledgeData read:
\* the same campaign, backer and amount.
THEOREM PledgeReadsBack ==
    ASSUME NEW campaign, NEW backer, NEW amount, Fits(amount)
    PROVE  LET bytes == SerializePledgeData(campaign, backer, amount)
           IN  /\ ReadPledgeAmount(bytes) = {amount}
               /\ ParsePledgeData(bytes) =
                     {[campaign |-> campaign, backer |-> backer, amount |-> amount]}
<1>. DEFINE V == Int \cup {campaign, backer}
            head == <<campaign, backer>>
            field == U64ToHexLE(amount)
            bytes == head \o field
<1>1. /\ head \in Seq(V) /\ Len(head) = 2 /\ head[1] = campaign /\ head[2] = backer
      /\ <<>> \in Seq(V) /\ Int \subseteq V
  OBVIOUS
<1>2. field \in Seq(V)
  BY <1>1, FieldShape, SeqMonotonic
<1>. HIDE DEF V, head
<1>3. U64At(bytes, 2) = {amount}
  <2>0. Int \subseteq V /\ head \in Seq(V) /\ <<>> \in Seq(V)
    BY <1>1
  <2>. DEFINE none == <<>>
  <2>1. U64At((head \o U64ToHexLE(amount)) \o none, Len(head)) = {amount}
    <3>1. none \in Seq(V)
      BY <2>0
    <3>. HIDE DEF none
    <3>. QED BY <2>0, <3>1, FieldReadsBack
  <2>2. bytes \o <<>> = bytes
    <3>1. bytes \in Seq(V)
      <4>. HIDE DEF field
      <4>. QED BY <1>1, <1>2, ConcatProperties
    <3>. HIDE DEF bytes
    <3>. QED BY <3>1, ConcatEmptySeq
  <2>. QED BY <1>1, <2>1, <2>2
<1>4. bytes[1] = campaign /\ bytes[2] = backer
  <2>. HIDE DEF field
  <2>1. /\ Len(field) \in Nat
        /\ \A i \in 1 .. Len(head) + Len(field) :
              bytes[i] = IF i <= Len(head) THEN head[i] ELSE field[i - Len(head)]
    BY <1>1, <1>2, ConcatProperties, LenProperties
  <2>. HIDE DEF bytes
  <2>. QED BY <1>1, <2>1
<1>5. SerializePledgeData(campaign, backer, amount) = bytes
  BY DEF SerializePledgeData, head
<1>. HIDE DEF bytes
<1>. QED BY <1>3, <1>4, <1>5 DEF ReadPledgeAmount, ParsePledgeData

\* What serializeReceiptData writes, parseReceiptData reads.
THEOREM ReceiptReadsBack ==
    ASSUME NEW campaign, NEW backer, NEW amount, NEW deadline, Fits(amount), Fits(deadline)
    PROVE  ParseReceiptData(SerializeReceiptData(amount, backer, campaign, deadline)) =
               {[amount |-> amount, backer |-> backer]}
<1>. DEFINE V == Int \cup {campaign, backer}
            pair == <<backer, campaign>>
            field == U64ToHexLE(amount)
            last == U64ToHexLE(deadline)
            tail == pair \o last
            bytes == (<<>> \o field) \o tail
<1>1. /\ pair \in Seq(V) /\ Len(pair) = 2 /\ pair[1] = backer
      /\ <<>> \in Seq(V) /\ Len(<<>>) = 0 /\ Int \subseteq V
  OBVIOUS
<1>2. field \in Seq(V) /\ last \in Seq(V) /\ Len(field) = Width /\ Len(last) = Width
  BY <1>1, FieldShape, SeqMonotonic
<1>. HIDE DEF V, pair
<1>3. /\ tail \in Seq(V) /\ Len(tail) = 2 + Width
      /\ tail[1] = backer
  <2>. HIDE DEF last
  <2>1. /\ tail \in Seq(V) /\ Len(tail) = Len(pair) + Len(last)
        /\ \A i \in 1 .. Len(pair) + Len(last) :
              tail[i] = IF i <= Len(pair) THEN pair[i] ELSE last[i - Len(pair)]
    BY <1>1, <1>2, ConcatProperties
  <2>. HIDE DEF tail
  <2>. QED BY <1>1, <1>2, <2>1, WidthAssumption
<1>. HIDE DEF tail
<1>4. SerializeReceiptData(amount, backer, campaign, deadline) = bytes
  <2>1. (field \o pair) \o last = field \o (pair \o last)
    <3>. HIDE DEF field, last
    <3>. QED BY <1>1, <1>2, ConcatAssociative
  <2>2. <<>> \o field = field
    <3>. HIDE DEF field
    <3>. QED BY <1>2, ConcatEmptySeq
  <2>. QED BY <2>1, <2>2 DEF SerializeReceiptData, pair, tail
<1>5. U64At(bytes, 0) = {amount}
  <2>1. Int \subseteq V /\ tail \in Seq(V) /\ <<>> \in Seq(V)
    BY <1>1, <1>3
  <2>. DEFINE none == <<>>
  <2>2. U64At((none \o U64ToHexLE(amount)) \o tail, Len(none)) = {amount}
    <3>1. none \in Seq(V)
      BY <2>1
    <3>. HIDE DEF none
    <3>. QED BY <2>1, <3>1, FieldReadsBack
  <2>. QED BY <1>1, <2>2
<1>6. Len(bytes) > Width /\ bytes[Width + 1] = backer
  <2>1. <<>> \o field = field
    <3>. HIDE DEF field
    <3>. QED BY <1>2, ConcatEmptySeq
  <2>2. bytes = field \o tail
    BY <2>1
  <2>. HIDE DEF field, bytes
  <2>3. /\ Len(bytes) = Len(field) + Len(tail)
        /\ \A i \in 1 .. Len(field) + Len(tail) :
              bytes[i] = IF i <= Len(field) THEN field[i] ELSE tail[i - Len(field)]
    BY <1>2, <1>3, <2>2, ConcatProperties
  <2>4. /\ Width + 1 \in 1 .. Len(field) + Len(tail)
        /\ ~(Width + 1 <= Len(field)) /\ (Width + 1) - Len(field) = 1
    BY <1>2, <1>3, WidthAssumption
  <2>5. bytes[Width + 1] = tail[(Width + 1) - Len(field)]
    BY <2>3, <2>4
  <2>. QED BY <1>2, <1>3, <2>3, <2>4, <2>5, WidthAssumption
<1>. HIDE DEF bytes
<1>. QED BY <1>4, <1>5, <1>6 DEF ParseReceiptData

\* What serializePledgeLockArgs writes, parsePledgeLockArgs reads: the lock a
\* pledge cell gets is the one the indexer attributes it to.
THEOREM LockArgsReadBack ==
    ASSUME NEW campaign, NEW deadline, NEW backer, Fits(deadline)
    PROVE  ParsePledgeLockArgs(SerializePledgeLockArgs(campaign, deadline, backer)) =
               {[campaign |-> campaign, deadline |-> deadline, backer |-> backer]}
<1>. DEFINE V == Int \cup {campaign, backer}
            head == <<campaign>>
            tail == <<backer>>
            field == U64ToHexLE(deadline)
            args == (head \o field) \o tail
<1>1. /\ head \in Seq(V) /\ Len(head) = 1 /\ head[1] = campaign
      /\ tail \in Seq(V) /\ Len(tail) = 1 /\ tail[1] = backer
      /\ Int \subseteq V
  OBVIOUS
<1>2. field \in Seq(V) /\ Len(field) = Width
  BY <1>1, FieldShape, SeqMonotonic
<1>. HIDE DEF V, head, tail
<1>3. U64At(args, 1) = {deadline}
  <2>0. Int \subseteq V /\ head \in Seq(V) /\ tail \in Seq(V)
    BY <1>1
  <2>1. U64At((head \o U64ToHexLE(deadline)) \o tail, Len(head)) = {deadline}
    BY <2>0, FieldReadsBack
  <2>. QED BY <1>1, <2>1
<1>4. Len(args) = Width + 2 /\ args[1] = campaign /\ args[Width + 2] = backer
  <2>. HIDE DEF field
  <2>. DEFINE front == head \o field
  <2>1. /\ front \in Seq(V) /\ Len(front) = Len(head) + Len(field)
        /\ \A i \in 1 .. Len(head) + Len(field) :
              front[i] = IF i <= Len(head) THEN head[i] ELSE field[i - Len(head)]
    BY <1>1, <1>2, ConcatProperties
  <2>2. Len(front) = Width + 1 /\ front[1] = campaign
    <3>. HIDE DEF front
    <3>. QED BY <1>1, <1>2, <2>1, WidthAssumption
  <2>3. front \in Seq(V)
    BY <2>1
  <2>. HIDE DEF front
  <2>4. args = front \o tail
    BY DEF front
  <2>. HIDE DEF args
  <2>5. /\ Len(args) = Len(front) + Len(tail)
        /\ \A i \in 1 .. Len(front) + Len(tail) :
              args[i] = IF i <= Len(front) THEN front[i] ELSE tail[i - Len(front)]
    BY <1>1, <2>3, <2>4, ConcatProperties
  <2>6. args[Width + 2] = tail[(Width + 2) - Len(front)]
    BY <1>1, <2>2, <2>5, WidthAssumption
  <2>7. (Width + 2) - Len(front) = 1 /\ args[1] = front[1]
    BY <1>1, <2>2, <2>5, WidthAssumption
  <2>. QED BY <1>1, <2>2, <2>5, <2>6, <2>7, WidthAssumption
<1>5. SerializePledgeLockArgs(campaign, deadline, backer) = args
  BY DEF SerializePledgeLockArgs, head, tail
<1>. HIDE DEF args
<1>. QED BY <1>3, <1>4, <1>5, WidthAssumption DEF ParsePledgeLockArgs

-----------------------------------------------------------------------------
(* Campaigns                                                                *)

\* A length up to 65535 takes two bytes.
LengthFits(n) == n \in Nat /\ n < Byte * Byte

LEMMA LengthReadsBack ==
    ASSUME NEW n, LengthFits(n)
    PROVE  /\ U16ToHexLE(n) \in Seq(Int) /\ Len(U16ToHexLE(n)) = 2
           /\ FromLE(U16ToHexLE(n)) = n
<1>. DEFINE x == n % Byte
            y == n \div Byte
            f == [i \in 1 .. 2 |-> <<x, y>>[i] * Power[2 * (i - 1)]]
<1>1. n \in Nat /\ Byte \in Nat /\ Byte > 0
  BY Digits DEF LengthFits
<1>2. x \in Nat /\ y \in Nat /\ n = Byte * y + x
  BY <1>1, Division
<1>3. Power[2 * (1 - 1)] = 1 /\ Power[2 * (2 - 1)] = Byte /\ Power[4] = Byte * Byte
  <2>1. 2 * 0 = 0 /\ 2 * (0 + 1) = 2 /\ 2 * (1 + 1) = 4 /\ 2 * (1 - 1) = 0 /\ 2 * (2 - 1) = 2
    OBVIOUS
  <2>2. Power[2 * (0 + 1)] = Power[2 * 0] * Byte /\ Power[2 * (1 + 1)] = Power[2 * 1] * Byte
    BY PowerOfByte
  <2>3. Power[0] = 1
    BY PowerStep
  <2>4. Power[2] = Byte
    BY <1>1, <2>1, <2>2, <2>3
  <2>5. 2 * 1 = 2
    OBVIOUS
  <2>. QED BY <2>1, <2>2, <2>3, <2>4, <2>5
<1>4. U16ToHexLE(n) = <<x, y>>
  <2>1. HexLength(n) \in 1 .. 4
    BY <1>1, <1>3, HexLengthFits DEF LengthFits
  <2>2. AtLeast(HexLength(n), 4) - 4 = 0
    BY <2>1 DEF AtLeast
  <2>3. n \div Power[AtLeast(HexLength(n), 4) - 4] = n
    BY <1>1, <2>2, PowerStep
  <2>. QED BY <2>3 DEF U16ToHexLE
<1>. HIDE DEF x, y
<1>5. FromLE(<<x, y>>) = SumFunctionOnSet(f, {1, 2})
  <2>1. FromLE(<<x, y>>) = SumFunction(f)
    BY DEF FromLE
  <2>2. 1 .. 2 = {1, 2} /\ DOMAIN f = 1 .. 2
    OBVIOUS
  <2>. QED BY <2>1, <2>2 DEF SumFunction
<1>6. f[1] = x /\ f[2] = y * Byte /\ y * Byte \in Nat
  <2>1. f[1] = x * Power[2 * (1 - 1)] /\ f[2] = y * Power[2 * (2 - 1)]
    OBVIOUS
  <2>. HIDE DEF f
  <2>. QED BY <1>1, <1>2, <1>3, <2>1
<1>. HIDE DEF f
<1>7. SumFunctionOnSet(f, {1, 2}) = y * Byte + x
  <2>1. IsFiniteSet({1, 2}) /\ {1, 2} \ {2} = {1} /\ 2 \in {1, 2}
    <3>1. {1, 2} = 1 .. 2
      OBVIOUS
    <3>2. 1 \in Int /\ 2 \in Int
      OBVIOUS
    <3>3. IsFiniteSet(1 .. 2)
      BY <3>2, FS_Interval
    <3>. QED BY <3>1, <3>3
  <2>2. \A i \in {1, 2} : f[i] \in Int
    BY <1>2, <1>6
  <2>3. SumFunctionOnSet(f, {1, 2}) = f[2] + SumFunctionOnSet(f, {1, 2} \ {2})
    BY <2>1, <2>2, SumRemove
  <2>4. SumFunctionOnSet(f, {1}) = f[1]
    BY <2>2, SumSingle
  <2>. QED BY <1>6, <2>1, <2>3, <2>4
<1>8. y * Byte = Byte * y
  BY <1>1, <1>2
<1>9. <<x, y>> \in Seq(Int) /\ Len(<<x, y>>) = 2
  BY <1>2
<1>. QED BY <1>2, <1>4, <1>5, <1>7, <1>8, <1>9

\* The pieces of campaign data, in their order.
Layout(h, goal, deadline, total, status, reserved, meta) ==
    h \o goal \o deadline \o total \o status \o reserved \o meta

\* Concatenation, kept closed where only its laws matter.
Join(x, y) == x \o y

LEMMA Shift ==
    ASSUME NEW V, NEW x \in Seq(V), NEW y \in Seq(V), NEW z \in Seq(V)
    PROVE  /\ Join(x, y) \in Seq(V) /\ Join(y, z) \in Seq(V)
           /\ Join(Join(x, y), z) = Join(x, Join(y, z))
BY ConcatProperties, ConcatAssociative DEF Join

Pieces(V, a, b, c, d, e, f, g) ==
    /\ a \in Seq(V) /\ b \in Seq(V) /\ c \in Seq(V) /\ d \in Seq(V)
    /\ e \in Seq(V) /\ f \in Seq(V) /\ g \in Seq(V)

\* The same bytes, cut at each of the inner boundaries.
LEMMA Regroup ==
    ASSUME NEW V, NEW a, NEW b, NEW c, NEW d, NEW e, NEW f, NEW g, Pieces(V, a, b, c, d, e, f, g)
    PROVE  /\ Layout(a, b, c, d, e, f, g) =
                  Join(Join(Join(Join(Join(Join(a, b), c), d), e), f), g)
           /\ Layout(a, b, c, d, e, f, g) =
                  Join(Join(Join(Join(Join(a, b), c), d), e), Join(f, g))
           /\ Layout(a, b, c, d, e, f, g) =
                  Join(Join(Join(Join(a, b), c), d), Join(e, Join(f, g)))
           /\ Layout(a, b, c, d, e, f, g) =
                  Join(Join(Join(a, b), c), Join(d, Join(e, Join(f, g))))
           /\ Layout(a, b, c, d, e, f, g) =
                  Join(Join(a, b), Join(c, Join(d, Join(e, Join(f, g)))))
<1>. USE DEF Pieces
<1>1. Layout(a, b, c, d, e, f, g) = Join(Join(Join(Join(Join(Join(a, b), c), d), e), f), g)
  BY DEF Layout, Join
<1>2. /\ Join(a, b) \in Seq(V) /\ Join(Join(a, b), c) \in Seq(V)
      /\ Join(Join(Join(a, b), c), d) \in Seq(V)
      /\ Join(Join(Join(Join(a, b), c), d), e) \in Seq(V)
  <2>1. Join(a, b) \in Seq(V)
    BY Shift
  <2>2. Join(Join(a, b), c) \in Seq(V)
    BY <2>1, Shift
  <2>3. Join(Join(Join(a, b), c), d) \in Seq(V)
    BY <2>2, Shift
  <2>. QED BY <2>1, <2>2, <2>3, Shift
<1>3. /\ Join(f, g) \in Seq(V) /\ Join(e, Join(f, g)) \in Seq(V)
      /\ Join(d, Join(e, Join(f, g))) \in Seq(V)
  BY Shift
<1>4. Join(Join(Join(Join(Join(Join(a, b), c), d), e), f), g)
        = Join(Join(Join(Join(Join(a, b), c), d), e), Join(f, g))
  BY <1>2, Shift
<1>5. Join(Join(Join(Join(Join(a, b), c), d), e), Join(f, g))
        = Join(Join(Join(Join(a, b), c), d), Join(e, Join(f, g)))
  BY <1>2, <1>3, Shift
<1>6. Join(Join(Join(Join(a, b), c), d), Join(e, Join(f, g)))
        = Join(Join(Join(a, b), c), Join(d, Join(e, Join(f, g))))
  BY <1>2, <1>3, Shift
<1>7. Join(Join(Join(a, b), c), Join(d, Join(e, Join(f, g))))
        = Join(Join(a, b), Join(c, Join(d, Join(e, Join(f, g)))))
  BY <1>2, <1>3, Shift
<1>. QED BY <1>1, <1>4, <1>5, <1>6, <1>7, Zenon

LEMMA JoinLen ==
    ASSUME NEW V, NEW x \in Seq(V), NEW y \in Seq(V)
    PROVE  Join(x, y) \in Seq(V) /\ Len(Join(x, y)) = Len(x) + Len(y)
BY ConcatProperties DEF Join

LEMMA JoinMiddle ==
    ASSUME NEW V, NEW a \in Seq(V), NEW b \in Seq(V), NEW c \in Seq(V)
    PROVE  /\ Slice(Join(Join(a, b), c), Len(a), Len(a) + Len(b)) = b
           /\ \A i \in 1 .. Len(b) : Join(Join(a, b), c)[Len(a) + i] = b[i]
           /\ SubSeq(Join(Join(a, b), c), 1, Len(a)) = a
           /\ SubSeq(Join(Join(a, b), c), Len(a) + Len(b) + 1, Len(Join(Join(a, b), c))) = c
BY Middle DEF Join

\* A sequence of three parts.
Parts(V, s, a, b, c) ==
    a \in Seq(V) /\ b \in Seq(V) /\ c \in Seq(V) /\ s = Join(Join(a, b), c)

LEMMA MiddleSliced ==
    ASSUME NEW V, NEW a, NEW b, NEW c, NEW s, Parts(V, s, a, b, c)
    PROVE  Slice(s, Len(a), Len(a) + Len(b)) = b
<1>1. Slice(Join(Join(a, b), c), Len(a), Len(a) + Len(b)) = b
  BY JoinMiddle DEF Parts
<1>. QED BY <1>1, Zenon DEF Parts

LEMMA FrontCut ==
    ASSUME NEW V, NEW a, NEW b, NEW c, NEW s, Parts(V, s, a, b, c)
    PROVE  SubSeq(s, 1, Len(a)) = a
<1>1. SubSeq(Join(Join(a, b), c), 1, Len(a)) = a
  BY Middle DEF Join, Parts
<1>. QED BY <1>1, Zenon DEF Parts

LEMMA BackCut ==
    ASSUME NEW V, NEW a, NEW b, NEW c, NEW s, Parts(V, s, a, b, c)
    PROVE  SubSeq(s, Len(a) + Len(b) + 1, Len(s)) = c
<1>1. SubSeq(Join(Join(a, b), c), Len(a) + Len(b) + 1, Len(Join(Join(a, b), c))) = c
  BY Middle DEF Join, Parts
<1>. QED BY <1>1, Zenon DEF Parts

LEMMA MiddleAt ==
    ASSUME NEW V, NEW a, NEW b, NEW c, NEW s, Parts(V, s, a, b, c)
    PROVE  \A i \in 1 .. Len(b) : s[Len(a) + i] = b[i]
<1>1. ASSUME NEW i \in 1 .. Len(b) PROVE Join(Join(a, b), c)[Len(a) + i] = b[i]
  BY Middle DEF Join, Parts
<1>. QED BY <1>1, Zenon DEF Parts

\* Campaign data by its contents.
Bytes(h, goal, deadline, total, status, reserved, meta) ==
    Layout(h, U64ToHexLE(goal), U64ToHexLE(deadline), U64ToHexLE(total), status, reserved, meta)

\* What can stand in campaign data.
Contents(V, h, goal, deadline, total, status, reserved, meta) ==
    /\ Int \subseteq V
    /\ h \in Seq(V) /\ Len(h) = 1
    /\ Fits(goal) /\ Fits(deadline) /\ Fits(total)
    /\ status \in Seq(V) /\ Len(status) = 1
    /\ reserved \in Seq(V) /\ Len(reserved) = Width
    /\ meta \in Seq(V)

LEMMA Offsets ==
    /\ GoalAt \in Nat /\ DeadlineAt \in Nat /\ TotalAt \in Nat /\ StatusAt \in Nat
    /\ GoalAt = 1
    /\ DeadlineAt = GoalAt + Width
    /\ TotalAt = DeadlineAt + Width
    /\ StatusAt = TotalAt + Width
    /\ HeaderSize = StatusAt + 1 + Width
    /\ HeaderSize \in Nat /\ HeaderSize > StatusAt
    /\ Width \in Nat
BY WidthAssumption DEF GoalAt, DeadlineAt, TotalAt, StatusAt, HeaderSize

\* Each piece of a layout, by the lengths of those before it.
Laid(V, s, a, b, c, d, e, f, g) ==
    /\ s \in Seq(V)
    /\ Len(s) = Len(a) + Len(b) + Len(c) + Len(d) + Len(e) + Len(f) + Len(g)
    /\ SubSeq(s, 1, Len(a)) = a
    /\ Slice(s, Len(a), Len(a) + Len(b)) = b
    /\ Slice(s, Len(a) + Len(b), Len(a) + Len(b) + Len(c)) = c
    /\ Slice(s, Len(a) + Len(b) + Len(c), Len(a) + Len(b) + Len(c) + Len(d)) = d
    /\ SubSeq(s, 1, Len(a) + Len(b) + Len(c)) = Join(Join(a, b), c)
    /\ SubSeq(s, Len(a) + Len(b) + Len(c) + Len(d) + 1, Len(s)) = Join(e, Join(f, g))
    /\ \A i \in 1 .. Len(e) : s[Len(a) + Len(b) + Len(c) + Len(d) + i] = e[i]
    /\ \E front \in Seq(V) :
          /\ Len(front) = Len(a) + Len(b) + Len(c) + Len(d) + Len(e) + Len(f)
          /\ s = Join(front, g)

LEMMA LayoutPieces ==
    ASSUME NEW V, NEW a, NEW b, NEW c, NEW d, NEW e, NEW f, NEW g, Pieces(V, a, b, c, d, e, f, g),
           NEW s, s = Layout(a, b, c, d, e, f, g)
    PROVE  Laid(V, s, a, b, c, d, e, f, g)
<1>1. /\ s = Join(Join(Join(Join(Join(Join(a, b), c), d), e), f), g)
      /\ s = Join(Join(Join(Join(Join(a, b), c), d), e), Join(f, g))
      /\ s = Join(Join(Join(Join(a, b), c), d), Join(e, Join(f, g)))
      /\ s = Join(Join(Join(a, b), c), Join(d, Join(e, Join(f, g))))
      /\ s = Join(Join(a, b), Join(c, Join(d, Join(e, Join(f, g)))))
  <2>. DEFINE t == Layout(a, b, c, d, e, f, g)
  <2>1. /\ t = Join(Join(Join(Join(Join(Join(a, b), c), d), e), f), g)
        /\ t = Join(Join(Join(Join(Join(a, b), c), d), e), Join(f, g))
        /\ t = Join(Join(Join(Join(a, b), c), d), Join(e, Join(f, g)))
        /\ t = Join(Join(Join(a, b), c), Join(d, Join(e, Join(f, g))))
        /\ t = Join(Join(a, b), Join(c, Join(d, Join(e, Join(f, g)))))
    BY Regroup
  <2>. QED BY <2>1, Zenon
<1>. USE DEF Pieces
<1>2. PICK ab : ab = Join(a, b)
  OBVIOUS
<1>3. PICK abc : abc = Join(ab, c)
  OBVIOUS
<1>4. PICK abcd : abcd = Join(abc, d)
  OBVIOUS
<1>5. PICK abcde : abcde = Join(abcd, e)
  OBVIOUS
<1>6. PICK abcdef : abcdef = Join(abcde, f)
  OBVIOUS
<1>7. PICK fg : fg = Join(f, g)
  OBVIOUS
<1>8. PICK efg : efg = Join(e, fg)
  OBVIOUS
<1>9. PICK defg : defg = Join(d, efg)
  OBVIOUS
<1>10. PICK cdefg : cdefg = Join(c, defg)
  OBVIOUS
<1>11. ab \in Seq(V) /\ Len(ab) = Len(a) + Len(b)
  BY <1>2, JoinLen
<1>12. abc \in Seq(V) /\ Len(abc) = Len(ab) + Len(c)
  BY <1>3, <1>11, JoinLen
<1>13. abcd \in Seq(V) /\ Len(abcd) = Len(abc) + Len(d)
  BY <1>4, <1>12, JoinLen
<1>14. abcde \in Seq(V) /\ Len(abcde) = Len(abcd) + Len(e)
  BY <1>5, <1>13, JoinLen
<1>15. abcdef \in Seq(V) /\ Len(abcdef) = Len(abcde) + Len(f)
  BY <1>6, <1>14, JoinLen
<1>16. fg \in Seq(V)
  BY <1>7, JoinLen
<1>17. efg \in Seq(V)
  BY <1>8, <1>16, JoinLen
<1>18. defg \in Seq(V)
  BY <1>9, <1>17, JoinLen
<1>19. cdefg \in Seq(V)
  BY <1>10, <1>18, JoinLen
<1>20. /\ s = Join(abcdef, g) /\ s = Join(Join(abcd, e), fg) /\ s = Join(Join(abc, d), efg)
       /\ s = Join(Join(ab, c), defg) /\ s = Join(Join(a, b), cdefg)
  BY <1>1, <1>2, <1>3, <1>4, <1>5, <1>6, <1>7, <1>8, <1>9, <1>10, Zenon
<1>21. s \in Seq(V) /\ Len(s) = Len(abcdef) + Len(g)
  <2>1. abcdef \in Seq(V)
    BY <1>15
  <2>2. Join(abcdef, g) \in Seq(V) /\ Len(Join(abcdef, g)) = Len(abcdef) + Len(g)
    BY <2>1, JoinLen
  <2>. QED BY <2>2, <1>20, Zenon
<1>22. SubSeq(s, 1, Len(a)) = a /\ Slice(s, Len(a), Len(a) + Len(b)) = b
  <2>1. Parts(V, s, a, b, cdefg)
    BY <1>19, <1>20 DEF Parts
  <2>2. SubSeq(s, 1, Len(a)) = a
    BY <2>1, FrontCut
  <2>3. Slice(s, Len(a), Len(a) + Len(b)) = b
    BY <2>1, MiddleSliced
  <2>. QED BY <2>2, <2>3
<1>23. Slice(s, Len(ab), Len(ab) + Len(c)) = c
  <2>1. Parts(V, s, ab, c, defg)
    BY <1>11, <1>18, <1>20 DEF Parts
  <2>. QED BY <2>1, MiddleSliced
<1>24. /\ Slice(s, Len(abc), Len(abc) + Len(d)) = d
       /\ SubSeq(s, 1, Len(abc)) = abc
       /\ SubSeq(s, Len(abc) + Len(d) + 1, Len(s)) = efg
  <2>1. Parts(V, s, abc, d, efg)
    BY <1>12, <1>17, <1>20 DEF Parts
  <2>2. Slice(s, Len(abc), Len(abc) + Len(d)) = d
    BY <2>1, MiddleSliced
  <2>3. SubSeq(s, 1, Len(abc)) = abc
    BY <2>1, FrontCut
  <2>4. SubSeq(s, Len(abc) + Len(d) + 1, Len(s)) = efg
    BY <2>1, BackCut
  <2>. QED BY <2>2, <2>3, <2>4
<1>25. \A i \in 1 .. Len(e) : s[Len(abcd) + i] = e[i]
  <2>1. Parts(V, s, abcd, e, fg)
    BY <1>13, <1>16, <1>20 DEF Parts
  <2>. QED BY <2>1, MiddleAt
<1>26. abc = Join(Join(a, b), c) /\ efg = Join(e, Join(f, g))
  BY <1>2, <1>3, <1>7, <1>8, Zenon
<1>27. /\ Len(ab) = Len(a) + Len(b)
       /\ Len(abc) = Len(a) + Len(b) + Len(c)
       /\ Len(abcd) = Len(a) + Len(b) + Len(c) + Len(d)
       /\ Len(abcdef) = Len(a) + Len(b) + Len(c) + Len(d) + Len(e) + Len(f)
  BY <1>11, <1>12, <1>13, <1>14, <1>15
<1>28. \E front \in Seq(V) :
          /\ Len(front) = Len(a) + Len(b) + Len(c) + Len(d) + Len(e) + Len(f)
          /\ s = Join(front, g)
  BY <1>15, <1>20, <1>27, Zenon
<1>. QED BY <1>21, <1>22, <1>23, <1>24, <1>25, <1>26, <1>27, <1>28, Zenon DEF Laid

\* What is read of it.
Read(V, s, h, goal, deadline, total, status, reserved, meta) ==
    /\ s \in Seq(V) /\ Len(s) = HeaderSize + Len(meta)
    /\ s[1] = h[1]
    /\ FromLE(Slice(s, GoalAt, DeadlineAt)) = goal
    /\ FromLE(Slice(s, DeadlineAt, TotalAt)) = deadline
    /\ FromLE(Slice(s, TotalAt, StatusAt)) = total
    /\ s[StatusAt + 1] = status[1]
    /\ SubSeq(s, 1, TotalAt) = Join(Join(h, U64ToHexLE(goal)), U64ToHexLE(deadline))
    /\ SubSeq(s, StatusAt + 1, Len(s)) = Join(status, Join(reserved, meta))
    /\ \E front \in Seq(V) : Len(front) = HeaderSize /\ s = Join(front, meta)

LEMMA CampaignPieces ==
    ASSUME NEW V, NEW h, NEW goal, NEW deadline, NEW total, NEW status, NEW reserved, NEW meta,
           Contents(V, h, goal, deadline, total, status, reserved, meta),
           NEW s, s = Bytes(h, goal, deadline, total, status, reserved, meta)
    PROVE  Read(V, s, h, goal, deadline, total, status, reserved, meta)
<1>. DEFINE b == U64ToHexLE(goal)
            c == U64ToHexLE(deadline)
            d == U64ToHexLE(total)
<1>1. /\ h \in Seq(V) /\ status \in Seq(V) /\ reserved \in Seq(V) /\ meta \in Seq(V)
      /\ b \in Seq(V) /\ c \in Seq(V) /\ d \in Seq(V)
  BY FieldShape, SeqMonotonic DEF Contents
<1>2. /\ Len(h) = 1 /\ Len(status) = 1 /\ Len(reserved) = Width
      /\ Len(b) = Width /\ Len(c) = Width /\ Len(d) = Width
  BY FieldShape DEF Contents
<1>3. FromLE(b) = goal /\ FromLE(c) = deadline /\ FromLE(d) = total
  BY NumberReadsBack DEF Contents
<1>4. s = Layout(h, b, c, d, status, reserved, meta)
  BY DEF Bytes
<1>. HIDE DEF b, c, d
<1>5. /\ s \in Seq(V)
      /\ Len(s) = Len(h) + Len(b) + Len(c) + Len(d) + Len(status) + Len(reserved) + Len(meta)
      /\ SubSeq(s, 1, Len(h)) = h
      /\ Slice(s, Len(h), Len(h) + Len(b)) = b
      /\ Slice(s, Len(h) + Len(b), Len(h) + Len(b) + Len(c)) = c
      /\ Slice(s, Len(h) + Len(b) + Len(c), Len(h) + Len(b) + Len(c) + Len(d)) = d
      /\ SubSeq(s, 1, Len(h) + Len(b) + Len(c)) = Join(Join(h, b), c)
      /\ SubSeq(s, Len(h) + Len(b) + Len(c) + Len(d) + 1, Len(s))
            = Join(status, Join(reserved, meta))
      /\ \A i \in 1 .. Len(status) : s[Len(h) + Len(b) + Len(c) + Len(d) + i] = status[i]
      /\ \E front \in Seq(V) :
            /\ Len(front) = Len(h) + Len(b) + Len(c) + Len(d) + Len(status) + Len(reserved)
            /\ s = Join(front, meta)
  <2>1. Pieces(V, h, b, c, d, status, reserved, meta)
    BY <1>1 DEF Pieces
  <2>2. Laid(V, s, h, b, c, d, status, reserved, meta)
    BY <2>1, <1>4, LayoutPieces
  <2>. QED BY <2>2, Zenon DEF Laid
<1>6. /\ Len(h) = GoalAt /\ Len(h) + Len(b) = DeadlineAt
      /\ Len(h) + Len(b) + Len(c) = TotalAt
      /\ Len(h) + Len(b) + Len(c) + Len(d) = StatusAt
      /\ Len(h) + Len(b) + Len(c) + Len(d) + Len(status) + Len(reserved) = HeaderSize
  BY <1>2, Offsets
<1>7. /\ s \in Seq(V) /\ Len(s) = HeaderSize + Len(meta)
      /\ SubSeq(s, 1, 1) = h
      /\ Slice(s, GoalAt, DeadlineAt) = b
      /\ Slice(s, DeadlineAt, TotalAt) = c
      /\ Slice(s, TotalAt, StatusAt) = d
      /\ SubSeq(s, 1, TotalAt) = Join(Join(h, b), c)
      /\ SubSeq(s, StatusAt + 1, Len(s)) = Join(status, Join(reserved, meta))
      /\ \A i \in 1 .. Len(status) : s[StatusAt + i] = status[i]
      /\ \E front \in Seq(V) : Len(front) = HeaderSize /\ s = Join(front, meta)
  BY <1>2, <1>5, <1>6, Zenon
<1>8. s[1] = h[1]
  <2>1. Len(s) \in Nat /\ Len(s) >= 1
    <3>1. Len(meta) \in Nat
      BY <1>1, LenProperties
    <3>. QED BY <1>7, <3>1, Offsets
  <2>2. \A i \in 1 .. 1 : s[i] \in V
    BY <1>7, <2>1, ElementOfSeq
  <2>3. \A i \in 1 .. 1 - 1 + 1 : SubSeq(s, 1, 1)[i] = s[1 + i - 1]
    BY <2>2, SubSeqProperties
  <2>4. SubSeq(s, 1, 1)[1] = s[1]
    BY <2>3
  <2>5. SubSeq(s, 1, 1) = h
    BY <1>7
  <2>. QED BY <2>4, <2>5, Zenon
<1>9. s[StatusAt + 1] = status[1]
  BY <1>2, <1>7
<1>. QED BY <1>3, <1>7, <1>8, <1>9, Zenon DEF b, c, Read

\* The title and the description are found after the header.
LEMMA TextsReadBack ==
    ASSUME NEW V, Int \subseteq V, NEW front \in Seq(V), Len(front) = HeaderSize,
           NEW title \in Seq(V), NEW description \in Seq(V),
           LengthFits(Len(title)), LengthFits(Len(description)),
           NEW s, s = Join(front, SerializeMetadata(title, description))
    PROVE  TitleIn(s) = title /\ DescriptionIn(s) = description
<1>. DEFINE u == U16ToHexLE(Len(title))
            w == U16ToHexLE(Len(description))
            m == Len(title)
            n == Len(description)
<1>1. /\ u \in Seq(V) /\ Len(u) = 2 /\ FromLE(u) = m
      /\ w \in Seq(V) /\ Len(w) = 2 /\ FromLE(w) = n
  <2>1. /\ u \in Seq(Int) /\ Len(u) = 2 /\ FromLE(u) = m
        /\ w \in Seq(Int) /\ Len(w) = 2 /\ FromLE(w) = n
    BY LengthReadsBack
  <2>. QED BY <2>1, SeqMonotonic
<1>2. m \in Nat /\ n \in Nat
  BY LenProperties
<1>3. SerializeMetadata(title, description) = Join(Join(Join(u, title), w), description)
  BY DEF SerializeMetadata, Join
<1>. HIDE DEF u, w
<1>4. PICK fu : fu = Join(front, u)
  OBVIOUS
<1>5. PICK fut : fut = Join(fu, title)
  OBVIOUS
<1>6. PICK wd : wd = Join(w, description)
  OBVIOUS
<1>7. PICK twd : twd = Join(title, wd)
  OBVIOUS
<1>8. fu \in Seq(V) /\ Len(fu) = HeaderSize + 2
  <2>1. u \in Seq(V)
    BY <1>1
  <2>2. fu \in Seq(V) /\ Len(fu) = Len(front) + Len(u)
    BY <1>4, <2>1, JoinLen
  <2>. QED BY <1>1, <2>2
<1>9. fut \in Seq(V) /\ Len(fut) = HeaderSize + 2 + m
  BY <1>5, <1>8, JoinLen
<1>10. wd \in Seq(V) /\ Len(wd) = 2 + n
  BY <1>1, <1>6, JoinLen
<1>11. twd \in Seq(V) /\ Len(twd) = m + 2 + n
  <2>1. wd \in Seq(V)
    BY <1>10
  <2>2. twd \in Seq(V) /\ Len(twd) = Len(title) + Len(wd)
    BY <1>7, <2>1, JoinLen
  <2>. QED BY <1>2, <1>10, <2>2
<1>12. s = Join(fu, twd)
  <2>1. PICK ut : ut = Join(u, title)
    OBVIOUS
  <2>2. ut \in Seq(V)
    BY <1>1, <2>1, JoinLen
  <2>3. Join(Join(ut, w), description) = Join(ut, wd)
    BY <1>1, <1>6, <2>2, Shift
  <2>4. Join(Join(u, title), wd) = Join(u, twd)
    BY <1>1, <1>7, <1>10, Shift
  <2>5. Join(Join(front, u), twd) = Join(front, Join(u, twd))
    BY <1>1, <1>11, Shift
  <2>. QED BY <1>3, <1>4, <2>1, <2>3, <2>4, <2>5, Zenon
<1>13. Parts(V, s, front, u, twd)
  BY <1>1, <1>4, <1>11, <1>12, Zenon DEF Parts
<1>14. Parts(V, s, fu, title, wd)
  <2>1. Join(Join(fu, title), wd) = Join(fu, Join(title, wd))
    BY <1>8, <1>10, Shift
  <2>. QED BY <1>7, <1>8, <1>10, <1>12, <2>1, Zenon DEF Parts
<1>15. Parts(V, s, fut, w, description)
  <2>1. Join(Join(fut, w), description) = Join(fut, Join(w, description))
    BY <1>1, <1>9, Shift
  <2>2. s = Join(fut, wd)
    BY <1>5, <1>14, Zenon DEF Parts
  <2>. QED BY <1>1, <1>6, <1>9, <2>1, <2>2, Zenon DEF Parts
<1>16. s \in Seq(V) /\ Len(s) = HeaderSize + 4 + m + n
  <2>1. s \in Seq(V) /\ Len(s) = Len(fu) + Len(twd)
    BY <1>8, <1>11, <1>12, JoinLen
  <2>. QED BY <1>2, <1>8, <1>11, <2>1, Offsets
<1>17. LengthAt(s, HeaderSize) = m
  <2>1. Slice(s, Len(front), Len(front) + Len(u)) = u
    BY <1>13, MiddleSliced
  <2>. QED BY <1>1, <2>1, Zenon DEF LengthAt
<1>18. LengthAt(s, HeaderSize + 2 + m) = n
  <2>1. Slice(s, Len(fut), Len(fut) + Len(w)) = w
    BY <1>15, MiddleSliced
  <2>. QED BY <1>1, <1>9, <2>1, Zenon DEF LengthAt
<1>19. Slice(s, HeaderSize + 2, HeaderSize + 2 + m) = title
  <2>1. Slice(s, Len(fu), Len(fu) + Len(title)) = title
    BY <1>14, MiddleSliced
  <2>. QED BY <1>8, <2>1, Zenon
<1>20. Slice(s, HeaderSize + 2 + m + 2, HeaderSize + 2 + m + 2 + n) = description
  <2>1. SubSeq(s, Len(fut) + Len(w) + 1, Len(s)) = description
    BY <1>15, BackCut
  <2>2. HeaderSize + 2 + m + 2 + n = Len(s) /\ Len(fut) + Len(w) = HeaderSize + 2 + m + 2
    BY <1>1, <1>2, <1>9, <1>16, Offsets
  <2>3. Len(s) <= Len(s)
    BY <1>2, <1>16, Offsets
  <2>. QED BY <2>1, <2>2, <2>3, Zenon DEF Slice
<1>21. Len(s) > HeaderSize + 2
  BY <1>2, <1>16, Offsets
<1>22. TextAt(s, HeaderSize) = title
  <2>1. CASE m = 0
    <3>1. title = <<>>
      BY <2>1, EmptySeq
    <3>2. ~ TextFits(s, HeaderSize)
      BY <1>17, <2>1 DEF TextFits
    <3>. QED BY <3>1, <3>2, Zenon DEF TextAt
  <2>2. CASE m # 0
    <3>1. m > 0 /\ HeaderSize + 2 + m <= Len(s)
      BY <1>2, <1>16, <2>2, Offsets
    <3>2. TextFits(s, HeaderSize)
      BY <1>17, <3>1, Zenon DEF TextFits
    <3>. QED BY <1>17, <1>19, <3>2, Zenon DEF TextAt
  <2>. QED BY <2>1, <2>2
<1>23. TitleIn(s) = title
  BY <1>21, <1>22, Zenon DEF TitleIn
<1>24. TextAt(s, HeaderSize + 2 + m) = description
  <2>1. CASE n = 0
    <3>1. description = <<>>
      BY <2>1, EmptySeq
    <3>2. ~ TextFits(s, HeaderSize + 2 + m)
      BY <1>18, <2>1 DEF TextFits
    <3>. QED BY <3>1, <3>2, Zenon DEF TextAt
  <2>2. CASE n # 0
    <3>1. n > 0 /\ HeaderSize + 2 + m + 2 + n <= Len(s)
      BY <1>2, <1>16, <2>2, Offsets
    <3>2. TextFits(s, HeaderSize + 2 + m)
      BY <1>18, <3>1, Zenon DEF TextFits
    <3>. QED BY <1>18, <1>20, <3>2, Zenon DEF TextAt
  <2>. QED BY <2>1, <2>2
<1>25. HeaderSize + 2 + m + 2 <= Len(s)
  BY <1>2, <1>16, Offsets
<1>26. DescriptionIn(s) = description
  BY <1>21, <1>23, <1>24, <1>25, Zenon DEF DescriptionIn
<1>. QED BY <1>23, <1>26

\* The three statuses, and what a campaign was created with.
StatusNames == {"Active", "Success", "Failed"}

Terms(V, c, title, description) ==
    /\ Int \subseteq V
    /\ c.creator \in V /\ Fits(c.goal) /\ Fits(c.deadline)
    /\ title \in Seq(V) /\ LengthFits(Len(title))
    /\ description \in Seq(V) /\ LengthFits(Len(description))

LEMMA StatusReadsBack ==
    ASSUME NEW status \in StatusNames
    PROVE  StatusByte(status) \in 0 .. 2 /\ StatusOf(StatusByte(status)) = status
<1>1. /\ Statuses[1] = "Active" /\ Statuses[2] = "Success" /\ Statuses[3] = "Failed"
  BY DEF Statuses
<1>2. \E b \in 0 .. 2 : Statuses[b + 1] = status
  <2>1. CASE status = "Active"
    <3>1. 0 \in 0 .. 2 /\ 0 + 1 = 1
      OBVIOUS
    <3>. QED BY <1>1, <2>1, <3>1, Zenon
  <2>2. CASE status = "Success"
    <3>1. 1 \in 0 .. 2 /\ 1 + 1 = 2
      OBVIOUS
    <3>. QED BY <1>1, <2>2, <3>1, Zenon
  <2>3. CASE status = "Failed"
    <3>1. 2 \in 0 .. 2 /\ 2 + 1 = 3
      OBVIOUS
    <3>. QED BY <1>1, <2>3, <3>1, Zenon
  <2>. QED BY <2>1, <2>2, <2>3 DEF StatusNames
<1>. DEFINE b == StatusByte(status)
<1>3. b \in 0 .. 2 /\ Statuses[b + 1] = status
  BY <1>2, Zenon DEF StatusByte
<1>. HIDE DEF b
<1>4. ASSUME b \in {0, 1} PROVE StatusOf(b) = status
  BY <1>3, <1>4, Zenon DEF StatusOf
<1>5. ASSUME b \notin {0, 1} PROVE StatusOf(b) = status
  <2>1. b + 1 = 3
    BY <1>3, <1>5
  <2>2. status = "Failed"
    BY <1>1, <1>3, <2>1, Zenon
  <2>. QED BY <1>5, <2>2, Zenon DEF StatusOf
<1>6. StatusByte(status) \in 0 .. 2 /\ StatusOf(b) = status
  BY <1>3, <1>4, <1>5, Zenon DEF b
<1>. QED BY <1>6, Zenon DEF b

LEMMA Singletons ==
    ASSUME NEW V, NEW x \in V
    PROVE  <<x>> \in Seq(V) /\ Len(<<x>>) = 1 /\ <<x>>[1] = x
OBVIOUS

\* serializeCampaignDataWithStatus lays its arguments out.
Zeros == [i \in 1 .. Width |-> 0]

Written(V, s, c, total, status, title, description) ==
    /\ Contents(V, <<c.creator>>, c.goal, c.deadline, total, <<StatusByte(status)>>, Zeros,
                Metadata(title, description))
    /\ s = Bytes(<<c.creator>>, c.goal, c.deadline, total, <<StatusByte(status)>>, Zeros,
                 Metadata(title, description))

LEMMA SerializedContents ==
    ASSUME NEW V, NEW c, NEW title, NEW description, Terms(V, c, title, description),
           NEW total, Fits(total), NEW status \in StatusNames
    PROVE  Written(V, SerializeCampaignDataWithStatus(c, total, status, title, description),
                   c, total, status, title, description)
<1>. DEFINE reserved == [i \in 1 .. Width |-> 0]
            meta == Metadata(title, description)
            data == SerializeCampaignDataWithStatus(c, total, status, title, description)
<1>1. <<c.creator>> \in Seq(V) /\ Len(<<c.creator>>) = 1
  BY Singletons DEF Terms
<1>2. <<StatusByte(status)>> \in Seq(V) /\ Len(<<StatusByte(status)>>) = 1
  <2>1. StatusByte(status) \in V
    <3>1. \A b \in 0 .. 2 : b \in Int
      OBVIOUS
    <3>. QED BY <3>1, StatusReadsBack DEF Terms
  <2>. QED BY <2>1, Singletons
<1>3. reserved \in Seq(V) /\ Len(reserved) = Width
  <2>1. Width \in Nat /\ 0 \in V
    BY WidthAssumption DEF Terms
  <2>. QED BY <2>1
<1>4. meta \in Seq(V)
  <2>1. CASE title = <<>> /\ description = <<>>
    <3>1. meta = <<>>
      BY <2>1, Zenon DEF Metadata
    <3>2. <<>> \in Seq(V)
      OBVIOUS
    <3>. QED BY <3>1, <3>2, Zenon
  <2>2. CASE ~(title = <<>> /\ description = <<>>)
    <3>. DEFINE u == U16ToHexLE(Len(title))
                w == U16ToHexLE(Len(description))
    <3>1. u \in Seq(V) /\ w \in Seq(V)
      BY LengthReadsBack, SeqMonotonic DEF Terms
    <3>2. meta = Join(Join(Join(u, title), w), description)
      BY <2>2, Zenon DEF Metadata, SerializeMetadata, Join
    <3>. HIDE DEF u, w
    <3>3. title \in Seq(V) /\ description \in Seq(V)
      BY DEF Terms
    <3>4. Join(u, title) \in Seq(V)
      BY <3>1, <3>3, JoinLen
    <3>5. Join(Join(u, title), w) \in Seq(V)
      BY <3>1, <3>4, JoinLen
    <3>6. Join(Join(Join(u, title), w), description) \in Seq(V)
      BY <3>3, <3>5, JoinLen
    <3>. QED BY <3>2, <3>6, Zenon
  <2>. QED BY <2>1, <2>2
<1>5. Contents(V, <<c.creator>>, c.goal, c.deadline, total,
               <<StatusByte(status)>>, reserved, meta)
  BY <1>1, <1>2, <1>3, <1>4, Zenon DEF Contents, Terms
<1>6. data = Bytes(<<c.creator>>, c.goal, c.deadline, total,
                   <<StatusByte(status)>>, reserved, meta)
  BY Zenon DEF SerializeCampaignDataWithStatus, Bytes, Layout
<1>. QED BY <1>5, <1>6, Zenon DEF Written, Zeros

\* The indexer's parser gives back what serializeCampaignDataWithStatus was given,
\* the title and the description included, empty or not.
THEOREM CampaignReadsBack ==
    ASSUME NEW V, NEW c, NEW title, NEW description, Terms(V, c, title, description),
           NEW total, Fits(total), NEW status \in StatusNames
    PROVE  ParseCampaignData(
               SerializeCampaignDataWithStatus(c, total, status, title, description)) =
           {[creator |-> c.creator, goal |-> c.goal, deadline |-> c.deadline,
             total |-> total, status |-> status,
             title |-> title, description |-> description]}
<1>. DEFINE reserved == [i \in 1 .. Width |-> 0]
            meta == Metadata(title, description)
            h == <<c.creator>>
            st == <<StatusByte(status)>>
            data == SerializeCampaignDataWithStatus(c, total, status, title, description)
<1>1. /\ Contents(V, h, c.goal, c.deadline, total, st, reserved, meta)
      /\ data = Bytes(h, c.goal, c.deadline, total, st, reserved, meta)
  <2>1. Written(V, data, c, total, status, title, description)
    BY SerializedContents
  <2>. QED BY <2>1, Zenon DEF Written, Zeros
<1>2. h[1] = c.creator /\ st[1] = StatusByte(status)
  OBVIOUS
<1>. HIDE DEF h, st, reserved, meta, data
<1>3. Read(V, data, h, c.goal, c.deadline, total, st, reserved, meta)
  BY <1>1, CampaignPieces
<1>4. /\ data \in Seq(V) /\ Len(data) = HeaderSize + Len(meta)
      /\ data[1] = c.creator
      /\ FromLE(Slice(data, GoalAt, DeadlineAt)) = c.goal
      /\ FromLE(Slice(data, DeadlineAt, TotalAt)) = c.deadline
      /\ ReadTotalPledged(data) = total
      /\ StatusOf(data[StatusAt + 1]) = status
      /\ \E front \in Seq(V) : Len(front) = HeaderSize /\ data = Join(front, meta)
  BY <1>2, <1>3, StatusReadsBack, Zenon DEF Read, ReadTotalPledged
<1>5. Len(meta) \in Nat
  BY <1>1, LenProperties DEF Contents
<1>6. HasHeader(data)
  BY <1>4, <1>5, Offsets DEF HasHeader
<1>7. TitleIn(data) = title /\ DescriptionIn(data) = description
  <2>1. CASE title = <<>> /\ description = <<>>
    <3>1. meta = <<>>
      BY <2>1, Zenon DEF Metadata, meta
    <3>2. Len(data) = HeaderSize
      BY <1>4, <3>1, Offsets
    <3>3. ~(Len(data) > HeaderSize + 2)
      BY <3>2, Offsets
    <3>. QED BY <2>1, <3>3, Zenon DEF TitleIn, DescriptionIn
  <2>2. CASE ~(title = <<>> /\ description = <<>>)
    <3>1. meta = SerializeMetadata(title, description)
      BY <2>2, Zenon DEF Metadata, meta
    <3>2. PICK front \in Seq(V) : Len(front) = HeaderSize /\ data = Join(front, meta)
      BY <1>4
    <3>3. data = Join(front, SerializeMetadata(title, description))
      BY <3>1, <3>2, Zenon
    <3>. QED BY <3>2, <3>3, TextsReadBack DEF Terms
  <2>. QED BY <2>1, <2>2, Zenon
<1>8. ParseCampaignData(data) =
          {[creator |-> d[1], goal |-> FromLE(Slice(d, GoalAt, DeadlineAt)),
            deadline |-> FromLE(Slice(d, DeadlineAt, TotalAt)), total |-> ReadTotalPledged(d),
            status |-> StatusOf(d[StatusAt + 1]), title |-> TitleIn(d),
            description |-> DescriptionIn(d)] : d \in {data}}
  <2>1. {e \in {data} : HasHeader(e)} = {data}
    BY <1>6, Zenon
  <2>. QED BY <2>1, Zenon DEF ParseCampaignData
<1>9. ParseCampaignData(data) =
          {[creator |-> c.creator, goal |-> c.goal, deadline |-> c.deadline,
            total |-> total, status |-> status,
            title |-> title, description |-> description]}
  BY <1>4, <1>7, <1>8, Zenon
<1>. QED BY <1>9, Zenon DEF data

-----------------------------------------------------------------------------
(* The splices                                                              *)

LEMMA SpliceShape ==
    ASSUME NEW V, NEW data \in Seq(V), HasHeader(data),
           NEW field \in Seq(V), Len(field) = Width
    PROVE  /\ SpliceTotal(data, field) \in Seq(V)
           /\ Len(SpliceTotal(data, field)) = Len(data)
           /\ \A i \in 1 .. Len(data) :
                 SpliceTotal(data, field)[i] =
                     IF i \in TotalAt + 1 .. StatusAt THEN field[i - TotalAt] ELSE data[i]
<1> DEFINE head == SubSeq(data, 1, TotalAt)
           tail == SubSeq(data, StatusAt + 1, Len(data))
<1>1. /\ Len(data) \in Nat /\ StatusAt < Len(data) /\ TotalAt <= Len(data)
      /\ \A i \in 1 .. Len(data) : data[i] \in V
  BY Offsets, LenProperties, ElementOfSeq DEF HasHeader
<1>2. /\ head \in Seq(V) /\ Len(head) = TotalAt
      /\ \A i \in 1 .. TotalAt : head[i] = data[i]
  <2>1. \A i \in 1 .. TotalAt : data[i] \in V
    BY <1>1, Offsets
  <2>2. /\ head \in Seq(V)
        /\ Len(head) = IF 1 <= TotalAt THEN TotalAt - 1 + 1 ELSE 0
        /\ \A i \in 1 .. TotalAt - 1 + 1 : head[i] = data[1 + i - 1]
    BY <2>1, Offsets, SubSeqProperties
  <2> QED BY <2>2, Offsets
<1>3. /\ tail \in Seq(V) /\ Len(tail) = Len(data) - StatusAt
      /\ \A i \in 1 .. Len(data) - StatusAt : tail[i] = data[StatusAt + i]
  <2>1. \A i \in StatusAt + 1 .. Len(data) : data[i] \in V
    BY <1>1, Offsets
  <2>2. /\ tail \in Seq(V)
        /\ Len(tail) = IF StatusAt + 1 <= Len(data) THEN Len(data) - (StatusAt + 1) + 1 ELSE 0
        /\ \A i \in 1 .. Len(data) - (StatusAt + 1) + 1 : tail[i] = data[StatusAt + 1 + i - 1]
    BY <2>1, <1>1, Offsets, SubSeqProperties
  <2> QED BY <2>2, <1>1, Offsets
<1>4. SpliceTotal(data, field) = (head \o field) \o tail
  BY DEF SpliceTotal
<1> HIDE DEF head, tail
<1> DEFINE front == head \o field
<1>5. /\ front \in Seq(V) /\ Len(front) = StatusAt
      /\ \A i \in 1 .. StatusAt :
            front[i] = IF i <= TotalAt THEN head[i] ELSE field[i - TotalAt]
  <2>1. /\ front \in Seq(V)
        /\ Len(front) = Len(head) + Len(field)
        /\ \A i \in 1 .. Len(head) + Len(field) :
              front[i] = IF i <= Len(head) THEN head[i] ELSE field[i - Len(head)]
    BY <1>2, ConcatProperties
  <2>2. Len(head) = TotalAt /\ Len(head) + Len(field) = StatusAt
    BY <1>2, Offsets
  <2> QED BY <2>1, <2>2, Zenon
<1> HIDE DEF front
<1>6. /\ front \o tail \in Seq(V) /\ Len(front \o tail) = Len(data)
      /\ \A i \in 1 .. Len(data) :
            (front \o tail)[i] = IF i <= StatusAt THEN front[i] ELSE tail[i - StatusAt]
  <2>1. /\ front \o tail \in Seq(V)
        /\ Len(front \o tail) = Len(front) + Len(tail)
        /\ \A i \in 1 .. Len(front) + Len(tail) :
              (front \o tail)[i] = IF i <= Len(front) THEN front[i] ELSE tail[i - Len(front)]
    BY <1>3, <1>5, ConcatProperties
  <2> QED BY <2>1, <1>1, <1>3, <1>5, Offsets
<1>7. SpliceTotal(data, field) = front \o tail
  BY <1>4 DEF front
<1>8. ASSUME NEW i \in 1 .. Len(data)
      PROVE  (front \o tail)[i] =
                 IF i \in TotalAt + 1 .. StatusAt THEN field[i - TotalAt] ELSE data[i]
  <2>0. /\ (front \o tail)[i] = IF i <= StatusAt THEN front[i] ELSE tail[i - StatusAt]
        /\ i \in Nat /\ i >= 1 /\ i <= Len(data) /\ Len(data) \in Nat
    BY <1>1, <1>6
  <2>1. CASE i <= TotalAt
    <3>1. i \in 1 .. TotalAt /\ i \in 1 .. StatusAt /\ i <= StatusAt
      BY <2>0, <2>1, Offsets
    <3>2. front[i] = head[i] /\ head[i] = data[i]
      BY <2>1, <3>1, <1>2, <1>5
    <3>3. i \notin TotalAt + 1 .. StatusAt
      BY <2>0, <2>1, Offsets
    <3> QED BY <2>0, <3>1, <3>2, <3>3, Zenon
  <2>2. CASE i > TotalAt /\ i <= StatusAt
    <3>1. i \in 1 .. StatusAt /\ ~(i <= TotalAt) /\ i \in TotalAt + 1 .. StatusAt
      BY <2>0, <2>2, Offsets
    <3>2. front[i] = field[i - TotalAt]
      BY <3>1, <1>5, Zenon
    <3> QED BY <2>0, <2>2, <3>1, <3>2, Zenon
  <2>3. CASE i > StatusAt
    <3>1. i - StatusAt \in 1 .. Len(data) - StatusAt /\ StatusAt + (i - StatusAt) = i
      BY <2>0, <2>3, Offsets
    <3>2. tail[i - StatusAt] = data[StatusAt + (i - StatusAt)]
      BY <3>1, <1>3
    <3>3. ~(i <= StatusAt) /\ i \notin TotalAt + 1 .. StatusAt
      BY <2>0, <2>3, Offsets
    <3> QED BY <2>0, <3>1, <3>2, <3>3, Zenon
  <2>4. i <= TotalAt \/ (i > TotalAt /\ i <= StatusAt) \/ i > StatusAt
    BY <1>1, Offsets
  <2> QED BY <2>1, <2>2, <2>3, <2>4, Zenon
<1> QED BY <1>6, <1>7, <1>8

\* withTotalPledged is a surgical edit: the data keeps its length and every
\* byte outside total_pledged, the metadata tail included, as the campaign type
\* script requires byte for byte.
THEOREM TotalSpliceSurgical ==
    ASSUME NEW V, NEW data \in Seq(V), NEW total,
           U64ToHexLE(total) \in Seq(V),
           NEW new \in WithTotalPledged(data, total)
    PROVE  /\ Len(new) = Len(data)
           /\ \A i \in 1 .. Len(data) : i \notin TotalAt + 1 .. StatusAt => new[i] = data[i]
<1>1. /\ HasHeader(data) /\ Len(U64ToHexLE(total)) = Width
      /\ new = SpliceTotal(data, U64ToHexLE(total))
  BY DEF WithTotalPledged
<1> QED BY <1>1, SpliceShape

\* What was spliced in is what readTotalPledged finds: the readers and the
\* splice agree on the offset.
THEOREM SpliceReadsBack ==
    ASSUME NEW V, NEW data \in Seq(V), HasHeader(data),
           NEW field \in Seq(V), Len(field) = Width
    PROVE  ReadTotalPledged(SpliceTotal(data, field)) = FromLE(field)
<1> DEFINE new == SpliceTotal(data, field)
<1>1. /\ new \in Seq(V) /\ Len(new) = Len(data)
      /\ \A i \in 1 .. Len(data) :
            new[i] = IF i \in TotalAt + 1 .. StatusAt THEN field[i - TotalAt] ELSE data[i]
  BY SpliceShape
<1> HIDE DEF new
<1>2. Len(data) \in Nat /\ StatusAt < Len(data)
  BY Offsets, LenProperties DEF HasHeader
<1>3. Slice(new, TotalAt, StatusAt) = SubSeq(new, TotalAt + 1, StatusAt)
  BY <1>1, <1>2, Offsets DEF Slice
<1>4. /\ SubSeq(new, TotalAt + 1, StatusAt) \in Seq(V)
      /\ Len(SubSeq(new, TotalAt + 1, StatusAt)) = Width
      /\ \A i \in 1 .. Width : SubSeq(new, TotalAt + 1, StatusAt)[i] = new[TotalAt + i]
  BY <1>1, <1>2, Offsets
<1>5. \A i \in 1 .. Width : new[TotalAt + i] = field[i]
  BY <1>1, <1>2, Offsets
<1>6. SubSeq(new, TotalAt + 1, StatusAt) = field
  BY <1>4, <1>5, SeqEqual, Offsets
<1> QED BY <1>3, <1>6 DEF ReadTotalPledged, new

\* withCampaignStatus moves nothing but the status byte, so finalization
\* leaves total_pledged and the metadata as they were.
THEOREM StatusSpliceSurgical ==
    ASSUME NEW V, NEW data \in Seq(V), NEW status,
           NEW new \in WithCampaignStatus(data, status)
    PROVE  /\ DOMAIN new = DOMAIN data
           /\ \A i \in DOMAIN data : i # StatusAt + 1 => new[i] = data[i]
           /\ new[StatusAt + 1] = StatusByte(status)
<1>1. HasHeader(data) /\ new = [data EXCEPT ![StatusAt + 1] = StatusByte(status)]
  BY DEF WithCampaignStatus
<1>2. Len(data) \in Nat /\ StatusAt + 1 \in 1 .. Len(data) /\ DOMAIN data = 1 .. Len(data)
  BY <1>1, Offsets, LenProperties DEF HasHeader
<1> QED BY <1>1, <1>2

\* A splice is a serialization: the data of a campaign with another total is
\* what serializeCampaignDataWithStatus would write with that total, so however
\* many pledges were spliced in, nothing else of the campaign was lost.
THEOREM TotalSpliceRewrites ==
    ASSUME NEW V, NEW c, NEW title, NEW description, Terms(V, c, title, description),
           NEW total, Fits(total), NEW new, Fits(new), NEW status \in StatusNames
    PROVE  WithTotalPledged(
               SerializeCampaignDataWithStatus(c, total, status, title, description), new) =
           {SerializeCampaignDataWithStatus(c, new, status, title, description)}
<1>. DEFINE meta == Metadata(title, description)
            h == <<c.creator>>
            st == <<StatusByte(status)>>
            data == SerializeCampaignDataWithStatus(c, total, status, title, description)
            other == SerializeCampaignDataWithStatus(c, new, status, title, description)
            f == U64ToHexLE(new)
            g == U64ToHexLE(c.goal)
            d == U64ToHexLE(c.deadline)
<1>1. /\ Written(V, data, c, total, status, title, description)
      /\ Written(V, other, c, new, status, title, description)
  BY SerializedContents
<1>2. f \in Seq(V) /\ Len(f) = Width /\ g \in Seq(V) /\ d \in Seq(V)
  BY FieldShape, SeqMonotonic DEF Terms
<1>. HIDE DEF h, st, meta, data, other, f, g, d
<1>3. Contents(V, h, c.goal, c.deadline, total, st, Zeros, meta)
  BY <1>1, Zenon DEF Written, h, st, meta
<1>4. data = Bytes(h, c.goal, c.deadline, total, st, Zeros, meta)
  BY <1>1, Zenon DEF Written, h, st, meta
<1>5. other = Layout(h, g, d, f, st, Zeros, meta)
  BY <1>1, Zenon DEF Written, Bytes, h, st, meta, f, g, d
<1>6. Read(V, data, h, c.goal, c.deadline, total, st, Zeros, meta)
  BY <1>3, <1>4, CampaignPieces
<1>7. /\ Len(data) = HeaderSize + Len(meta)
      /\ SubSeq(data, 1, TotalAt) = Join(Join(h, g), d)
      /\ SubSeq(data, StatusAt + 1, Len(data)) = Join(st, Join(Zeros, meta))
  BY <1>6, Zenon DEF Read, g, d
<1>8. Len(meta) \in Nat
  BY <1>3, LenProperties DEF Contents
<1>9. HasHeader(data)
  BY <1>7, <1>8, Offsets DEF HasHeader
<1>10. SpliceTotal(data, f) = Join(Join(Join(Join(h, g), d), f), Join(st, Join(Zeros, meta)))
  <2>1. SpliceTotal(data, f)
            = Join(Join(SubSeq(data, 1, TotalAt), f), SubSeq(data, StatusAt + 1, Len(data)))
    BY Zenon DEF SpliceTotal, Join
  <2>. QED BY <1>7, <2>1, Zenon
<1>11. Pieces(V, h, g, d, f, st, Zeros, meta)
  BY <1>2, <1>3, Zenon DEF Pieces, Contents
<1>12. Layout(h, g, d, f, st, Zeros, meta)
           = Join(Join(Join(Join(h, g), d), f), Join(st, Join(Zeros, meta)))
  BY <1>11, Regroup
<1>13. SpliceTotal(data, f) = other
  BY <1>5, <1>10, <1>12, Zenon
<1>14. {x \in {f} : HasHeader(data) /\ Len(x) = Width} = {f}
  BY <1>2, <1>9, Zenon
<1>15. WithTotalPledged(data, new) = {SpliceTotal(data, x) : x \in {f}}
  BY <1>14, Zenon DEF WithTotalPledged, f
<1>16. WithTotalPledged(data, new) = {other}
  BY <1>13, <1>15, Zenon
<1>. QED BY <1>16, Zenon DEF data, other

\* The elements of z: those of x, then those of y.
Follows(z, x, y) ==
    /\ \A i \in 1 .. Len(x) : z[i] = x[i]
    /\ \A i \in 1 .. Len(y) : z[Len(x) + i] = y[i]

LEMMA JoinAt ==
    ASSUME NEW V, NEW x \in Seq(V), NEW y \in Seq(V)
    PROVE  Follows(Join(x, y), x, y)
<1>1. Len(x) \in Nat /\ Len(y) \in Nat
  BY LenProperties
<1>2. \A i \in 1 .. Len(x) + Len(y) :
          (x \o y)[i] = IF i <= Len(x) THEN x[i] ELSE y[i - Len(x)]
  BY ConcatProperties
<1>3. ASSUME NEW i \in 1 .. Len(x) PROVE (x \o y)[i] = x[i]
  <2>1. i \in 1 .. Len(x) + Len(y) /\ i <= Len(x)
    BY <1>1
  <2>. QED BY <1>2, <2>1
<1>4. ASSUME NEW i \in 1 .. Len(y) PROVE (x \o y)[Len(x) + i] = y[i]
  <2>1. /\ Len(x) + i \in 1 .. Len(x) + Len(y) /\ ~(Len(x) + i <= Len(x))
        /\ Len(x) + i - Len(x) = i
    BY <1>1
  <2>. QED BY <1>2, <2>1
<1>. QED BY <1>3, <1>4, Zenon DEF Join, Follows

\* The one element between two parts, replaced.
LEMMA MiddleReplaced ==
    ASSUME NEW V, NEW a, NEW x \in V, NEW y \in V, NEW c, NEW s, Parts(V, s, a, <<x>>, c)
    PROVE  [s EXCEPT ![Len(a) + 1] = y] = Join(Join(a, <<y>>), c)
<1>. DEFINE t == Join(Join(a, <<y>>), c)
            p == Join(a, <<x>>)
            q == Join(a, <<y>>)
            m == Len(a)
<1>1. a \in Seq(V) /\ c \in Seq(V) /\ s = Join(p, c) /\ m \in Nat /\ Len(c) \in Nat
  BY LenProperties DEF Parts
<1>2. /\ <<x>> \in Seq(V) /\ Len(<<x>>) = 1 /\ <<x>>[1] = x
      /\ <<y>> \in Seq(V) /\ Len(<<y>>) = 1 /\ <<y>>[1] = y
  BY Singletons
<1>3. /\ p \in Seq(V) /\ Len(p) = m + 1
      /\ \A i \in 1 .. m : p[i] = a[i]
  <2>1. /\ a \o <<x>> \in Seq(V) /\ Len(a \o <<x>>) = m + 1
        /\ \A i \in 1 .. m : (a \o <<x>>)[i] = a[i]
    BY <1>1
  <2>. QED BY <2>1, Zenon DEF Join
<1>4. /\ q \in Seq(V) /\ Len(q) = m + 1
      /\ \A i \in 1 .. m : q[i] = a[i]
      /\ q[m + 1] = y
  <2>1. /\ a \o <<y>> \in Seq(V) /\ Len(a \o <<y>>) = m + 1
        /\ \A i \in 1 .. m : (a \o <<y>>)[i] = a[i]
        /\ (a \o <<y>>)[m + 1] = y
    BY <1>1
  <2>. QED BY <2>1, Zenon DEF Join
<1>. HIDE DEF p, q
<1>5. /\ s \in Seq(V) /\ Len(s) = m + 1 + Len(c)
      /\ \A i \in 1 .. m + 1 : s[i] = p[i]
      /\ \A i \in 1 .. Len(c) : s[m + 1 + i] = c[i]
  <2>1. p \in Seq(V) /\ Len(p) = m + 1
    BY <1>3
  <2>2. /\ Join(p, c) \in Seq(V) /\ Len(Join(p, c)) = Len(p) + Len(c)
        /\ Follows(Join(p, c), p, c)
    BY <1>1, <2>1, JoinLen, JoinAt
  <2>. QED BY <1>1, <2>1, <2>2, Zenon DEF Follows
<1>6. /\ t \in Seq(V) /\ Len(t) = m + 1 + Len(c)
      /\ \A i \in 1 .. m + 1 : t[i] = q[i]
      /\ \A i \in 1 .. Len(c) : t[m + 1 + i] = c[i]
  <2>1. q \in Seq(V) /\ Len(q) = m + 1
    BY <1>4
  <2>2. /\ Join(q, c) \in Seq(V) /\ Len(Join(q, c)) = Len(q) + Len(c)
        /\ Follows(Join(q, c), q, c)
    BY <1>1, <2>1, JoinLen, JoinAt
  <2>. QED BY <2>1, <2>2, Zenon DEF q, Follows
<1>. HIDE DEF t
<1>. DEFINE e == [s EXCEPT ![m + 1] = y]
<1>7. m + 1 \in 1 .. Len(s)
  BY <1>1, <1>5
<1>8. /\ e \in Seq(V) /\ Len(e) = Len(s)
      /\ \A j \in 1 .. Len(s) : e[j] = IF j = m + 1 THEN y ELSE s[j]
  BY <1>5, <1>7, ExceptSeq
<1>. HIDE DEF e
<1>9. ASSUME NEW j \in 1 .. Len(e) PROVE e[j] = t[j]
  <2>1. j \in Nat /\ 1 <= j /\ j <= m + 1 + Len(c)
    BY <1>1, <1>5, <1>8
  <2>2. CASE j <= m
    <3>1. j \in 1 .. m /\ j \in 1 .. m + 1 /\ j # m + 1 /\ j \in 1 .. Len(s)
      BY <1>1, <1>8, <2>1, <2>2
    <3>2. e[j] = s[j] /\ s[j] = p[j] /\ p[j] = a[j] /\ t[j] = q[j] /\ q[j] = a[j]
      BY <1>3, <1>4, <1>5, <1>6, <1>8, <3>1, Zenon
    <3>. QED BY <3>2, Zenon
  <2>3. CASE j = m + 1
    <3>1. j \in 1 .. m + 1 /\ j \in 1 .. Len(s)
      BY <1>1, <1>8, <2>1, <2>3
    <3>2. e[j] = y /\ t[j] = q[j] /\ q[j] = y
      BY <1>4, <1>6, <1>8, <2>3, <3>1, Zenon
    <3>. QED BY <3>2, Zenon
  <2>4. CASE j > m + 1
    <3>1. /\ j - (m + 1) \in 1 .. Len(c) /\ m + 1 + (j - (m + 1)) = j
          /\ j # m + 1 /\ j \in 1 .. Len(s)
      BY <1>1, <1>8, <2>1, <2>4
    <3>2. s[m + 1 + (j - (m + 1))] = c[j - (m + 1)] /\ t[m + 1 + (j - (m + 1))] = c[j - (m + 1)]
      BY <1>5, <1>6, <3>1, Zenon
    <3>3. e[j] = s[j]
      BY <1>8, <3>1, Zenon
    <3>. QED BY <3>1, <3>2, <3>3, Zenon
  <2>5. j <= m \/ j = m + 1 \/ j > m + 1
    BY <1>1, <2>1
  <2>. QED BY <2>2, <2>3, <2>4, <2>5
<1>10. Len(e) = Len(t)
  BY <1>5, <1>6, <1>8
<1>11. e = t
  BY <1>6, <1>8, <1>9, <1>10, SeqEqual
<1>. QED BY <1>11, Zenon DEF e, t

\* Likewise the status: finalization leaves the campaign as if it had been
\* written with the new status in the first place.
THEOREM StatusSpliceRewrites ==
    ASSUME NEW V, NEW c, NEW title, NEW description, Terms(V, c, title, description),
           NEW total, Fits(total), NEW status \in StatusNames, NEW new \in StatusNames
    PROVE  WithCampaignStatus(
               SerializeCampaignDataWithStatus(c, total, status, title, description), new) =
           {SerializeCampaignDataWithStatus(c, total, new, title, description)}
<1>. DEFINE meta == Metadata(title, description)
            h == <<c.creator>>
            x == StatusByte(status)
            y == StatusByte(new)
            data == SerializeCampaignDataWithStatus(c, total, status, title, description)
            other == SerializeCampaignDataWithStatus(c, total, new, title, description)
            f == U64ToHexLE(total)
            g == U64ToHexLE(c.goal)
            d == U64ToHexLE(c.deadline)
<1>1. /\ Written(V, data, c, total, status, title, description)
      /\ Written(V, other, c, total, new, title, description)
  BY SerializedContents
<1>2. /\ f \in Seq(V) /\ Len(f) = Width /\ g \in Seq(V) /\ Len(g) = Width
      /\ d \in Seq(V) /\ Len(d) = Width
  BY FieldShape, SeqMonotonic DEF Terms
<1>3. x \in V /\ y \in V
  <2>1. x \in 0 .. 2 /\ y \in 0 .. 2
    BY StatusReadsBack
  <2>2. \A b \in 0 .. 2 : b \in Int
    OBVIOUS
  <2>. QED BY <2>1, <2>2 DEF Terms
<1>. HIDE DEF h, x, y, meta, data, other, f, g, d
<1>4. /\ Contents(V, h, c.goal, c.deadline, total, <<x>>, Zeros, meta)
      /\ Contents(V, h, c.goal, c.deadline, total, <<y>>, Zeros, meta)
  BY <1>1, Zenon DEF Written, h, x, y, meta
<1>5. /\ data = Layout(h, g, d, f, <<x>>, Zeros, meta)
      /\ other = Layout(h, g, d, f, <<y>>, Zeros, meta)
  BY <1>1, Zenon DEF Written, Bytes, h, x, y, meta, f, g, d
<1>6. /\ Pieces(V, h, g, d, f, <<x>>, Zeros, meta)
      /\ Pieces(V, h, g, d, f, <<y>>, Zeros, meta)
  BY <1>2, <1>4, Zenon DEF Pieces, Contents
<1>7. PICK front : front = Join(Join(Join(h, g), d), f)
  OBVIOUS
<1>8. PICK tail : tail = Join(Zeros, meta)
  OBVIOUS
<1>9. data = Join(Join(front, <<x>>), tail) /\ other = Join(Join(front, <<y>>), tail)
  <2>1. Layout(h, g, d, f, <<x>>, Zeros, meta)
            = Join(Join(Join(Join(Join(h, g), d), f), <<x>>), Join(Zeros, meta))
    BY <1>6, Regroup
  <2>2. Layout(h, g, d, f, <<y>>, Zeros, meta)
            = Join(Join(Join(Join(Join(h, g), d), f), <<y>>), Join(Zeros, meta))
    BY <1>6, Regroup
  <2>. QED BY <1>5, <1>7, <1>8, <2>1, <2>2, Zenon
<1>10. /\ h \in Seq(V) /\ Len(h) = 1 /\ Zeros \in Seq(V) /\ Len(Zeros) = Width
       /\ meta \in Seq(V)
  BY <1>4, Zenon DEF Contents
<1>11. front \in Seq(V) /\ Len(front) = StatusAt
  <2>1. Join(h, g) \in Seq(V) /\ Len(Join(h, g)) = Len(h) + Len(g)
    BY <1>2, <1>10, JoinLen
  <2>2. /\ Join(Join(h, g), d) \in Seq(V)
        /\ Len(Join(Join(h, g), d)) = Len(Join(h, g)) + Len(d)
    BY <1>2, <2>1, JoinLen
  <2>3. /\ Join(Join(Join(h, g), d), f) \in Seq(V)
        /\ Len(Join(Join(Join(h, g), d), f)) = Len(Join(Join(h, g), d)) + Len(f)
    BY <1>2, <2>2, JoinLen
  <2>4. 1 + Width + Width + Width = StatusAt
    BY Offsets
  <2>. QED BY <1>2, <1>7, <1>10, <2>1, <2>2, <2>3, <2>4, Zenon
<1>12. tail \in Seq(V) /\ Len(tail) = Width + Len(meta)
  BY <1>8, <1>10, JoinLen
<1>13. <<x>> \in Seq(V) /\ Len(<<x>>) = 1
  BY <1>3, Singletons
<1>14. Parts(V, data, front, <<x>>, tail)
  BY <1>9, <1>11, <1>12, <1>13, Zenon DEF Parts
<1>15. [data EXCEPT ![Len(front) + 1] = y] = Join(Join(front, <<y>>), tail)
  BY <1>3, <1>14, MiddleReplaced
<1>16. [data EXCEPT ![StatusAt + 1] = y] = other
  BY <1>9, <1>11, <1>15, Zenon
<1>17. HasHeader(data)
  <2>1. PICK z : z = Join(front, <<x>>)
    OBVIOUS
  <2>2. z \in Seq(V) /\ Len(z) = StatusAt + 1
    <3>1. <<x>> \in Seq(V)
      BY <1>13
    <3>2. z \in Seq(V) /\ Len(z) = Len(front) + Len(<<x>>)
      BY <1>11, <2>1, <3>1, JoinLen
    <3>. QED BY <1>11, <1>13, <3>2, Zenon
  <2>3. Len(data) = Len(z) + Len(tail)
    <3>1. z \in Seq(V) /\ tail \in Seq(V) /\ data = Join(z, tail)
      BY <1>9, <1>12, <2>1, <2>2, Zenon
    <3>. QED BY <3>1, JoinLen
  <2>4. Len(meta) \in Nat
    BY <1>10, LenProperties
  <2>. QED BY <1>12, <2>2, <2>3, <2>4, Offsets DEF HasHeader
<1>18. {z \in {data} : HasHeader(z)} = {data}
  BY <1>17, Zenon
<1>19. WithCampaignStatus(data, new) = {[z EXCEPT ![StatusAt + 1] = y] : z \in {data}}
  BY <1>18, Zenon DEF WithCampaignStatus, y
<1>20. WithCampaignStatus(data, new) = {other}
  BY <1>16, <1>19, Zenon
<1>. QED BY <1>20, Zenon DEF data, other

\* The check that a total fits its field counts whole bytes: a number of one
\* digit more than the field passes it, and is written without that digit.  The
\* contracts' checked addition is what refuses such a pledge.
THEOREM OverflowByADigitPasses ==
    ASSUME NEW total, HexLength(total) = 2 * Width + 1
    PROVE  Len(U64ToHexLE(total)) = Width
<1>1. AtLeast(HexLength(total), 2 * Width) \div 2 = Width
  BY WidthAssumption DEF AtLeast
<1> QED BY <1>1, WidthAssumption DEF U64ToHexLE

\* The capacity formula counts a lock of 65 bytes, and the pledge lock takes
\* 105: the fifth it adds covers the difference for data of 62 bytes and more,
\* and a pledge has 72.  A receipt fits under any lock with up to 76 bytes of
\* args, a campaign under its own lock (calculateCellCapacity).
THEOREM CellsFit ==
    /\ \A size \in Nat : size >= 62 =>
          CellCapacity(size, 65, 32) >= OccupiedCapacity(size, 72, 32)
    /\ \A args \in Nat : args <= 76 =>
          CellCapacity(80, 65, 32) >= OccupiedCapacity(80, args, 32)
    /\ \A size \in Nat : CellCapacity(size, 65, 64) >= OccupiedCapacity(size, 8, 64)
BY DEF CellCapacity, OccupiedCapacity, AtLeast

=============================================================================
