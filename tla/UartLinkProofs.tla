------------------------------ MODULE UartLinkProofs ------------------------------
(***************************************************************************)
(* The node masks and the way to TashTalk: for masks, frames, resets and   *)
(* queues of any length.                                                   *)
(***************************************************************************)
EXTENDS UartLink, WellFoundedInduction, SequenceTheorems, TLAPS

-----------------------------------------------------------------------------
(* Definitions by recursion on numbers.                                    *)

LEMMA LeastNumber ==
  ASSUME NEW T \in SUBSET Nat, NEW n \in T
  PROVE  \E x \in T : \A y \in T : x <= y
<1>1. PICK x \in T : \A y \in T : ~(<<y, x>> \in OpToRel(<, Nat))
  BY NatLessThanWellFounded, WFMin
<1>2. \A y \in T : ~(y < x)
  BY <1>1 DEF OpToRel
<1> QED  BY <1>2

(* A sequence that begins with a, and goes on with the steps c.             *)
HasSequence(S, a, c) ==
  \E f \in [Nat -> S] : f[0] = a /\ \A n \in Nat : f[n + 1] = c[n][f[n]]

LEMMA Recursion ==
  ASSUME NEW S, NEW a \in S, NEW c \in [Nat -> [S -> S]]
  PROVE  HasSequence(S, a, c)
<1> DEFINE Upto(n) == {g \in [0 .. n -> S] :
                         g[0] = a /\ \A i \in 0 .. n - 1 : g[i + 1] = c[i][g[i]]}
           Without == {n \in Nat : Upto(n) = {}}
<1>1. Without = {}
  <2> SUFFICES ASSUME NEW m \in Without PROVE FALSE
    OBVIOUS
  <2>1. PICK n \in Without : \A y \in Without : n <= y
    <3>1. Without \in SUBSET Nat
      OBVIOUS
    <3> HIDE DEF Without
    <3> QED  BY <3>1, LeastNumber
  <2>2. n # 0
    <3>1. [i \in 0 .. 0 |-> a] \in Upto(0)
      OBVIOUS
    <3> QED  BY <3>1
  <2>3. n - 1 \in Nat /\ n - 1 \notin Without /\ n \in Nat
    <3>1. n \in Nat /\ n - 1 \in Nat
      BY <2>2
    <3> HIDE DEF Without
    <3> QED  BY <2>1, <3>1
  <2>4. PICK g : g \in Upto(n - 1)
    <3> HIDE DEF Upto
    <3> QED  BY <2>3
  <2> DEFINE h == [i \in 0 .. n |-> IF i = n THEN c[n - 1][g[n - 1]] ELSE g[i]]
  <2>5. h \in [0 .. n -> S]
    BY <2>3, <2>4
  <2>6. h[0] = a
    BY <2>2, <2>3, <2>4
  <2>7. \A i \in 0 .. n - 1 : h[i + 1] = c[i][h[i]]
    BY <2>3, <2>4
  <2> QED  BY <2>1, <2>5, <2>6, <2>7
<1> DEFINE G == [n \in Nat |-> CHOOSE g : g \in Upto(n)]
<1>2. \A n \in Nat : G[n] \in Upto(n)
  <2> SUFFICES ASSUME NEW n \in Nat PROVE G[n] \in Upto(n)
    OBVIOUS
  <2> HIDE DEF Upto
  <2>1. \E g : g \in Upto(n)
    BY <1>1
  <2> QED  BY <2>1
<1>3. ASSUME NEW m \in Nat, NEW n \in Nat, m <= n,
             NEW g \in Upto(m), NEW h \in Upto(n)
      PROVE  g[m] = h[m]
  <2> DEFINE Differ == {i \in 0 .. m : g[i] # h[i]}
  <2> SUFFICES ASSUME m \in Differ PROVE FALSE
    OBVIOUS
  <2>1. PICK i \in Differ : \A y \in Differ : i <= y
    <3>1. Differ \in SUBSET Nat
      BY <1>3
    <3> HIDE DEF Differ
    <3> QED  BY <3>1, LeastNumber
  <2>2. i # 0
    BY <2>1
  <2>3. i - 1 \in 0 .. m - 1 /\ i - 1 \in 0 .. n - 1 /\ i - 1 \notin Differ /\ (i - 1) + 1 = i
    BY <1>3, <2>1, <2>2
  <2>4. g[i - 1] = h[i - 1]
    BY <2>3
  <2>5. g[i] = c[i - 1][g[i - 1]] /\ h[i] = c[i - 1][h[i - 1]]
    BY <2>3
  <2> QED  BY <2>1, <2>4, <2>5
<1> DEFINE f == [n \in Nat |-> G[n][n]]
<1> HIDE DEF Without, G
<1>4. f \in [Nat -> S]
  <2>1. \A n \in Nat : n \in 0 .. n
    OBVIOUS
  <2> QED  BY <1>2, <2>1
<1>5. f[0] = a
  BY <1>2
<1>6. ASSUME NEW n \in Nat PROVE f[n + 1] = c[n][f[n]]
  <2>1. G[n] \in Upto(n) /\ G[n + 1] \in Upto(n + 1) /\ n \in 0 .. (n + 1) - 1 /\ n + 1 \in Nat
    BY <1>2
  <2>2. G[n][n] = G[n + 1][n]
    <3> HIDE DEF Upto
    <3> QED  BY <1>3, <2>1
  <2>3. G[n + 1][n + 1] = c[n][G[n + 1][n]]
    BY <2>1
  <2> QED  BY <2>1, <2>2, <2>3
<1> HIDE DEF f
<1> QED  BY <1>4, <1>5, <1>6 DEF HasSequence

-----------------------------------------------------------------------------
(* Bits and bytes.                                                         *)

LEMMA TableParameters ==
  /\ NodeBytes \in Nat /\ NodeBytes > 0 /\ ByteBits \in Nat /\ ByteBits > 0
  /\ Cutoff \in Nat /\ Cutoff > 0 /\ MaxTime \in Nat
BY TableAssumption

LEMMA BitDefined ==
  /\ Bit \in [Nat -> Nat] /\ Bit[0] = 1
  /\ \A n \in Nat : Bit[n + 1] = 2 * Bit[n]
<1> DEFINE c == [n \in Nat |-> [x \in Nat |-> 2 * x]]
<1>1. c \in [Nat -> [Nat -> Nat]]
  OBVIOUS
<1> HIDE DEF c
<1>2. PICK f \in [Nat -> Nat] : f[0] = 1 /\ \A n \in Nat : f[n + 1] = c[n][f[n]]
  <2>1. 1 \in Nat
    OBVIOUS
  <2>2. HasSequence(Nat, 1, c)
    BY <1>1, <2>1, Recursion
  <2> QED  BY <2>2 DEF HasSequence
<1>3. \A n \in Nat : f[n + 1] = 2 * f[n]
  BY <1>2 DEF c
<1>4. f = [n \in Nat |-> IF n = 0 THEN 1 ELSE 2 * f[n - 1]]
  <2>1. \A n \in Nat : f[n] = IF n = 0 THEN 1 ELSE 2 * f[n - 1]
    <3> SUFFICES ASSUME NEW n \in Nat, n # 0 PROVE f[n] = 2 * f[n - 1]
      BY <1>2
    <3>1. n - 1 \in Nat /\ (n - 1) + 1 = n
      OBVIOUS
    <3> QED  BY <1>3, <3>1
  <2> QED  BY <2>1
<1> DEFINE IsBit(g) == g = [n \in Nat |-> IF n = 0 THEN 1 ELSE 2 * g[n - 1]]
<1>5. Bit = CHOOSE g : IsBit(g)
  BY DEF Bit
<1>6. IsBit(Bit)
  <2>1. \E g : IsBit(g)
    BY <1>4
  <2> HIDE DEF IsBit
  <2> QED  BY <1>5, <2>1
<1>7. \A n \in Nat : Bit[n] = IF n = 0 THEN 1 ELSE 2 * Bit[n - 1]
  BY <1>6
<1>8. Bit[0] = 1
  BY <1>7
<1>9. \A n \in Nat : Bit[n + 1] = 2 * Bit[n]
  <2> SUFFICES ASSUME NEW n \in Nat PROVE Bit[n + 1] = 2 * Bit[n]
    OBVIOUS
  <2>1. n + 1 \in Nat /\ n + 1 # 0 /\ (n + 1) - 1 = n
    OBVIOUS
  <2> QED  BY <1>7, <2>1
<1>10. \A n \in Nat : Bit[n] = f[n]
  <2> DEFINE Differ == {n \in Nat : Bit[n] # f[n]}
  <2> SUFFICES ASSUME NEW m \in Differ PROVE FALSE
    OBVIOUS
  <2>1. PICK n \in Differ : \A y \in Differ : n <= y
    <3>1. Differ \in SUBSET Nat
      OBVIOUS
    <3> HIDE DEF Differ
    <3> QED  BY <3>1, LeastNumber
  <2>2. n \in Nat /\ n # 0
    BY <1>2, <1>8
  <2>3. n - 1 \in Nat /\ (n - 1) + 1 = n /\ n - 1 \notin Differ
    <3>1. n - 1 \in Nat /\ (n - 1) + 1 = n /\ ~(n <= n - 1)
      BY <2>2
    <3> HIDE DEF Differ
    <3> QED  BY <2>1, <3>1
  <2>4. Bit[n - 1] = f[n - 1]
    BY <2>3
  <2> QED  BY <1>3, <1>9, <2>3, <2>4
<1>11. Bit = [n \in Nat |-> IF n = 0 THEN 1 ELSE 2 * Bit[n - 1]]
  BY <1>6
<1>12. DOMAIN Bit = Nat
  BY <1>11, Zenon
<1>13. Bit = [n \in Nat |-> Bit[n]]
  BY <1>11, <1>12
<1>14. \A n \in Nat : Bit[n] \in Nat
  BY <1>2, <1>10
<1>15. Bit \in [Nat -> Nat]
  BY <1>13, <1>14
<1> QED  BY <1>8, <1>9, <1>15

LEMMA BitPositive == \A n \in Nat : Bit[n] \in Nat /\ Bit[n] > 0
<1> DEFINE Bad == {n \in Nat : ~(Bit[n] > 0)}
<1> SUFFICES ASSUME NEW m \in Bad PROVE FALSE
  BY BitDefined
<1>1. PICK n \in Bad : \A y \in Bad : n <= y
  <2>1. Bad \in SUBSET Nat
    OBVIOUS
  <2> HIDE DEF Bad
  <2> QED  BY <2>1, LeastNumber
<1>2. n \in Nat /\ n # 0
  BY BitDefined
<1>3. n - 1 \in Nat /\ (n - 1) + 1 = n /\ n - 1 \notin Bad
  <2>1. n - 1 \in Nat /\ (n - 1) + 1 = n /\ ~(n <= n - 1)
    BY <1>2
  <2> HIDE DEF Bad
  <2> QED  BY <1>1, <2>1
<1>4. Bit[n - 1] > 0 /\ Bit[n - 1] \in Nat /\ Bit[n] = 2 * Bit[n - 1]
  BY <1>3, BitDefined
<1> QED  BY <1>4

(* A bit is an even number of any lower bit.                               *)
LEMMA BitEven ==
  ASSUME NEW j \in Nat, NEW k \in Nat, j < k
  PROVE  \E p \in Nat : Bit[k] = (2 * p) * Bit[j]
<1> DEFINE Odd == {i \in Nat : j < i /\ ~\E p \in Nat : Bit[i] = (2 * p) * Bit[j]}
<1> SUFFICES ASSUME k \in Odd PROVE FALSE
  OBVIOUS
<1>1. PICK i \in Odd : \A y \in Odd : i <= y
  <2>1. Odd \in SUBSET Nat
    OBVIOUS
  <2> HIDE DEF Odd
  <2> QED  BY <2>1, LeastNumber
<1>2. i \in Nat /\ j < i /\ i - 1 \in Nat /\ (i - 1) + 1 = i
  OBVIOUS
<1>3. Bit[i] = 2 * Bit[i - 1] /\ Bit[j] \in Nat
  BY <1>2, BitDefined
<1>4. CASE i - 1 = j
  <2>1. Bit[i] = (2 * 1) * Bit[j]
    BY <1>3, <1>4
  <2> QED  BY <2>1
<1>5. CASE i - 1 # j
  <2>1. i - 1 \notin Odd /\ j < i - 1
    <3>1. j < i - 1 /\ ~(i <= i - 1)
      BY <1>2, <1>5
    <3> HIDE DEF Odd
    <3> QED  BY <1>1, <3>1
  <2>2. PICK p \in Nat : Bit[i - 1] = (2 * p) * Bit[j]
    BY <1>2, <2>1
  <2>3. 2 * p \in Nat /\ Bit[i] = (2 * (2 * p)) * Bit[j]
    BY <1>3, <2>2
  <2> QED  BY <2>3
<1> QED  BY <1>4, <1>5

(* Byte sets the bits one after the other.                                 *)
Weight(bits, k) == IF k \in bits THEN Bit[k] ELSE 0

LEMMA WeightType == \A bits : \A k \in Nat : Weight(bits, k) \in Nat
BY BitPositive DEF Weight

SetsBits(upto, bits) ==
  /\ upto \in [Nat -> Nat]
  /\ upto[0] = 0 /\ \A k \in Nat : upto[k + 1] = upto[k] + Weight(bits, k)

LEMMA ByteDefined ==
  ASSUME NEW bits
  PROVE  \E upto : SetsBits(upto, bits) /\ Byte(bits) = upto[ByteBits]
<1> DEFINE c == [k \in Nat |-> [x \in Nat |-> x + Weight(bits, k)]]
<1>1. c \in [Nat -> [Nat -> Nat]]
  BY WeightType
<1> HIDE DEF c
<1>2. PICK f \in [Nat -> Nat] : f[0] = 0 /\ \A n \in Nat : f[n + 1] = c[n][f[n]]
  <2>1. 0 \in Nat
    OBVIOUS
  <2>2. HasSequence(Nat, 0, c)
    BY <1>1, <2>1, Recursion
  <2> QED  BY <2>2 DEF HasSequence
<1>3. \A n \in Nat : f[n + 1] = f[n] + Weight(bits, n)
  BY <1>2 DEF c
<1> DEFINE IsUpto(g) ==
             g = [k \in Nat |->
                    IF k = 0 THEN 0
                    ELSE g[k - 1] + (IF k - 1 \in bits THEN Bit[k - 1] ELSE 0)]
<1>4. IsUpto(f)
  <2>1. \A k \in Nat :
          f[k] = IF k = 0 THEN 0
                 ELSE f[k - 1] + (IF k - 1 \in bits THEN Bit[k - 1] ELSE 0)
    <3> SUFFICES ASSUME NEW k \in Nat, k # 0
                 PROVE  f[k] = f[k - 1] + (IF k - 1 \in bits THEN Bit[k - 1] ELSE 0)
      BY <1>2
    <3>1. k - 1 \in Nat /\ (k - 1) + 1 = k
      OBVIOUS
    <3> QED  BY <1>3, <3>1 DEF Weight
  <2> QED  BY <2>1
<1> DEFINE upto == CHOOSE g : IsUpto(g)
<1>5. Byte(bits) = upto[ByteBits]
  BY DEF Byte
<1>6. IsUpto(upto)
  <2> HIDE DEF IsUpto
  <2> QED  BY <1>4
<1> HIDE DEF upto
<1>7. \A k \in Nat : upto[k] = IF k = 0 THEN 0
                 ELSE upto[k - 1] + (IF k - 1 \in bits THEN Bit[k - 1] ELSE 0)
  BY <1>6
<1>8. upto[0] = 0
  BY <1>7
<1>9. \A k \in Nat : upto[k + 1] = upto[k] + Weight(bits, k)
  <2> SUFFICES ASSUME NEW k \in Nat PROVE upto[k + 1] = upto[k] + Weight(bits, k)
    OBVIOUS
  <2>1. k + 1 \in Nat /\ k + 1 # 0 /\ (k + 1) - 1 = k
    OBVIOUS
  <2> QED  BY <1>7, <2>1 DEF Weight
<1>10. \A n \in Nat : upto[n] = f[n]
  <2> DEFINE Differ == {n \in Nat : upto[n] # f[n]}
  <2> SUFFICES ASSUME NEW m \in Differ PROVE FALSE
    OBVIOUS
  <2>1. PICK n \in Differ : \A y \in Differ : n <= y
    <3>1. Differ \in SUBSET Nat
      OBVIOUS
    <3> HIDE DEF Differ
    <3> QED  BY <3>1, LeastNumber
  <2>2. n \in Nat /\ n # 0
    BY <1>2, <1>8
  <2>3. n - 1 \in Nat /\ (n - 1) + 1 = n /\ n - 1 \notin Differ
    <3>1. n - 1 \in Nat /\ (n - 1) + 1 = n /\ ~(n <= n - 1)
      BY <2>2
    <3> HIDE DEF Differ
    <3> QED  BY <2>1, <3>1
  <2>4. upto[n - 1] = f[n - 1]
    BY <2>3
  <2> QED  BY <1>3, <1>9, <2>3, <2>4
<1>11. Byte(bits) = f[ByteBits]
  BY <1>5, <1>10, TableParameters
<1> QED  BY <1>2, <1>3, <1>11 DEF SetsBits

(* Below the next bit there is room for all that are set so far, and bits  *)
(* that are set do not change those below.                                 *)
HasBits(number, bits, n) ==
  /\ number < Bit[n]
  /\ \A j \in 0 .. n - 1 : \E q \in Nat, r \in 0 .. Bit[j] - 1 :
       number = (2 * q + (IF j \in bits THEN 1 ELSE 0)) * Bit[j] + r

LEMMA ByteUpto ==
  ASSUME NEW bits, NEW upto, SetsBits(upto, bits), NEW n \in Nat
  PROVE  HasBits(upto[n], bits, n)
<1>0. upto \in [Nat -> Nat] /\ upto[0] = 0
      /\ \A k \in Nat : upto[k + 1] = upto[k] + Weight(bits, k)
  BY DEF SetsBits
<1> DEFINE Parts(k, j) ==
             \E q \in Nat, r \in 0 .. Bit[j] - 1 :
               upto[k] = (2 * q + (IF j \in bits THEN 1 ELSE 0)) * Bit[j] + r
           Good(k) == upto[k] < Bit[k] /\ \A j \in 0 .. k - 1 : Parts(k, j)
           Bad == {k \in Nat : ~Good(k)}
<1> SUFFICES ASSUME n \in Bad PROVE FALSE
  BY DEF HasBits
<1>1. PICK m \in Bad : \A y \in Bad : m <= y
  <2>1. Bad \in SUBSET Nat
    OBVIOUS
  <2> HIDE DEF Bad
  <2> QED  BY <2>1, LeastNumber
<1>2. m \in Nat /\ ~Good(m)
  OBVIOUS
<1>3. Good(0)
  BY <1>0, BitDefined
<1>4. m # 0
  BY <1>2, <1>3
<1> DEFINE k == m - 1
<1>5. k \in Nat /\ k + 1 = m /\ Good(k)
  <2>1. k \in Nat /\ k + 1 = m /\ ~(m <= k)
    BY <1>2, <1>4
  <2> HIDE DEF Good
  <2> QED  BY <1>1, <2>1
<1> HIDE DEF Good, Bad, k
<1>6. /\ upto[m] = upto[k] + Weight(bits, k) /\ Bit[m] = 2 * Bit[k]
      /\ upto[k] \in Nat /\ Bit[k] \in Nat /\ upto[k] < Bit[k]
  BY <1>0, <1>5, BitDefined DEF Good
<1>7. Weight(bits, k) = 0 \/ Weight(bits, k) = Bit[k]
  BY DEF Weight
<1>8. upto[m] < Bit[m]
  BY <1>6, <1>7
<1>9. ASSUME NEW j \in 0 .. m - 1 PROVE Parts(m, j)
  <2>1. CASE j = k
    <3>1. upto[m] = (2 * 0 + (IF j \in bits THEN 1 ELSE 0)) * Bit[j] + upto[k]
      BY <1>6, <2>1 DEF Weight
    <3>2. upto[k] \in 0 .. Bit[j] - 1
      BY <1>6, <2>1
    <3> QED  BY <3>1, <3>2
  <2>2. CASE j # k
    <3>1. j \in 0 .. k - 1 /\ j \in Nat /\ j < k
      BY <1>5, <2>2
    <3>2. PICK q \in Nat, r \in 0 .. Bit[j] - 1 :
            upto[k] = (2 * q + (IF j \in bits THEN 1 ELSE 0)) * Bit[j] + r
      BY <1>5, <3>1 DEF Good
    <3>3. PICK p \in Nat : Bit[k] = (2 * p) * Bit[j]
      BY <1>5, <3>1, BitEven
    <3> DEFINE b == IF j \in bits THEN 1 ELSE 0
    <3>4. b \in Nat /\ upto[k] = (2 * q + b) * Bit[j] + r /\ Bit[j] \in Nat /\ r \in Nat
      BY <3>1, <3>2, BitDefined
    <3> HIDE DEF b
    <3>5. CASE Weight(bits, k) = 0
      <4>1. upto[m] = upto[k]
        BY <1>6, <3>5
      <4> QED  BY <3>2, <4>1
    <3>6. CASE Weight(bits, k) = Bit[k]
      <4>1. upto[m] = (2 * q + b) * Bit[j] + r + (2 * p) * Bit[j]
        BY <1>6, <3>3, <3>4, <3>6
      <4>2. upto[m] = (2 * (q + p) + b) * Bit[j] + r
        BY <3>4, <4>1
      <4>3. q + p \in Nat
        OBVIOUS
      <4> QED  BY <4>2, <4>3 DEF b
    <3> QED  BY <1>7, <3>5, <3>6
  <2> QED  BY <2>1, <2>2
<1>10. Good(m)
  BY <1>8, <1>9 DEF Good
<1> QED  BY <1>2, <1>10

LEMMA Quotient ==
  ASSUME NEW d \in Nat, d > 0, NEW m \in Nat, NEW r \in 0 .. d - 1
  PROVE  (m * d + r) \div d = m
OBVIOUS

LEMMA QuotientBounds ==
  ASSUME NEW d \in Nat, d > 0, NEW k \in Nat, NEW n \in 0 .. k * d - 1,
         NEW q, q = n \div d, NEW r, r = n % d
  PROVE  q \in 0 .. k - 1 /\ r \in 0 .. d - 1 /\ q * d + r = n
<1>1. n \in Int /\ k * d \in Int /\ 0 <= n /\ n < k * d
  OBVIOUS
<1>2. q \in Int /\ r \in 0 .. d - 1 /\ n = d * q + r
  BY <1>1
<1>3. q >= 0
  <2> SUFFICES ASSUME q <= -1 PROVE FALSE
    BY <1>2
  <2>1. d * q <= -d
    BY <1>2
  <2> QED  BY <1>1, <1>2, <2>1
<1>4. q < k
  <2> SUFFICES ASSUME k <= q PROVE FALSE
    BY <1>2
  <2>1. k * d <= d * q
    BY <1>2
  <2> QED  BY <1>1, <1>2, <2>1
<1> QED  BY <1>2, <1>3, <1>4

(* What uart_write_node_table writes, TashTalk reads.                      *)
LEMMA ByteListed ==
  ASSUME NEW bits
  PROVE  /\ Byte(bits) \in Bytes
         /\ \A j \in 0 .. ByteBits - 1 : (Byte(bits) \div Bit[j]) % 2 = 1 <=> j \in bits
<1>1. PICK upto : SetsBits(upto, bits) /\ Byte(bits) = upto[ByteBits]
  BY ByteDefined
<1>2. ByteBits \in Nat
  BY TableParameters
<1>3. HasBits(Byte(bits), bits, ByteBits)
  BY <1>1, <1>2, ByteUpto
<1>4. Byte(bits) \in Bytes
  BY <1>1, <1>2, <1>3, BitPositive DEF Bytes, HasBits, SetsBits
<1>5. ASSUME NEW j \in 0 .. ByteBits - 1
      PROVE  (Byte(bits) \div Bit[j]) % 2 = 1 <=> j \in bits
  <2> DEFINE b == IF j \in bits THEN 1 ELSE 0
  <2>1. PICK q \in Nat, r \in 0 .. Bit[j] - 1 : Byte(bits) = (2 * q + b) * Bit[j] + r
    BY <1>3 DEF HasBits
  <2>2. Bit[j] \in Nat /\ Bit[j] > 0 /\ b \in {0, 1}
    BY BitPositive
  <2> HIDE DEF b
  <2>3. 2 * q + b \in Nat
    BY <2>2
  <2>4. Byte(bits) \div Bit[j] = 2 * q + b
    BY <2>1, <2>2, <2>3, Quotient
  <2>5. (2 * q + b) % 2 = b
    BY <2>2
  <2>6. b = 1 <=> j \in bits
    BY DEF b
  <2> QED  BY <2>4, <2>5, <2>6
<1> QED  BY <1>4, <1>5

LEMMA MaskType ==
  ASSUME NEW tab, NEW cutoff
  PROVE  nt_serialise(tab, cutoff) \in [1 .. NodeBytes -> Bytes]
BY ByteListed DEF nt_serialise

LEMMA MaskLists ==
  ASSUME NEW tab, NEW cutoff
  PROVE  Listed(nt_serialise(tab, cutoff)) = {n \in NodeIds : nt_fresh(tab, n, cutoff)}
<1> DEFINE mask == nt_serialise(tab, cutoff)
<1> SUFFICES ASSUME NEW n \in NodeIds
             PROVE  (mask[n \div ByteBits + 1] \div Bit[n % ByteBits]) % 2 = 1
                      <=> nt_fresh(tab, n, cutoff)
  BY DEF Listed
<1> DEFINE i == n \div ByteBits + 1
           j == n % ByteBits
           bits == {l \in 0 .. ByteBits - 1 : nt_fresh(tab, (i - 1) * ByteBits + l, cutoff)}
<1>1. i \in 1 .. NodeBytes /\ j \in 0 .. ByteBits - 1 /\ (i - 1) * ByteBits + j = n
  <2>1. n \in 0 .. NodeBytes * ByteBits - 1
    BY DEF NodeIds
  <2> DEFINE q == n \div ByteBits
  <2>2. q = n \div ByteBits /\ j = n % ByteBits
    OBVIOUS
  <2>3. i = q + 1
    OBVIOUS
  <2> HIDE DEF q, i, j
  <2>4. q \in 0 .. NodeBytes - 1 /\ j \in 0 .. ByteBits - 1 /\ q * ByteBits + j = n
    BY <2>1, <2>2, TableParameters, QuotientBounds
  <2>5. i \in 1 .. NodeBytes /\ i - 1 = q
    BY <2>3, <2>4, TableParameters
  <2> QED  BY <2>4, <2>5
<1> HIDE DEF i, j
<1>2. mask[i] = Byte(bits)
  BY <1>1 DEF nt_serialise
<1>3. (Byte(bits) \div Bit[j]) % 2 = 1 <=> j \in bits
  <2> HIDE DEF bits
  <2> QED  BY <1>1, ByteListed
<1>4. j \in bits <=> nt_fresh(tab, n, cutoff)
  BY <1>1
<1> HIDE DEF mask, bits
<1>5. (mask[i] \div Bit[j]) % 2 = 1 <=> nt_fresh(tab, n, cutoff)
  BY <1>2, <1>3, <1>4
<1> QED  BY <1>5 DEF i, j

-----------------------------------------------------------------------------
(* The invariant.                                                          *)

(* Only uart_tx writes, or else nothing is there that could wake it.       *)
Alone ==
  /\ pc["main"] \in {"wait", "reset"}
  /\ pc["uart_rx"] \in {"wait", "reset"}
  /\ pc["uart_tx"] \in {"wait", "mask", "frame"}
  /\ pc["main"] = "reset" \/ pc["uart_rx"] = "reset"
       => pc["uart_tx"] = "wait" /\ UDPtoUART = <<>>
  /\ pc["main"] = "reset" => pc["uart_rx"] = "wait"

Counted == pc["uart_rx"] = "wait" => handshake_count <= MaxHandshakes

Total(l) == CASE l = "reset" -> ResetLength
              [] l = "mask"  -> MaskLength
              [] l = "frame" -> FrameLength
              [] OTHER       -> 1

Progress ==
  /\ \A t \in Writers : written[t] < Total(pc[t])
  /\ pc["uart_tx"] # "wait" => packet \in Frames /\ Len(packet) = ClaimedLength(packet)

(* TashTalk has not overlooked the end of a mask or of a frame.            *)
Unfinished ==
  /\ tt.mode = "mask" => Len(tt.got) < NodeBytes
  /\ tt.mode = "frame" => Len(tt.got) < 2 \/ Len(tt.got) < ClaimedLength(tt.got)

(* The zeros it takes at most until TashTalk waits for a command.          *)
Pending ==
  CASE tt.mode = "command" -> 0
    [] tt.mode = "mask"    -> NodeBytes - Len(tt.got)
    [] tt.mode = "frame"   -> IF Len(tt.got) < 2 THEN 2 - Len(tt.got)
                              ELSE ClaimedLength(tt.got) - Len(tt.got)
ZerosDo ==
  \A t \in Writers : pc[t] = "reset" /\ written[t] > NodeBytes =>
    Pending = 0 \/ Pending + written[t] <= Bit[ByteBits] + NodeBytes + 1

(* What TashTalk has of the first n bytes that were written to it.         *)
HasOf(mode, bytes, n) ==
  IF n = 0 THEN tt.mode = "command"
  ELSE /\ tt.mode = mode /\ Len(tt.got) = n - 1
       /\ \A i \in 1 .. n - 1 : tt.got[i] = bytes[i]
InStep ==
  /\ (\A t \in Writers : pc[t] = "wait") => tt.mode = "command"
  /\ \A t \in Writers : pc[t] = "reset" =>
       IF written[t] > NodeBytes THEN tt.mode = "command"
                                 ELSE HasOf("mask", nodebits, written[t])
  /\ pc["uart_tx"] = "mask" => HasOf("mask", nodebits, written["uart_tx"])
  /\ pc["uart_tx"] = "frame" => HasOf("frame", packet, written["uart_tx"])
Answers ==
  ~(pc["main"] = "reset" /\ written["main"] <= NodeBytes) /\ pc["uart_tx"] # "mask"
    => ttMask = nodebits

SenderListed ==
  pc["uart_tx"] # "wait" /\ packet[1] \notin {0, Everyone} => packet[1] \in Listed(nodebits)

LinkInv ==
  /\ TypeOK /\ Alone /\ Counted /\ Progress /\ Unfinished /\ ZerosDo
  /\ lost = 0 => InStep /\ Answers
  /\ SenderListed

-----------------------------------------------------------------------------
(* The table.                                                              *)

LEMMA LinkParameters ==
  /\ Bytes = NodeIds /\ 2 \in Bytes
  /\ \A f \in Frames : f \in Seq(Bytes) /\ Len(f) >= 2
  /\ ZeroCount \in Nat /\ ZeroCount > Bit[ByteBits]
  /\ MaxHandshakes \in Nat /\ QCap \in Nat \ {0} /\ MaxLost \in Nat
BY LinkAssumption

LEMMA NodeNumbers ==
  /\ Bit[ByteBits] \in Nat /\ Bit[ByteBits] > 2 /\ Bytes = 0 .. Bit[ByteBits] - 1
  /\ Everyone = Bit[ByteBits] - 1 /\ Everyone \in NodeIds /\ 0 \in NodeIds
  /\ NodeBytes <= Bit[ByteBits]
<1> DEFINE N == NodeBytes * ByteBits
<1>1. Bit[ByteBits] \in Nat
  BY BitPositive, TableParameters
<1>2. N \in Nat /\ NodeBytes <= N
  BY TableParameters
<1>3. Bytes = 0 .. Bit[ByteBits] - 1 /\ NodeIds = 0 .. N - 1 /\ Everyone = N - 1
  BY DEF Bytes, NodeIds, Everyone
<1> HIDE DEF N
<1>4. 0 .. Bit[ByteBits] - 1 = 0 .. N - 1 /\ 2 \in 0 .. Bit[ByteBits] - 1
  BY <1>3, LinkParameters
<1>5. \A x \in Nat, y \in Nat : 0 .. x - 1 = 0 .. y - 1 /\ 2 \in 0 .. x - 1 => x <= y
  OBVIOUS
<1>6. Bit[ByteBits] = N /\ N > 2
  <2>1. Bit[ByteBits] <= N
    BY <1>1, <1>2, <1>4, <1>5
  <2>2. N <= Bit[ByteBits]
    BY <1>1, <1>2, <1>4, <1>5
  <2> QED  BY <1>1, <1>2, <1>4, <2>1, <2>2
<1> QED  BY <1>1, <1>2, <1>3, <1>6

(* All that is done to the table and the mask.                             *)
Touch(n) ==
  /\ node_table' = nt_touch(node_table, n)
  /\ nodebits' = nt_serialise(node_table', Cutoff)
  /\ now' = now
StartAnew == now' = 0 /\ node_table' = EmptyTable /\ nodebits' = EmptyMask
TableStep ==
  Tick \/ (\E n \in NodeIds : Touch(n)) \/ StartAnew \/ UNCHANGED table

LEMMA EmptyTypes ==
  /\ EmptyTable \in [last_seen : [NodeIds -> {0}], seen_at_all : [NodeIds -> {FALSE}]]
  /\ EmptyMask \in [1 .. NodeBytes -> Bytes]
BY NodeNumbers DEF EmptyTable, EmptyMask

LEMMA TouchType ==
  ASSUME TableTypeOK, NEW n \in NodeIds, Touch(n)
  PROVE  TableTypeOK'
<1>1. /\ now \in Nat
      /\ node_table \in [last_seen : [NodeIds -> 0 .. now], seen_at_all : [NodeIds -> BOOLEAN]]
      /\ \A m \in {0, Everyone} : ~node_table.seen_at_all[m]
  BY DEF TableTypeOK
<1>2. nodebits' \in [1 .. NodeBytes -> 0 .. Bit[ByteBits] - 1]
  BY MaskType DEF Touch, Bytes
<1>3. CASE n \in {0, Everyone}
  BY <1>1, <1>2, <1>3 DEF Touch, nt_touch, TableTypeOK
<1>4. CASE n \notin {0, Everyone}
  <2>1. node_table' = [last_seen |-> [node_table.last_seen EXCEPT ![n] = now],
                       seen_at_all |-> [node_table.seen_at_all EXCEPT ![n] = TRUE]]
    BY <1>4 DEF Touch, nt_touch
  <2>2. [node_table.last_seen EXCEPT ![n] = now] \in [NodeIds -> 0 .. now]
    BY <1>1
  <2>3. [node_table.seen_at_all EXCEPT ![n] = TRUE] \in [NodeIds -> BOOLEAN]
    BY <1>1
  <2>4. \A m \in {0, Everyone} : ~[node_table.seen_at_all EXCEPT ![n] = TRUE][m]
    BY <1>1, <1>4, NodeNumbers
  <2>5. now' = now
    BY DEF Touch
  <2> QED  BY <1>1, <1>2, <2>1, <2>2, <2>3, <2>4, <2>5 DEF TableTypeOK
<1> QED  BY <1>3, <1>4

LEMMA TableTypeKept == ASSUME TableTypeOK, TableStep PROVE TableTypeOK'
<1>1. CASE Tick
  <2>1. now' = now + 1 /\ node_table' = node_table /\ nodebits' = nodebits
    BY <1>1 DEF Tick
  <2>2. /\ now \in Nat
        /\ node_table \in [last_seen : [NodeIds -> 0 .. now], seen_at_all : [NodeIds -> BOOLEAN]]
    BY DEF TableTypeOK
  <2>3. 0 .. now \subseteq 0 .. now'
    BY <2>1, <2>2
  <2>4. node_table' \in [last_seen : [NodeIds -> 0 .. now'], seen_at_all : [NodeIds -> BOOLEAN]]
    BY <2>1, <2>2, <2>3
  <2> QED  BY <2>1, <2>2, <2>4 DEF TableTypeOK
<1>2. CASE \E n \in NodeIds : Touch(n)
  BY <1>2, TouchType
<1>3. CASE StartAnew
  <2>1. 0 \in 0 .. now' /\ now' \in Nat
    BY <1>3 DEF StartAnew
  <2>2. node_table' \in [last_seen : [NodeIds -> 0 .. now'], seen_at_all : [NodeIds -> BOOLEAN]]
    BY <1>3, <2>1, EmptyTypes DEF StartAnew
  <2>3. \A m \in {0, Everyone} : ~node_table'.seen_at_all[m]
    BY <1>3, NodeNumbers DEF StartAnew, EmptyTable
  <2>4. nodebits' \in [1 .. NodeBytes -> 0 .. Bit[ByteBits] - 1]
    BY <1>3, EmptyTypes DEF StartAnew, Bytes
  <2> QED  BY <2>1, <2>2, <2>3, <2>4 DEF TableTypeOK
<1>4. CASE UNCHANGED table
  BY <1>4 DEF table, TableTypeOK
<1> QED  BY <1>1, <1>2, <1>3, <1>4 DEF TableStep

(* When a node is fresh: the special case for the first seconds is none.   *)
LEMMA FreshMeans ==
  TableTypeOK => FreshWithinASecond
<1> SUFFICES ASSUME TableTypeOK, NEW n \in NodeIds
             PROVE  /\ node_table.seen_at_all[n] /\ SecondsAgo(n) < Cutoff
                         => nt_fresh(node_table, n, Cutoff)
                    /\ nt_fresh(node_table, n, Cutoff)
                         => node_table.seen_at_all[n] /\ SecondsAgo(n) <= Cutoff
  BY DEF FreshWithinASecond
<1>1. now \in Nat /\ node_table.last_seen[n] \in 0 .. now
  BY DEF TableTypeOK
<1> QED  BY <1>1, TableParameters DEF nt_fresh, SecondsAgo

LEMMA FreshWhenTouched ==
  ASSUME TableTypeOK, NEW n \in NodeIds, Touch(n)
  PROVE  /\ n \in {0, Everyone} => Fresh' = Fresh
         /\ n \notin {0, Everyone} => Fresh' = Fresh \cup {n}
<1>1. /\ now \in Nat /\ now' = now
      /\ node_table \in [last_seen : [NodeIds -> 0 .. now], seen_at_all : [NodeIds -> BOOLEAN]]
  BY DEF TableTypeOK, Touch
<1>2. CASE n \in {0, Everyone}
  <2>1. node_table' = node_table
    BY <1>2 DEF Touch, nt_touch
  <2> QED  BY <1>1, <1>2, <2>1 DEF Fresh, nt_fresh
<1>3. CASE n \notin {0, Everyone}
  <2>1. node_table' = [last_seen |-> [node_table.last_seen EXCEPT ![n] = now],
                       seen_at_all |-> [node_table.seen_at_all EXCEPT ![n] = TRUE]]
    BY <1>3 DEF Touch, nt_touch
  <2>2. node_table'.last_seen[n] = now /\ node_table'.seen_at_all[n] = TRUE
    BY <1>1, <2>1
  <2>3. nt_fresh(node_table, n, Cutoff)'
    BY <1>1, <2>2, TableParameters DEF nt_fresh
  <2>4. ASSUME NEW m \in NodeIds, m # n
        PROVE  nt_fresh(node_table, m, Cutoff)' <=> nt_fresh(node_table, m, Cutoff)
    <3>1. /\ node_table'.last_seen[m] = node_table.last_seen[m]
          /\ node_table'.seen_at_all[m] = node_table.seen_at_all[m]
      BY <1>1, <2>1, <2>4
    <3> QED  BY <1>1, <3>1 DEF nt_fresh
  <2>5. Fresh' = Fresh \cup {n}
    BY <2>3, <2>4 DEF Fresh
  <2> QED  BY <1>3, <2>5
<1> QED  BY <1>2, <1>3

LEMMA TouchListed ==
  ASSUME NEW n \in NodeIds, Touch(n)
  PROVE  Listed(nodebits') = Fresh'
<1>1. Listed(nodebits') = {m \in NodeIds : nt_fresh(node_table', m, Cutoff)}
  BY MaskLists DEF Touch
<1>2. \A m : nt_fresh(node_table, m, Cutoff)' <=> nt_fresh(node_table', m, Cutoff)
  BY DEF Touch, nt_fresh
<1> QED  BY <1>1, <1>2 DEF Fresh

LEMMA FreshStep ==
  ASSUME TableTypeOK, TableStep
  PROVE  /\ \/ now' > now /\ Fresh' \subseteq Fresh
            \/ now' = 0 /\ Fresh' = {}
            \/ \E n \in NodeIds \ {0, Everyone} : Fresh' = Fresh \cup {n}
            \/ UNCHANGED Fresh
         /\ nodebits' # nodebits => Listed(nodebits') = Fresh'
<1>1. CASE Tick
  <2>1. now' = now + 1 /\ node_table' = node_table /\ nodebits' = nodebits /\ now \in Nat
    BY <1>1 DEF Tick, TableTypeOK
  <2>2. ASSUME NEW n \in NodeIds, nt_fresh(node_table, n, Cutoff)'
        PROVE  nt_fresh(node_table, n, Cutoff)
    <3>1. node_table.last_seen[n] \in 0 .. now
      BY DEF TableTypeOK
    <3> QED  BY <2>1, <2>2, <3>1, TableParameters DEF nt_fresh
  <2> QED  BY <2>1, <2>2 DEF Fresh
<1>2. ASSUME NEW n \in NodeIds, Touch(n)
      PROVE  /\ \/ \E m \in NodeIds \ {0, Everyone} : Fresh' = Fresh \cup {m}
                \/ UNCHANGED Fresh
             /\ Listed(nodebits') = Fresh'
  BY <1>2, TouchListed, FreshWhenTouched
<1>3. CASE StartAnew
  <2>1. \A n \in NodeIds : ~nt_fresh(node_table, n, Cutoff)'
    BY <1>3 DEF StartAnew, EmptyTable, nt_fresh
  <2>2. Fresh' = {}
    BY <2>1 DEF Fresh
  <2>3. Listed(EmptyMask) = {}
    <3> SUFFICES ASSUME NEW n \in Listed(EmptyMask) PROVE FALSE
      OBVIOUS
    <3> DEFINE d == Bit[n % ByteBits]
               q == n \div ByteBits
    <3>1. n \in 0 .. NodeBytes * ByteBits - 1 /\ (EmptyMask[q + 1] \div d) % 2 = 1
      BY DEF Listed, NodeIds
    <3>2. q = n \div ByteBits /\ n % ByteBits \in 0 .. ByteBits - 1 /\ q \in 0 .. NodeBytes - 1
      BY <3>1, TableParameters, QuotientBounds
    <3>3. d \in Nat /\ d > 0
      BY <3>2, BitPositive
    <3>4. EmptyMask[q + 1] = 0
      <4> HIDE DEF q
      <4> QED  BY <3>2, TableParameters DEF EmptyMask
    <3> HIDE DEF d
    <3>5. 0 \div d = 0
      <4>1. 0 \in 0 .. d - 1 /\ 0 * d + 0 = 0
        BY <3>3
      <4> QED  BY <3>3, <4>1, Quotient
    <3> QED  BY <3>1, <3>4, <3>5
  <2> QED  BY <1>3, <2>2, <2>3 DEF StartAnew
<1>4. CASE UNCHANGED table
  BY <1>4 DEF table, Fresh, nt_fresh
<1> QED  BY <1>1, <1>2, <1>3, <1>4 DEF TableStep

-----------------------------------------------------------------------------
(* TashTalk is given a byte.                                               *)

TashTalkType ==
  /\ tt \in [mode : {"command", "mask", "frame"}, got : Seq(Bytes)]
  /\ ttMask \in [1 .. NodeBytes -> Bytes]
  /\ lost \in 0 .. MaxLost

LEMMA CommandCases ==
  /\ AfterCommand(1) = [mode |-> "frame", got |-> <<>>]
  /\ AfterCommand(2) = [mode |-> "mask", got |-> <<>>]
  /\ \A byte : byte \notin {1, 2} => AfterCommand(byte) = tt
BY DEF AfterCommand

LEMMA ReceiveCases ==
  ASSUME TashTalkType, NEW byte \in Bytes, Receive(byte)
  PROVE  /\ tt.mode = "command" => tt' = AfterCommand(byte) /\ ttMask' = ttMask
         /\ tt.mode # "command" =>
              /\ tt'.got = Append(tt.got, byte)
              /\ tt'.mode = IF Complete(tt.mode, tt'.got) THEN "command" ELSE tt.mode
              /\ ttMask' = IF tt.mode = "mask" /\ tt'.mode = "command" THEN tt'.got
                           ELSE ttMask
              /\ tt' = [mode |-> tt'.mode, got |-> tt'.got]
         /\ lost' = lost
<1>1. CASE tt.mode = "command"
  BY <1>1 DEF Receive
<1>2. CASE tt.mode # "command"
  <2>1. tt' = AfterData(byte)
    BY <1>2 DEF Receive
  <2>2. tt' = [mode |-> IF Complete(tt.mode, Append(tt.got, byte)) THEN "command" ELSE tt.mode,
               got |-> Append(tt.got, byte)]
    BY <2>1 DEF AfterData
  <2>3. tt'.got = Append(tt.got, byte)
    BY <2>2
  <2>4. tt'.mode = IF Complete(tt.mode, tt'.got) THEN "command" ELSE tt.mode
    <3> HIDE DEF Complete
    <3> QED  BY <2>2, <2>3
  <2>5. tt' = [mode |-> tt'.mode, got |-> tt'.got]
    BY <2>2
  <2>6. ttMask' = IF tt.mode = "mask" /\ tt'.mode = "command" THEN tt'.got ELSE ttMask
    BY DEF Receive
  <2>7. lost' = lost
    BY DEF Receive
  <2> QED  BY <1>2, <2>3, <2>4, <2>5, <2>6, <2>7
<1> QED  BY <1>1, <1>2

LEMMA GotAppended ==
  ASSUME TashTalkType, NEW byte \in Bytes, NEW got, got = Append(tt.got, byte)
  PROVE  /\ tt.got \in Seq(Bytes) /\ Len(tt.got) \in Nat
         /\ got \in Seq(Bytes) /\ Len(got) = Len(tt.got) + 1
         /\ \A i \in 1 .. Len(tt.got) : got[i] = tt.got[i]
         /\ got[Len(tt.got) + 1] = byte
         /\ Len(got) >= 2 => ClaimedLength(got) \in Nat /\ ClaimedLength(got) >= 2
         /\ Len(tt.got) >= 2 => ClaimedLength(got) = ClaimedLength(tt.got)
<1>1. tt.got \in Seq(Bytes) /\ Len(tt.got) \in Nat
  BY DEF TashTalkType
<1>2. /\ got \in Seq(Bytes) /\ Len(got) = Len(tt.got) + 1
      /\ \A i \in 1 .. Len(tt.got) : got[i] = tt.got[i]
      /\ got[Len(tt.got) + 1] = byte
  BY <1>1
<1>3. Len(got) >= 2 => got[2] \in Nat
  <2>1. Len(got) >= 2 => got[2] \in Bytes
    BY <1>1, <1>2
  <2> QED  BY <2>1, NodeNumbers
<1>4. Len(tt.got) >= 2 => got[2] = tt.got[2]
  BY <1>1, <1>2
<1> QED  BY <1>1, <1>2, <1>3, <1>4 DEF ClaimedLength

LEMMA ReceiveType ==
  ASSUME TashTalkType, Unfinished, NEW byte \in Bytes, Receive(byte)
  PROVE  TashTalkType' /\ Unfinished'
<1>1. CASE tt.mode = "command"
  <2>1. tt' = AfterCommand(byte) /\ ttMask' = ttMask /\ lost' = lost
    BY <1>1, ReceiveCases
  <2>2. \/ tt' = [mode |-> "frame", got |-> <<>>]
        \/ tt' = [mode |-> "mask", got |-> <<>>]
        \/ tt' = tt
    BY <2>1, CommandCases
  <2>3. tt' \in [mode : {"command", "mask", "frame"}, got : Seq(Bytes)]
    <3>1. \A m \in {"mask", "frame"} :
            [mode |-> m, got |-> <<>>] \in [mode : {"command", "mask", "frame"}, got : Seq(Bytes)]
      <4>1. <<>> \in Seq(Bytes)
        OBVIOUS
      <4> QED  BY <4>1
    <3> QED  BY <2>2, <3>1, Zenon DEF TashTalkType
  <2>4. Unfinished'
    BY <1>1, <2>2, TableParameters DEF Unfinished
  <2> QED  BY <2>1, <2>3, <2>4 DEF TashTalkType
<1>2. CASE tt.mode # "command"
  <2> DEFINE got == Append(tt.got, byte)
  <2>1. /\ tt'.got = got
        /\ tt'.mode = IF Complete(tt.mode, got) THEN "command" ELSE tt.mode
        /\ ttMask' = IF tt.mode = "mask" /\ tt'.mode = "command" THEN got ELSE ttMask
        /\ tt' = [mode |-> tt'.mode, got |-> got] /\ lost' = lost
    BY <1>2, ReceiveCases
  <2>2. /\ tt.got \in Seq(Bytes) /\ Len(tt.got) \in Nat
        /\ got \in Seq(Bytes) /\ Len(got) = Len(tt.got) + 1
        /\ Len(got) >= 2 => ClaimedLength(got) \in Nat /\ ClaimedLength(got) >= 2
        /\ Len(tt.got) >= 2 => ClaimedLength(got) = ClaimedLength(tt.got)
    BY GotAppended
  <2>3. tt.mode \in {"command", "mask", "frame"}
    BY DEF TashTalkType
  <2> HIDE DEF got
  <2>4. tt' \in [mode : {"command", "mask", "frame"}, got : Seq(Bytes)]
    BY <2>1, <2>2, <2>3
  <2>5. ttMask' \in [1 .. NodeBytes -> Bytes]
    <3>1. CASE tt.mode = "mask" /\ tt'.mode = "command"
      <4>1. Len(got) = NodeBytes /\ ttMask' = got
        BY <2>1, <3>1 DEF Complete
      <4> QED  BY <2>2, <4>1
    <3>2. CASE ~(tt.mode = "mask" /\ tt'.mode = "command")
      BY <2>1, <3>2 DEF TashTalkType
    <3> QED  BY <3>1, <3>2
  <2>6. Unfinished'
    <3>1. CASE tt.mode = "mask"
      BY <2>1, <2>2, <3>1, TableParameters DEF Unfinished, Complete
    <3>2. CASE tt.mode = "frame"
      BY <2>1, <2>2, <3>2 DEF Unfinished, Complete
    <3> QED  BY <1>2, <2>3, <3>1, <3>2
  <2> QED  BY <2>1, <2>4, <2>5, <2>6 DEF TashTalkType
<1> QED  BY <1>1, <1>2

(* It is never far from the end of a mask or of a frame.                   *)
LEMMA PendingBound ==
  ASSUME TashTalkType, Unfinished
  PROVE  /\ Pending \in 0 .. Bit[ByteBits]
         /\ Pending = 0 => tt.mode = "command"
<1>1. /\ tt.mode \in {"command", "mask", "frame"} /\ Len(tt.got) \in Nat
      /\ Len(tt.got) >= 2 => tt.got[2] \in Bytes
  BY DEF TashTalkType
<1>2. Len(tt.got) >= 2 => tt.got[2] \in 0 .. Bit[ByteBits] - 1
  BY <1>1, NodeNumbers
<1>3. CASE tt.mode = "command"
  BY <1>3, NodeNumbers DEF Pending
<1>4. CASE tt.mode = "mask"
  BY <1>1, <1>4, NodeNumbers, TableParameters DEF Pending, Unfinished
<1>5. CASE tt.mode = "frame"
  <2>1. CASE Len(tt.got) < 2
    <3>1. Pending = 2 - Len(tt.got)
      BY <1>5, <2>1 DEF Pending
    <3>2. \A l \in Nat : l < 2 => 2 - l \in 0 .. Bit[ByteBits] /\ 2 - l # 0
      BY NodeNumbers
    <3> QED  BY <1>1, <2>1, <3>1, <3>2
  <2>2. CASE Len(tt.got) >= 2
    <3>1. /\ Pending = ClaimedLength(tt.got) - Len(tt.got)
          /\ Len(tt.got) < ClaimedLength(tt.got)
      BY <1>1, <1>5, <2>2 DEF Pending, Unfinished
    <3>2. ClaimedLength(tt.got) = 2 + tt.got[2]
      BY DEF ClaimedLength
    <3> QED  BY <1>1, <1>2, <2>2, <3>1, <3>2, NodeNumbers
  <2> QED  BY <1>1, <2>1, <2>2
<1> QED  BY <1>1, <1>3, <1>4, <1>5

LEMMA ReceiveZero ==
  ASSUME TashTalkType, Unfinished, Receive(0)
  PROVE  Pending' = 0 \/ Pending' + 1 <= Pending
<1>0. 0 \in Bytes /\ tt.mode \in {"command", "mask", "frame"}
  BY NodeNumbers DEF TashTalkType
<1>1. CASE tt.mode = "command"
  <2>1. tt' = tt
    BY <1>0, <1>1, ReceiveCases, CommandCases
  <2> QED  BY <1>1, <2>1 DEF Pending
<1>2. CASE tt.mode # "command"
  <2> DEFINE got == Append(tt.got, 0)
  <2>1. /\ tt'.got = got
        /\ tt'.mode = IF Complete(tt.mode, got) THEN "command" ELSE tt.mode
    BY <1>0, <1>2, ReceiveCases
  <2>2. /\ tt.got \in Seq(Bytes) /\ Len(tt.got) \in Nat
        /\ got \in Seq(Bytes) /\ Len(got) = Len(tt.got) + 1
        /\ got[Len(tt.got) + 1] = 0
        /\ Len(got) >= 2 => ClaimedLength(got) \in Nat /\ ClaimedLength(got) >= 2
        /\ Len(tt.got) >= 2 => ClaimedLength(got) = ClaimedLength(tt.got)
    BY <1>0, GotAppended
  <2> HIDE DEF got
  <2>3. CASE tt.mode = "mask"
    BY <2>1, <2>2, <2>3, TableParameters DEF Unfinished, Complete, Pending
  <2>4. CASE tt.mode = "frame"
    <3>1. CASE tt'.mode = "command"
      BY <3>1 DEF Pending
    <3>2. CASE tt'.mode # "command"
      <4>1. tt'.mode = "frame" /\ ~Complete("frame", got)
        BY <2>1, <2>4, <3>2
      <4>2. CASE Len(tt.got) = 0
        BY <2>1, <2>2, <2>4, <4>1, <4>2 DEF Pending
      <4>3. CASE Len(tt.got) = 1
        <5>1. ClaimedLength(got) = 2 /\ Len(got) = 2
          BY <2>2, <4>3 DEF ClaimedLength
        <5> QED  BY <4>1, <5>1 DEF Complete
      <4>4. CASE Len(tt.got) >= 2
        <5>1. Pending' = ClaimedLength(got) - Len(got)
          BY <2>1, <2>2, <4>1, <4>4 DEF Pending
        <5>2. Pending = ClaimedLength(tt.got) - Len(tt.got)
          BY <2>2, <2>4, <4>4 DEF Pending
        <5> QED  BY <2>2, <4>4, <5>1, <5>2
      <4>5. Len(tt.got) = 0 \/ Len(tt.got) = 1 \/ Len(tt.got) >= 2
        <5>1. Len(tt.got) \in Nat
          BY <2>2
        <5>2. \A l \in Nat : l = 0 \/ l = 1 \/ l >= 2
          OBVIOUS
        <5> QED  BY <5>1, <5>2, Zenon
      <4> QED  BY <4>2, <4>3, <4>4, <4>5, Zenon
    <3> QED  BY <3>1, <3>2
  <2> QED  BY <1>0, <1>2, <2>3, <2>4
<1> QED  BY <1>1, <1>2

(* It is in step, and is given the next byte of a mask.                    *)
LEMMA ReceiveMask ==
  ASSUME TashTalkType, nodebits \in [1 .. NodeBytes -> Bytes],
         NEW n \in 0 .. NodeBytes, HasOf("mask", nodebits, n), Receive(MaskByte(n)),
         nodebits' = nodebits
  PROVE  IF n = NodeBytes THEN tt'.mode = "command" /\ ttMask' = nodebits
                          ELSE HasOf("mask", nodebits, n + 1)' /\ ttMask' = ttMask
<1>1. CASE n = 0
  <2>1. tt.mode = "command" /\ MaskByte(n) = 2 /\ 2 \in Bytes
    BY <1>1, LinkParameters DEF HasOf, MaskByte
  <2>2. tt' = [mode |-> "mask", got |-> <<>>] /\ ttMask' = ttMask
    BY <2>1, ReceiveCases, CommandCases
  <2>3. HasOf("mask", nodebits, 1)'
    BY <2>2 DEF HasOf
  <2> QED  BY <1>1, <2>2, <2>3, TableParameters
<1>2. CASE n # 0
  <2> DEFINE got == Append(tt.got, nodebits[n])
  <2>1. /\ tt.mode = "mask" /\ Len(tt.got) = n - 1 /\ \A i \in 1 .. n - 1 : tt.got[i] = nodebits[i]
        /\ MaskByte(n) = nodebits[n] /\ nodebits[n] \in Bytes /\ n \in Nat
    BY <1>2, TableParameters DEF HasOf, MaskByte
  <2>2. /\ tt'.got = got
        /\ tt'.mode = IF Complete("mask", got) THEN "command" ELSE "mask"
        /\ ttMask' = IF tt'.mode = "command" THEN got ELSE ttMask
    BY <2>1, ReceiveCases
  <2>3. /\ got \in Seq(Bytes) /\ Len(got) = n
        /\ \A i \in 1 .. n : got[i] = nodebits[i]
    <3>1. /\ got \in Seq(Bytes) /\ Len(got) = Len(tt.got) + 1
          /\ \A i \in 1 .. Len(tt.got) : got[i] = tt.got[i]
          /\ got[Len(tt.got) + 1] = nodebits[n]
      BY <2>1, GotAppended
    <3> HIDE DEF got
    <3>2. Len(tt.got) = n - 1 /\ (n - 1) + 1 = n
      BY <2>1
    <3>3. Len(got) = n /\ got[n] = nodebits[n]
      BY <3>1, <3>2
    <3>4. \A i \in 1 .. n - 1 : got[i] = nodebits[i]
      BY <2>1, <3>1, <3>2
    <3>5. \A m \in Nat : \A i \in 1 .. m : i \in 1 .. m - 1 \/ i = m
      OBVIOUS
    <3>6. \A i \in 1 .. n : i \in 1 .. n - 1 \/ i = n
      BY <2>1, <3>5, Zenon
    <3> QED  BY <3>1, <3>3, <3>4, <3>6, Zenon
  <2> HIDE DEF got
  <2>4. CASE n = NodeBytes
    <3>1. tt'.mode = "command" /\ ttMask' = got
      BY <2>2, <2>3, <2>4 DEF Complete
    <3>2. got = nodebits
      BY <2>3, <2>4
    <3> QED  BY <2>4, <3>1, <3>2
  <2>5. CASE n # NodeBytes
    <3>1. tt'.mode = "mask" /\ ttMask' = ttMask
      BY <2>2, <2>3, <2>5 DEF Complete
    <3>2. HasOf("mask", nodebits, n + 1)'
      <4>1. n + 1 # 0 /\ (n + 1) - 1 = n
        BY <2>1
      <4> QED  BY <2>2, <2>3, <3>1, <4>1 DEF HasOf
    <3> QED  BY <2>5, <3>1, <3>2
  <2> QED  BY <2>4, <2>5
<1> QED  BY <1>1, <1>2

(* The same for a frame.                                                   *)
LEMMA ReceiveFrame ==
  ASSUME TashTalkType, packet \in Frames, Len(packet) = ClaimedLength(packet),
         NEW n \in 0 .. Len(packet), HasOf("frame", packet, n), Receive(FrameByte(n)),
         packet' = packet
  PROVE  /\ ttMask' = ttMask
         /\ IF n = Len(packet) THEN tt'.mode = "command" /\ tt'.got = packet
                               ELSE tt'.mode = "frame" /\ HasOf("frame", packet, n + 1)'
<1>0. packet \in Seq(Bytes) /\ Len(packet) \in Nat /\ Len(packet) >= 2 /\ n \in Nat
  BY LinkParameters
<1>1. CASE n = 0
  <2>1. tt.mode = "command" /\ FrameByte(n) = 1 /\ 1 \in Bytes
    BY <1>1, NodeNumbers DEF HasOf, FrameByte
  <2>2. tt' = [mode |-> "frame", got |-> <<>>] /\ ttMask' = ttMask
    BY <2>1, ReceiveCases, CommandCases
  <2>3. HasOf("frame", packet, 1)'
    BY <2>2 DEF HasOf
  <2> QED  BY <1>0, <1>1, <2>2, <2>3
<1>2. CASE n # 0
  <2> DEFINE got == Append(tt.got, packet[n])
  <2>1. /\ tt.mode = "frame" /\ Len(tt.got) = n - 1 /\ \A i \in 1 .. n - 1 : tt.got[i] = packet[i]
        /\ FrameByte(n) = packet[n] /\ packet[n] \in Bytes
    BY <1>0, <1>2 DEF HasOf, FrameByte
  <2>2. /\ tt'.got = got /\ ttMask' = ttMask
        /\ tt'.mode = IF Complete("frame", got) THEN "command" ELSE "frame"
    BY <2>1, ReceiveCases
  <2>3. /\ got \in Seq(Bytes) /\ Len(got) = n
        /\ \A i \in 1 .. n : got[i] = packet[i]
    <3>1. /\ got \in Seq(Bytes) /\ Len(got) = Len(tt.got) + 1
          /\ \A i \in 1 .. Len(tt.got) : got[i] = tt.got[i]
          /\ got[Len(tt.got) + 1] = packet[n]
      BY <2>1, GotAppended
    <3> HIDE DEF got
    <3>2. Len(got) = n /\ got[n] = packet[n]
      BY <1>0, <2>1, <3>1
    <3>3. \A i \in 1 .. n - 1 : got[i] = packet[i]
      BY <1>0, <2>1, <3>1
    <3>5. \A m \in Nat : \A i \in 1 .. m : i \in 1 .. m - 1 \/ i = m
      OBVIOUS
    <3>6. \A i \in 1 .. n : i \in 1 .. n - 1 \/ i = n
      BY <1>0, <3>5, Zenon
    <3> QED  BY <3>1, <3>2, <3>3, <3>6, Zenon
  <2> HIDE DEF got
  <2>4. n >= 2 => ClaimedLength(got) = Len(packet)
    BY <1>0, <2>3 DEF ClaimedLength
  <2>5. CASE n = Len(packet)
    <3>1. tt'.mode = "command"
      BY <1>0, <2>2, <2>3, <2>4, <2>5 DEF Complete
    <3>2. got = packet
      BY <1>0, <2>3, <2>5
    <3> QED  BY <2>2, <2>5, <3>1, <3>2
  <2>6. CASE n # Len(packet)
    <3>1. tt'.mode = "frame"
      BY <1>0, <2>2, <2>3, <2>4, <2>6 DEF Complete
    <3>2. HasOf("frame", packet, n + 1)'
      <4>1. n + 1 # 0 /\ (n + 1) - 1 = n
        BY <1>0
      <4> QED  BY <2>2, <2>3, <3>1, <4>1 DEF HasOf
    <3> QED  BY <2>2, <2>6, <3>1, <3>2
  <2> QED  BY <2>5, <2>6
<1> QED  BY <1>1, <1>2

-----------------------------------------------------------------------------
(* The steps.                                                              *)

ThreadType ==
  /\ handshake_count \in 0 .. MaxHandshakes + 1
  /\ UDPtoUART \in Seq(Frames) /\ Len(UDPtoUART) <= QCap
  /\ packet \in Frames \cup {<<>>}
  /\ pc \in [Writers -> {"wait", "reset", "mask", "frame"}]
  /\ written \in [Writers -> 0 .. ResetLength]

LEMMA TypeParts == TypeOK <=> TableTypeOK /\ ThreadType /\ TashTalkType
BY DEF TypeOK, ThreadType, TashTalkType

LEMMA TypePartsPrime == TableTypeOK' /\ ThreadType' /\ TashTalkType' => TypeOK'
BY TypeParts, PTL

LEMMA Lengths ==
  /\ ResetLength \in Nat /\ ResetLength = 1 + NodeBytes + ZeroCount
  /\ MaskLength \in Nat /\ MaskLength = 1 + NodeBytes /\ MaskLength <= ResetLength
  /\ packet \in Frames /\ Len(packet) = ClaimedLength(packet)
       => FrameLength \in Nat /\ FrameLength = 1 + Len(packet) /\ FrameLength <= ResetLength
<1>1. /\ ZeroCount \in Nat /\ NodeBytes \in Nat /\ NodeBytes > 0
      /\ Bit[ByteBits] \in Nat /\ ZeroCount > Bit[ByteBits]
  BY LinkParameters, TableParameters, NodeNumbers
<1>2. ASSUME packet \in Frames, Len(packet) = ClaimedLength(packet)
      PROVE  Len(packet) \in Nat /\ Len(packet) <= Bit[ByteBits] + 1
  <2>1. packet \in Seq(Bytes) /\ Len(packet) >= 2 /\ Len(packet) \in Nat
    BY <1>2, LinkParameters
  <2>2. packet[2] \in 0 .. Bit[ByteBits] - 1
    BY <2>1, NodeNumbers
  <2> QED  BY <1>1, <1>2, <2>1, <2>2 DEF ClaimedLength
<1> QED  BY <1>1, <1>2 DEF ResetLength, MaskLength, FrameLength

LEMMA TotalOf ==
  /\ Total("wait") = 1 /\ Total("reset") = ResetLength
  /\ Total("mask") = MaskLength /\ Total("frame") = FrameLength
BY DEF Total

LEMMA WhoRuns ==
  ASSUME NEW t \in {"uart_tx", "uart_rx", "udp_rx", "apps"}, MayRun(t)
  PROVE  /\ pc["main"] = "wait"
         /\ t # "uart_tx" => pc["uart_tx"] = "wait" /\ UDPtoUART = <<>>
         /\ t \in {"udp_rx", "apps"} => pc["uart_rx"] = "wait"
<1>1. /\ Priority["main"] = 0 /\ Priority["uart_tx"] = 3 /\ Priority["uart_rx"] = 4
      /\ Priority["udp_rx"] = 5 /\ Priority["apps"] = 5
  BY DEF Priority
<1>2. \A u \in Writers : u # t /\ Priority[u] < Priority[t] => ~Ready(u)
  BY DEF MayRun
<1>3. ~Ready("main")
  BY <1>1, <1>2 DEF Writers
<1>4. t # "uart_tx" => ~Ready("uart_tx")
  BY <1>1, <1>2 DEF Writers
<1>5. t \in {"udp_rx", "apps"} => ~Ready("uart_rx")
  BY <1>1, <1>2 DEF Writers
<1> QED  BY <1>3, <1>4, <1>5 DEF Ready

LEMMA InvParts ==
  ASSUME LinkInv
  PROVE  /\ TableTypeOK /\ ThreadType /\ TashTalkType
         /\ Alone /\ Counted /\ Progress /\ Unfinished /\ ZerosDo
         /\ lost = 0 => InStep /\ Answers
         /\ SenderListed
BY TypeParts DEF LinkInv

(* Everyone waits: nothing has been written.                               *)
LEMMA NothingWritten ==
  ASSUME LinkInv, NEW t \in Writers, pc[t] = "wait"
  PROVE  written[t] = 0
<1>1. written[t] < 1 /\ written[t] \in Nat
  BY InvParts, TotalOf, Lengths DEF Progress, ThreadType
<1> QED  BY <1>1

(* Only the clock, or the queue, or handshake_count goes on.               *)
LEMMA CalmInv ==
  ASSUME LinkInv, UNCHANGED <<nodebits, packet, pc, written, tashtalk>>,
         TableTypeOK', ThreadType', Alone', Counted'
  PROVE  LinkInv'
<1>1. TypeOK'
  BY InvParts, TypePartsPrime DEF TashTalkType, tashtalk
<1>2. Progress'
  BY InvParts DEF Progress, Total, FrameLength, ClaimedLength
<1>3. Unfinished' /\ ZerosDo'
  BY InvParts DEF Unfinished, ZerosDo, Pending, ClaimedLength, tashtalk
<1>4. lost' = 0 => InStep' /\ Answers'
  BY InvParts DEF InStep, Answers, HasOf, tashtalk
<1>5. SenderListed'
  BY InvParts DEF SenderListed, Listed
<1> QED  BY <1>1, <1>2, <1>3, <1>4, <1>5 DEF LinkInv

LEMMA UdpInv == ASSUME LinkInv, MayRun("udp_rx"), PacketFromUdp PROVE LinkInv'
<1>1. pc["main"] = "wait" /\ pc["uart_tx"] = "wait" /\ pc["uart_rx"] = "wait"
  BY WhoRuns
<1>2. PICK f \in Frames : UDPtoUART' = Append(UDPtoUART, f) /\ Len(UDPtoUART) < QCap
  BY DEF PacketFromUdp
<1>3. UNCHANGED <<table, handshake_count, packet, pc, written, tashtalk>>
  BY DEF PacketFromUdp
<1>4. UDPtoUART' \in Seq(Frames) /\ Len(UDPtoUART') <= QCap
  BY <1>2, InvParts, LinkParameters DEF ThreadType
<1>5. TableTypeOK'
  BY <1>3, InvParts DEF table, TableTypeOK
<1>6. ThreadType'
  BY <1>3, <1>4, InvParts DEF ThreadType
<1>7. Alone' /\ Counted'
  BY <1>1, <1>3, InvParts DEF Alone, Counted
<1> QED  BY <1>3, <1>5, <1>6, <1>7, CalmInv DEF table

LEMMA ClockInv == ASSUME LinkInv, Clock PROVE LinkInv'
<1>1. UNCHANGED <<handshake_count, UDPtoUART, packet, pc, written, tashtalk>> /\ Tick
  BY DEF Clock
<1>2. TableTypeOK' /\ nodebits' = nodebits
  BY <1>1, InvParts, TableTypeKept DEF TableStep, Tick
<1>3. ThreadType' /\ Alone' /\ Counted'
  BY <1>1, InvParts DEF ThreadType, Alone, Counted
<1> QED  BY <1>1, <1>2, <1>3, CalmInv

LEMMA LinkStutterInv == ASSUME LinkInv, UNCHANGED vars PROVE LinkInv'
<1>1. /\ UNCHANGED <<handshake_count, UDPtoUART, packet, pc, written, tashtalk>>
      /\ UNCHANGED table
  BY DEF vars, table, tashtalk
<1>2. TableTypeOK' /\ nodebits' = nodebits
  BY <1>1, InvParts DEF TableTypeOK, table
<1>3. ThreadType' /\ Alone' /\ Counted'
  BY <1>1, InvParts DEF ThreadType, Alone, Counted
<1> QED  BY <1>1, <1>2, <1>3, CalmInv

(* Everyone waits, or is to start.                                         *)
LEMMA StartInv ==
  ASSUME TableTypeOK, ThreadType, TashTalkType, Unfinished,
         handshake_count = 0, UDPtoUART = <<>>,
         pc = [t \in Writers |-> IF t = "main" THEN "reset" ELSE "wait"],
         written = [t \in Writers |-> 0], tt.mode = "command" \/ lost # 0
  PROVE  LinkInv
<1>1. pc["main"] = "reset" /\ pc["uart_rx"] = "wait" /\ pc["uart_tx"] = "wait"
      /\ \A t \in Writers : written[t] = 0
  BY DEF Writers
<1>2. Alone /\ Counted
  BY <1>1, LinkParameters DEF Alone, Counted
<1>3. Progress
  <2>1. ASSUME NEW t \in Writers PROVE written[t] < Total(pc[t])
    <3>1. pc[t] = "reset" \/ pc[t] = "wait"
      OBVIOUS
    <3>2. 0 < ResetLength
      BY Lengths, LinkParameters, TableParameters
    <3> QED  BY <1>1, <3>1, <3>2, TotalOf
  <2> QED  BY <1>1, <2>1 DEF Progress
<1>4. ZerosDo
  BY <1>1, TableParameters DEF ZerosDo
<1>5. lost = 0 => InStep
  <2> SUFFICES ASSUME tt.mode = "command" PROVE InStep
    OBVIOUS
  <2>1. \A t \in Writers : ~(written[t] > NodeBytes) /\ HasOf("mask", nodebits, written[t])
    BY <1>1, TableParameters DEF HasOf
  <2> QED  BY <1>1, <2>1 DEF InStep
<1>6. Answers /\ SenderListed
  BY <1>1, TableParameters DEF Answers, SenderListed, Writers
<1> QED  BY <1>2, <1>3, <1>4, <1>5, <1>6, TypeParts DEF LinkInv

LEMMA RebootInv == ASSUME LinkInv, MayRun("apps"), Reboot PROVE LinkInv'
<1>1. pc["main"] = "wait" /\ pc["uart_tx"] = "wait" /\ pc["uart_rx"] = "wait"
  BY WhoRuns
<1>2. /\ handshake_count' = 0 /\ UDPtoUART' = <<>> /\ packet' = <<>>
      /\ pc' = [t \in Writers |-> IF t = "main" THEN "reset" ELSE "wait"]
      /\ written' = [t \in Writers |-> 0] /\ UNCHANGED tashtalk /\ StartAnew
  BY DEF Reboot, StartAnew
<1>3. TableTypeOK'
  BY <1>2, InvParts, TableTypeKept DEF TableStep
<1>4. ThreadType'
  <2>1. \A q : q = <<>> => q \in Seq(Frames) /\ Len(q) <= QCap
    BY LinkParameters
  <2>2. UDPtoUART' \in Seq(Frames) /\ Len(UDPtoUART') <= QCap
    BY <1>2, <2>1, Zenon
  <2>3. pc' \in [Writers -> {"wait", "reset", "mask", "frame"}]
    BY <1>2
  <2>4. written' \in [Writers -> 0 .. ResetLength]
    BY <1>2, Lengths
  <2>5. handshake_count' \in 0 .. MaxHandshakes + 1
    BY <1>2, LinkParameters
  <2>6. packet' \in Frames \cup {<<>>}
    BY <1>2
  <2> QED  BY <2>2, <2>3, <2>4, <2>5, <2>6 DEF ThreadType
<1>5. TashTalkType' /\ Unfinished'
  BY <1>2, InvParts DEF TashTalkType, Unfinished, ClaimedLength, tashtalk
<1>6. tt'.mode = "command" \/ lost' # 0
  <2>1. \A t \in Writers : pc[t] = "wait"
    BY <1>1 DEF Writers
  <2> QED  BY <1>2, <2>1, InvParts DEF InStep, tashtalk
<1>7. (TableTypeOK /\ ThreadType /\ TashTalkType /\ Unfinished
         /\ handshake_count = 0 /\ UDPtoUART = <<>>
         /\ pc = [t \in Writers |-> IF t = "main" THEN "reset" ELSE "wait"]
         /\ written = [t \in Writers |-> 0] /\ (tt.mode = "command" \/ lost # 0)
         => LinkInv)'
  BY StartInv, PTL
<1> QED  BY <1>2, <1>3, <1>4, <1>5, <1>6, <1>7

LEMMA LinkInitInv == Init => LinkInv
<1> SUFFICES ASSUME Init PROVE LinkInv
  OBVIOUS
<1>1. /\ handshake_count = 0 /\ UDPtoUART = <<>> /\ packet = <<>>
      /\ pc = [t \in Writers |-> IF t = "main" THEN "reset" ELSE "wait"]
      /\ written = [t \in Writers |-> 0]
      /\ tt = [mode |-> "command", got |-> <<>>] /\ ttMask = EmptyMask /\ lost = 0
      /\ now = 0 /\ node_table = EmptyTable /\ nodebits = EmptyMask
  BY DEF Init, TableInit
<1>2. TableTypeOK
  <2>1. 0 .. now = {0}
    BY <1>1
  <2>2. node_table \in [last_seen : [NodeIds -> 0 .. now], seen_at_all : [NodeIds -> BOOLEAN]]
    BY <1>1, <2>1, EmptyTypes
  <2>3. \A m \in {0, Everyone} : ~node_table.seen_at_all[m]
    BY <1>1, NodeNumbers DEF EmptyTable
  <2> QED  BY <1>1, <2>2, <2>3, EmptyTypes DEF TableTypeOK, Bytes
<1>3. ThreadType
  <2>1. \A q : q = <<>> => q \in Seq(Frames) /\ Len(q) <= QCap
    BY LinkParameters
  <2>2. UDPtoUART \in Seq(Frames) /\ Len(UDPtoUART) <= QCap
    BY <1>1, <2>1, Zenon
  <2>3. pc \in [Writers -> {"wait", "reset", "mask", "frame"}]
    BY <1>1
  <2>4. written \in [Writers -> 0 .. ResetLength]
    BY <1>1, Lengths
  <2> QED  BY <1>1, <2>2, <2>3, <2>4, LinkParameters DEF ThreadType
<1>4. TashTalkType /\ Unfinished
  <2>1. <<>> \in Seq(Bytes)
    OBVIOUS
  <2>2. tt \in [mode : {"command", "mask", "frame"}, got : Seq(Bytes)]
    BY <1>1, <2>1
  <2> QED  BY <1>1, <2>2, EmptyTypes, LinkParameters DEF TashTalkType, Unfinished
<1> QED  BY <1>1, <1>2, <1>3, <1>4, StartInv

LEMMA ForwardInv == ASSUME LinkInv, MayRun("uart_rx"), ForwardFrame PROVE LinkInv'
<1>1. /\ pc["main"] = "wait" /\ pc["uart_tx"] = "wait" /\ UDPtoUART = <<>>
      /\ pc["uart_rx"] = "wait"
  BY WhoRuns DEF ForwardFrame
<1>2. UNCHANGED <<table, UDPtoUART, packet, written, tashtalk>>
  BY DEF ForwardFrame
<1>3. /\ pc \in [Writers -> {"wait", "reset", "mask", "frame"}]
      /\ handshake_count \in Nat /\ handshake_count <= MaxHandshakes /\ MaxHandshakes \in Nat
  BY <1>1, InvParts, LinkParameters DEF ThreadType, Counted
<1>4. TableTypeOK'
  BY <1>2, InvParts DEF table, TableTypeOK
<1>5. CASE pc' = pc /\ handshake_count' <= MaxHandshakes /\ handshake_count' \in Nat
  <2>1. ThreadType' /\ Alone' /\ Counted'
    BY <1>2, <1>3, <1>5, InvParts DEF ThreadType, Alone, Counted
  <2> QED  BY <1>2, <1>4, <1>5, <2>1, CalmInv DEF table
<1>6. CASE pc' = [pc EXCEPT !["uart_rx"] = "reset"] /\ handshake_count' = handshake_count + 1
  <2>0. "uart_rx" \in Writers /\ "main" \in Writers /\ "uart_tx" \in Writers
    BY DEF Writers
  <2>1. /\ pc'["uart_rx"] = "reset" /\ pc'["main"] = "wait" /\ pc'["uart_tx"] = "wait"
        /\ pc' \in [Writers -> {"wait", "reset", "mask", "frame"}]
    BY <1>1, <1>3, <1>6, <2>0
  <2>2. written["uart_rx"] = 0
    BY <1>1, <2>0, NothingWritten
  <2>3. ThreadType'
    BY <1>2, <1>3, <1>6, <2>1, InvParts DEF ThreadType
  <2>4. TashTalkType' /\ Unfinished'
    BY <1>2, InvParts DEF TashTalkType, Unfinished, ClaimedLength, tashtalk
  <2>5. Alone' /\ Counted'
    BY <1>1, <1>2, <2>1 DEF Alone, Counted
  <2>6. Progress'
    <3>1. ASSUME NEW t \in Writers PROVE written'[t] < Total(pc[t])'
      <4>1. CASE t = "uart_rx"
        <5>1. Total(pc[t])' = ResetLength /\ written'[t] = 0
          BY <1>2, <2>1, <2>2, <4>1 DEF Total, ResetLength
        <5> QED  BY <5>1, Lengths, LinkParameters, TableParameters
      <4>2. CASE t # "uart_rx"
        <5>1. pc[t] = "wait" /\ pc'[t] = "wait"
          BY <1>1, <2>1, <4>2 DEF Writers
        <5>2. Total(pc[t])' = 1
          BY <5>1 DEF Total
        <5> QED  BY <1>2, <5>1, <5>2, NothingWritten
      <4> QED  BY <4>1, <4>2
    <3> QED  BY <2>1, <3>1 DEF Progress
  <2>7. ZerosDo'
    <3>1. \A t \in Writers : pc'[t] = "reset" => t = "uart_rx"
      BY <2>1 DEF Writers
    <3> QED  BY <1>2, <2>2, <3>1, TableParameters DEF ZerosDo
  <2>8. ASSUME lost' = 0 PROVE InStep' /\ Answers'
    <3>1. \A t \in Writers : pc[t] = "wait"
      BY <1>1 DEF Writers
    <3>2. tt'.mode = "command" /\ ttMask' = nodebits'
      BY <1>1, <1>2, <2>8, <3>1, InvParts DEF InStep, Answers, tashtalk, table
    <3>3. \A t \in Writers : pc'[t] = "reset" => written'[t] = 0
      BY <1>2, <2>1, <2>2 DEF Writers
    <3>4. InStep'
      <4>1. \A t \in Writers : pc'[t] = "reset" =>
              ~(written'[t] > NodeBytes) /\ HasOf("mask", nodebits, written[t])'
        BY <3>2, <3>3, TableParameters DEF HasOf
      <4> QED  BY <2>1, <3>2, <4>1 DEF InStep
    <3> QED  BY <3>2, <3>4 DEF Answers
  <2>9. SenderListed'
    BY <2>1 DEF SenderListed
  <2> QED  BY <1>4, <2>3, <2>4, <2>5, <2>6, <2>7, <2>8, <2>9, TypePartsPrime DEF LinkInv
<1>7. \/ pc' = pc /\ handshake_count' <= MaxHandshakes /\ handshake_count' \in Nat
      \/ pc' = [pc EXCEPT !["uart_rx"] = "reset"] /\ handshake_count' = handshake_count + 1
  <2>1. PICK handshake \in BOOLEAN :
          IF handshake
          THEN /\ handshake_count' = handshake_count + 1
               /\ pc' = IF handshake_count' > MaxHandshakes
                        THEN [pc EXCEPT !["uart_rx"] = "reset"] ELSE pc
          ELSE handshake_count' = 0 /\ UNCHANGED pc
    BY DEF ForwardFrame
  <2>2. CASE handshake
    <3>1. CASE handshake_count' > MaxHandshakes
      BY <2>1, <2>2, <3>1
    <3>2. CASE ~(handshake_count' > MaxHandshakes)
      BY <1>3, <2>1, <2>2, <3>2
    <3> QED  BY <3>1, <3>2
  <2>3. CASE ~handshake
    BY <1>3, <2>1, <2>3
  <2> QED  BY <2>2, <2>3
<1> QED  BY <1>5, <1>6, <1>7

(* A packet: what it says of its sender is known before it is written.     *)
LEMMA GetTable ==
  ASSUME LinkInv, UartTxGet
  PROVE  /\ packet' \in Frames /\ packet'[1] \in NodeIds
         /\ IF tashtalk_tx_validate(packet') THEN Touch(packet'[1]) ELSE UNCHANGED table
<1>1. /\ UDPtoUART # <<>> /\ packet' = Head(UDPtoUART) /\ now' = now
      /\ IF tashtalk_tx_validate(packet')
         THEN /\ node_table' = nt_touch(node_table, packet'[1])
              /\ nodebits' = nt_serialise(node_table', Cutoff)
         ELSE UNCHANGED <<node_table, nodebits>>
  BY DEF UartTxGet
<1>2. packet' \in Frames
  BY <1>1, InvParts, HeadTailProperties DEF ThreadType
<1>3. packet'[1] \in Bytes
  BY <1>2, LinkParameters
<1> QED  BY <1>1, <1>2, <1>3, LinkParameters DEF Touch, table

LEMMA UartTxGetInv == ASSUME LinkInv, MayRun("uart_tx"), UartTxGet PROVE LinkInv'
<1>1. /\ pc["uart_tx"] = "wait" /\ UDPtoUART # <<>>
      /\ packet' = Head(UDPtoUART) /\ UDPtoUART' = Tail(UDPtoUART)
      /\ UNCHANGED <<handshake_count, written, tashtalk>>
  BY DEF UartTxGet
<1>2. pc["main"] = "wait" /\ pc["uart_rx"] = "wait"
  BY <1>1, WhoRuns, InvParts DEF Alone
<1>3. \A t \in Writers : pc[t] = "wait" /\ written[t] = 0
  BY <1>1, <1>2, NothingWritten DEF Writers
<1>4. TableTypeOK'
  BY GetTable, InvParts, TableTypeKept DEF TableStep
<1>5. TashTalkType' /\ Unfinished'
  BY <1>1, InvParts DEF TashTalkType, Unfinished, ClaimedLength, tashtalk
<1>6. UDPtoUART' \in Seq(Frames) /\ Len(UDPtoUART') <= QCap /\ packet' \in Frames
  BY <1>1, GetTable, InvParts, HeadTailProperties, LinkParameters DEF ThreadType
<1>7. lost' = 0 => tt'.mode = "command" /\ ttMask' = nodebits
  BY <1>1, <1>2, <1>3, InvParts DEF InStep, Answers, tashtalk
<1>8. pc \in [Writers -> {"wait", "reset", "mask", "frame"}] /\ "uart_tx" \in Writers
  BY InvParts DEF ThreadType, Writers
<1>9. CASE ~tashtalk_tx_validate(packet')
  <2>1. pc' = pc /\ nodebits' = nodebits
    BY <1>9 DEF UartTxGet
  <2>2. ThreadType'
    BY <1>1, <1>6, <2>1, InvParts DEF ThreadType
  <2>3. Alone' /\ Counted'
    BY <1>1, <1>2, <2>1, InvParts DEF Alone, Counted
  <2>4. Progress'
    <3>1. \A t \in Writers : written'[t] < Total(pc[t])'
      BY <1>1, <1>3, <2>1 DEF Total
    <3> QED  BY <1>1, <2>1, <3>1 DEF Progress
  <2>5. ZerosDo' /\ SenderListed'
    BY <1>1, <1>3, <2>1 DEF ZerosDo, SenderListed
  <2>6. lost' = 0 => InStep' /\ Answers'
    BY <1>1, <1>3, <1>7, <2>1 DEF InStep, Answers
  <2> QED  BY <1>4, <1>5, <2>2, <2>3, <2>4, <2>5, <2>6, TypePartsPrime DEF LinkInv
<1>10. CASE tashtalk_tx_validate(packet')
  <2>1. pc' = [pc EXCEPT !["uart_tx"] = IF nodebits' # nodebits THEN "mask" ELSE "frame"]
    BY <1>10 DEF UartTxGet
  <2>2. /\ pc'["uart_tx"] = IF nodebits' # nodebits THEN "mask" ELSE "frame"
        /\ pc'["main"] = "wait" /\ pc'["uart_rx"] = "wait"
        /\ pc' \in [Writers -> {"wait", "reset", "mask", "frame"}]
    BY <1>2, <1>8, <2>1 DEF Writers
  <2>3. ThreadType'
    BY <1>1, <1>6, <2>2, InvParts DEF ThreadType
  <2>4. Alone' /\ Counted'
    BY <1>1, <2>2, InvParts DEF Alone, Counted
  <2>5. packet' \in Frames /\ Len(packet') = ClaimedLength(packet')
    BY <1>6, <1>10 DEF tashtalk_tx_validate
  <2>6. \A t \in Writers : pc'[t] # "reset" /\ written'[t] = 0
    BY <1>1, <1>3, <2>2 DEF Writers
  <2>7. Progress'
    <3>1. (packet \in Frames /\ Len(packet) = ClaimedLength(packet)
             => FrameLength \in Nat /\ FrameLength = 1 + Len(packet))'
      BY Lengths, PTL
    <3>2. FrameLength' > 0
      <4>1. Len(packet') >= 2 /\ Len(packet') \in Nat
        BY <2>5, LinkParameters
      <4> QED  BY <2>5, <3>1, <4>1 DEF ClaimedLength
    <3>3. \A t \in Writers : Total(pc[t])' > 0
      BY <2>2, <3>2, Lengths, TableParameters DEF Total, MaskLength, Writers
    <3>4. packet' \in Frames /\ Len(packet)' = ClaimedLength(packet)'
      BY <2>5 DEF ClaimedLength
    <3> QED  BY <2>6, <3>3, <3>4 DEF Progress
  <2>8. ZerosDo'
    BY <2>6 DEF ZerosDo
  <2>9. SenderListed'
    <3>1. Touch(packet'[1]) /\ packet'[1] \in NodeIds
      BY <1>10, GetTable
    <3>2. Listed(nodebits') = Fresh'
      BY <3>1, TouchListed
    <3>3. packet'[1] \notin {0, Everyone} => packet'[1] \in Fresh'
      BY <3>1, InvParts, FreshWhenTouched
    <3> QED  BY <3>2, <3>3 DEF SenderListed, Listed, Everyone
  <2>10. ASSUME lost' = 0 PROVE InStep' /\ Answers'
    <3>1. HasOf("mask", nodebits, written["uart_tx"])' /\ HasOf("frame", packet, written["uart_tx"])'
      BY <1>7, <1>8, <2>6, <2>10 DEF HasOf
    <3>2. InStep'
      BY <1>7, <2>6, <2>10, <3>1 DEF InStep
    <3>3. Answers'
      BY <1>7, <2>2, <2>10 DEF Answers
    <3> QED  BY <3>2, <3>3
  <2> QED  BY <1>4, <1>5, <2>3, <2>4, <2>7, <2>8, <2>9, <2>10, TypePartsPrime DEF LinkInv
<1> QED  BY <1>9, <1>10

(* One writer writes: its next byte, or its last.                          *)
LEMMA Advances ==
  ASSUME LinkInv, NEW t \in Writers, NEW total, NEW l \in {"wait", "frame"},
         Advance(t, total, l), written[t] < total, total \in Nat, total <= ResetLength
  PROVE  /\ pc' \in [Writers -> {"wait", "reset", "mask", "frame"}]
         /\ written' \in [Writers -> 0 .. ResetLength]
         /\ \A u \in Writers \ {t} : pc'[u] = pc[u] /\ written'[u] = written[u]
         /\ IF written[t] + 1 = total THEN written'[t] = 0 /\ pc'[t] = l
                                      ELSE written'[t] = written[t] + 1 /\ pc' = pc
<1>1. /\ pc \in [Writers -> {"wait", "reset", "mask", "frame"}]
      /\ written \in [Writers -> 0 .. ResetLength] /\ ResetLength \in Nat
  BY InvParts, Lengths DEF ThreadType
<1>2. CASE written[t] + 1 = total
  <2>1. written' = [written EXCEPT ![t] = 0] /\ pc' = [pc EXCEPT ![t] = l]
    BY <1>2 DEF Advance
  <2> QED  BY <1>1, <1>2, <2>1
<1>3. CASE written[t] + 1 # total
  <2>1. written' = [written EXCEPT ![t] = written[t] + 1] /\ pc' = pc
    BY <1>3 DEF Advance
  <2>2. written[t] + 1 \in 0 .. ResetLength
    BY <1>1
  <2> QED  BY <1>1, <1>3, <2>1, <2>2
<1> QED  BY <1>2, <1>3

LEMMA MissInv ==
  ASSUME LinkInv, Miss
  PROVE  TashTalkType' /\ Unfinished' /\ lost' # 0
BY InvParts, LinkParameters DEF Miss, TashTalkType, Unfinished, ClaimedLength

LEMMA OnlyTxWrites ==
  ASSUME LinkInv, pc["uart_tx"] # "wait"
  PROVE  /\ pc["main"] = "wait" /\ pc["uart_rx"] = "wait"
         /\ \A t \in Writers \ {"uart_tx"} : pc[t] = "wait" /\ written[t] = 0
         /\ packet \in Frames /\ Len(packet) = ClaimedLength(packet)
<1>1. pc["main"] = "wait" /\ pc["uart_rx"] = "wait"
  BY InvParts DEF Alone
<1>2. \A t \in Writers \ {"uart_tx"} : pc[t] = "wait"
  BY <1>1 DEF Writers
<1> QED  BY <1>1, <1>2, NothingWritten, InvParts DEF Progress

(* What is left to show when uart_tx has written a byte.                   *)
LEMMA TxWroteInv ==
  ASSUME LinkInv, pc["uart_tx"] \in {"mask", "frame"},
         UNCHANGED <<table, handshake_count, UDPtoUART, packet>>,
         TashTalkType', Unfinished',
         pc' \in [Writers -> {"wait", "reset", "mask", "frame"}],
         written' \in [Writers -> 0 .. ResetLength],
         \A t \in Writers \ {"uart_tx"} : pc'[t] = pc[t] /\ written'[t] = written[t],
         pc'["uart_tx"] \in {"wait", "mask", "frame"},
         written'["uart_tx"] < Total(pc["uart_tx"])',
         lost' = 0 => InStep' /\ Answers'
  PROVE  LinkInv'
<1>1. /\ pc["main"] = "wait" /\ pc["uart_rx"] = "wait"
      /\ \A t \in Writers \ {"uart_tx"} : pc[t] = "wait" /\ written[t] = 0
      /\ packet \in Frames /\ Len(packet) = ClaimedLength(packet)
  BY OnlyTxWrites
<1>2. pc'["main"] = "wait" /\ pc'["uart_rx"] = "wait"
  BY <1>1 DEF Writers
<1>3. TableTypeOK'
  BY InvParts DEF table, TableTypeOK
<1>4. ThreadType'
  BY InvParts DEF ThreadType
<1>5. Alone' /\ Counted'
  BY <1>1, <1>2, InvParts DEF Alone, Counted
<1>6. Progress'
  <2>1. ASSUME NEW t \in Writers \ {"uart_tx"} PROVE written'[t] < Total(pc[t])'
    BY <1>1 DEF Total
  <2>2. \A t \in Writers : written'[t] < Total(pc[t])'
    BY <2>1
  <2>3. packet' \in Frames /\ Len(packet)' = ClaimedLength(packet)'
    BY <1>1 DEF ClaimedLength
  <2> QED  BY <2>2, <2>3 DEF Progress
<1>7. ZerosDo'
  <2>1. \A t \in Writers : pc'[t] # "reset"
    BY <1>1
  <2> QED  BY <2>1 DEF ZerosDo
<1>8. SenderListed'
  BY InvParts DEF SenderListed, table, Listed, Everyone
<1> QED  BY <1>3, <1>4, <1>5, <1>6, <1>7, <1>8, TypePartsPrime DEF LinkInv

LEMMA WriteMaskInv == ASSUME LinkInv, UartTxWriteMask PROVE LinkInv'
<1>0. PICK w : w = written["uart_tx"]
  OBVIOUS
<1> USE <1>0
<1>1. /\ pc["uart_tx"] = "mask" /\ (Receive(MaskByte(w)) \/ Miss)
      /\ Advance("uart_tx", MaskLength, "frame")
      /\ UNCHANGED <<table, handshake_count, UDPtoUART, packet>>
  BY DEF UartTxWriteMask
<1>2. /\ "uart_tx" \in Writers /\ w \in 0 .. NodeBytes /\ w \in Nat /\ w < MaskLength
      /\ MaskLength \in Nat /\ MaskLength = 1 + NodeBytes /\ MaskLength <= ResetLength
  <2>1. w < MaskLength /\ w \in 0 .. ResetLength /\ "uart_tx" \in Writers
    BY <1>1, InvParts, TotalOf DEF Progress, ThreadType, Writers
  <2> QED  BY <2>1, Lengths, TableParameters
<1>3. /\ pc' \in [Writers -> {"wait", "reset", "mask", "frame"}]
      /\ written' \in [Writers -> 0 .. ResetLength]
      /\ \A u \in Writers \ {"uart_tx"} : pc'[u] = pc[u] /\ written'[u] = written[u]
      /\ IF w + 1 = MaskLength THEN written'["uart_tx"] = 0 /\ pc'["uart_tx"] = "frame"
                               ELSE written'["uart_tx"] = w + 1 /\ pc' = pc
  BY <1>1, <1>2, Advances
<1>4. nodebits \in [1 .. NodeBytes -> Bytes] /\ TashTalkType /\ Unfinished
  BY InvParts DEF TableTypeOK, Bytes
<1>5. MaskByte(w) \in Bytes
  <2> QED  BY <1>2, <1>4, LinkParameters, TableParameters DEF MaskByte
<1>6. TashTalkType' /\ Unfinished'
  BY <1>1, <1>4, <1>5, ReceiveType, MissInv
<1>7. /\ pc["main"] = "wait" /\ pc["uart_rx"] = "wait"
      /\ \A t \in Writers \ {"uart_tx"} : pc[t] = "wait" /\ written[t] = 0
      /\ packet \in Frames /\ Len(packet) = ClaimedLength(packet)
  BY <1>1, OnlyTxWrites
<1>8. pc'["main"] = "wait" /\ pc'["uart_rx"] = "wait" /\ nodebits' = nodebits
  BY <1>1, <1>3, <1>7 DEF Writers, table
<1>9. pc'["uart_tx"] \in {"mask", "frame"}
  BY <1>1, <1>3
<1>10. written'["uart_tx"] < Total(pc["uart_tx"])'
  <2>1. CASE w + 1 = MaskLength
    <3>1. Total(pc["uart_tx"])' = 1 + Len(packet)
      BY <1>1, <1>3, <2>1 DEF Total, FrameLength
    <3>2. Len(packet) \in Nat
      BY <1>7, LinkParameters
    <3> QED  BY <1>3, <2>1, <3>1, <3>2
  <2>2. CASE w + 1 # MaskLength
    <3>1. Total(pc["uart_tx"])' = MaskLength
      BY <1>1, <1>3, <2>2 DEF Total, MaskLength
    <3> QED  BY <1>2, <1>3, <2>2, <3>1
  <2> QED  BY <2>1, <2>2
<1>11. ASSUME lost' = 0 PROVE InStep' /\ Answers'
  <2>1. Receive(MaskByte(w)) /\ lost = 0
    <3>1. Receive(MaskByte(w))
      BY <1>1, <1>11, MissInv
    <3> QED  BY <1>11, <3>1 DEF Receive
  <2>2. HasOf("mask", nodebits, w)
    BY <1>1, <2>1, InvParts DEF InStep
  <2>3. IF w = NodeBytes THEN tt'.mode = "command" /\ ttMask' = nodebits
                         ELSE HasOf("mask", nodebits, w + 1)' /\ ttMask' = ttMask
    BY <1>2, <1>4, <1>8, <2>1, <2>2, ReceiveMask
  <2>4. \A t \in Writers : pc'[t] # "reset"
    BY <1>3, <1>7, <1>9 DEF Writers
  <2>5. CASE w + 1 = MaskLength
    <3>1. w = NodeBytes
      <4> QED  BY <1>2, <2>5, TableParameters
    <3>2. tt'.mode = "command" /\ ttMask' = nodebits' /\ pc'["uart_tx"] = "frame"
          /\ written'["uart_tx"] = 0
      BY <1>3, <1>8, <2>3, <2>5, <3>1
    <3>3. HasOf("frame", packet, written["uart_tx"])'
      BY <3>2 DEF HasOf
    <3> QED  BY <2>4, <3>2, <3>3, <1>2 DEF InStep, Answers
  <2>6. CASE w + 1 # MaskLength
    <3>1. w # NodeBytes
      <4> QED  BY <1>2, <2>6, TableParameters
    <3>2. HasOf("mask", nodebits, w + 1)' /\ pc'["uart_tx"] = "mask"
          /\ written'["uart_tx"] = w + 1
      BY <1>1, <1>3, <2>3, <2>6, <3>1
    <3>3. HasOf("mask", nodebits, written["uart_tx"])'
      <4> QED  BY <3>2 DEF HasOf
    <3> QED  BY <2>4, <3>2, <3>3, <1>2 DEF InStep, Answers
  <2> QED  BY <2>5, <2>6
<1> QED  BY <1>1, <1>3, <1>6, <1>9, <1>10, <1>11, TxWroteInv

(* A frame.  When TashTalk has the last byte of one, it has all of it.     *)
LEMMA WriteFrameInv ==
  ASSUME LinkInv, UartTxWriteFrame
  PROVE  /\ LinkInv'
         /\ lost = 0 /\ tt.mode = "frame" /\ tt'.mode = "command" => tt'.got = packet
<1>0. PICK w : w = written["uart_tx"]
  OBVIOUS
<1> USE <1>0
<1>1. /\ pc["uart_tx"] = "frame" /\ (Receive(FrameByte(w)) \/ (w = 0 /\ Miss))
      /\ Advance("uart_tx", FrameLength, "wait")
      /\ UNCHANGED <<table, handshake_count, UDPtoUART, packet>>
  BY DEF UartTxWriteFrame
<1>2. /\ pc["main"] = "wait" /\ pc["uart_rx"] = "wait"
      /\ \A t \in Writers \ {"uart_tx"} : pc[t] = "wait" /\ written[t] = 0
      /\ packet \in Frames /\ Len(packet) = ClaimedLength(packet)
  BY <1>1, OnlyTxWrites
<1>3. packet \in Seq(Bytes) /\ Len(packet) \in Nat
  BY <1>2, LinkParameters
<1>4. /\ "uart_tx" \in Writers /\ w \in 0 .. Len(packet) /\ w \in Nat /\ w < FrameLength
      /\ FrameLength \in Nat /\ FrameLength = 1 + Len(packet) /\ FrameLength <= ResetLength
  <2>1. w < FrameLength /\ w \in 0 .. ResetLength /\ "uart_tx" \in Writers
    BY <1>1, InvParts, TotalOf DEF Progress, ThreadType, Writers
  <2> QED  BY <1>2, <1>3, <2>1, Lengths
<1>5. /\ pc' \in [Writers -> {"wait", "reset", "mask", "frame"}]
      /\ written' \in [Writers -> 0 .. ResetLength]
      /\ \A u \in Writers \ {"uart_tx"} : pc'[u] = pc[u] /\ written'[u] = written[u]
      /\ IF w + 1 = FrameLength THEN written'["uart_tx"] = 0 /\ pc'["uart_tx"] = "wait"
                                ELSE written'["uart_tx"] = w + 1 /\ pc' = pc
  BY <1>1, <1>4, Advances
<1>6. TashTalkType /\ Unfinished
  BY InvParts
<1>7. FrameByte(w) \in Bytes
  <2> QED  BY <1>3, <1>4, NodeNumbers DEF FrameByte
<1>8. TashTalkType' /\ Unfinished'
  BY <1>1, <1>6, <1>7, ReceiveType, MissInv
<1>9. pc'["main"] = "wait" /\ pc'["uart_rx"] = "wait" /\ nodebits' = nodebits
      /\ packet' = packet
  BY <1>1, <1>2, <1>5 DEF Writers, table
<1>10. pc'["uart_tx"] \in {"wait", "frame"}
  BY <1>1, <1>5
<1>11. written'["uart_tx"] < Total(pc["uart_tx"])'
  <2>1. CASE w + 1 = FrameLength
    <3>1. Total(pc["uart_tx"])' = 1
      BY <1>5, <2>1 DEF Total
    <3> QED  BY <1>5, <2>1, <3>1
  <2>2. CASE w + 1 # FrameLength
    <3>1. Total(pc["uart_tx"])' = FrameLength
      BY <1>1, <1>5, <2>2 DEF Total, FrameLength
    <3> QED  BY <1>4, <1>5, <2>2, <3>1
  <2> QED  BY <2>1, <2>2
<1>12. ASSUME lost = 0, Receive(FrameByte(w))
       PROVE  /\ ttMask' = ttMask
              /\ IF w = Len(packet) THEN tt'.mode = "command" /\ tt'.got = packet
                 ELSE tt'.mode = "frame" /\ HasOf("frame", packet, w + 1)'
  <2>1. HasOf("frame", packet, w)
    BY <1>1, <1>12, InvParts DEF InStep
  <2> QED  BY <1>2, <1>4, <1>6, <1>9, <1>12, <2>1, ReceiveFrame
<1>13. ASSUME lost' = 0 PROVE InStep' /\ Answers'
  <2>1. Receive(FrameByte(w)) /\ lost = 0
    <3>1. Receive(FrameByte(w))
      BY <1>1, <1>13, MissInv
    <3> QED  BY <1>13, <3>1 DEF Receive
  <2>2. \A t \in Writers : pc'[t] # "reset"
    BY <1>2, <1>5, <1>10 DEF Writers
  <2>3. ttMask' = nodebits'
    BY <1>1, <1>2, <1>9, <1>12, <2>1, InvParts DEF Answers
  <2>4. CASE w + 1 = FrameLength
    <3>1. w = Len(packet)
      <4> QED  BY <1>3, <1>4, <2>4
    <3>2. tt'.mode = "command" /\ pc'["uart_tx"] = "wait"
      BY <1>5, <1>12, <2>1, <2>4, <3>1
    <3> QED  BY <2>2, <2>3, <3>2 DEF InStep, Answers
  <2>5. CASE w + 1 # FrameLength
    <3>1. w # Len(packet)
      <4> QED  BY <1>3, <1>4, <2>5
    <3>2. HasOf("frame", packet, w + 1)' /\ pc'["uart_tx"] = "frame"
          /\ written'["uart_tx"] = w + 1
      BY <1>1, <1>5, <1>12, <2>1, <2>5, <3>1
    <3>3. HasOf("frame", packet, written["uart_tx"])'
      <4> QED  BY <3>2 DEF HasOf
    <3> QED  BY <1>4, <2>2, <2>3, <3>2, <3>3 DEF InStep, Answers
  <2> QED  BY <2>4, <2>5
<1>14. LinkInv'
  BY <1>1, <1>5, <1>8, <1>10, <1>11, <1>13, TxWroteInv
<1>15. ASSUME lost = 0, tt.mode = "frame", tt'.mode = "command" PROVE tt'.got = packet
  <2>1. CASE Receive(FrameByte(w))
    BY <1>12, <1>15, <2>1
  <2>2. CASE Miss
    BY <1>15, <2>2 DEF Miss
  <2> QED  BY <1>1, <2>1, <2>2
<1> QED  BY <1>14, <1>15

(* A reset: the zeros at its end leave TashTalk waiting for a command,     *)
(* whatever it was waiting for before.                                     *)
LEMMA ResetInv ==
  ASSUME LinkInv, NEW t \in {"main", "uart_rx"}, ResetTashTalk(t)
  PROVE  /\ LinkInv'
         /\ pc'[t] = "wait" => tt'.mode = "command"
         /\ lost = 0 => tt.mode # "frame"
         /\ \A u \in Writers \ {t} : pc'[u] = pc[u]
<1>0. PICK w : w = written[t]
  OBVIOUS
<1> USE <1>0
<1>1. /\ pc[t] = "reset" /\ Receive(ResetByte(w)) /\ Advance(t, ResetLength, "wait")
      /\ handshake_count' = IF pc'[t] = "wait" THEN 0 ELSE handshake_count
      /\ UNCHANGED <<table, UDPtoUART, packet>>
  BY DEF ResetTashTalk
<1>2. /\ t \in Writers /\ UDPtoUART = <<>> /\ pc["uart_tx"] = "wait"
      /\ \A u \in Writers \ {t} : pc[u] = "wait" /\ written[u] = 0
  <2>1. t \in Writers /\ UDPtoUART = <<>> /\ pc["uart_tx"] = "wait"
    BY <1>1, InvParts DEF Writers, Alone
  <2>2. t = "main" => pc["uart_rx"] = "wait"
    BY <1>1, InvParts DEF Alone
  <2>3. t = "uart_rx" => pc["main"] = "wait"
    BY <1>1, InvParts DEF Alone
  <2>4. \A u \in Writers \ {t} : pc[u] = "wait"
    BY <2>1, <2>2, <2>3 DEF Writers
  <2> QED  BY <2>1, <2>4, NothingWritten
<1>3. /\ ResetLength \in Nat /\ ResetLength = 1 + NodeBytes + ZeroCount
      /\ NodeBytes \in Nat /\ NodeBytes > 0 /\ Bit[ByteBits] \in Nat
      /\ ZeroCount \in Nat /\ ZeroCount > Bit[ByteBits]
  BY Lengths, TableParameters, LinkParameters, NodeNumbers
<1>4. w \in Nat /\ w < ResetLength
  BY <1>1, <1>2, InvParts, TotalOf DEF Progress, ThreadType
<1>5. /\ pc' \in [Writers -> {"wait", "reset", "mask", "frame"}]
      /\ written' \in [Writers -> 0 .. ResetLength]
      /\ \A u \in Writers \ {t} : pc'[u] = pc[u] /\ written'[u] = written[u]
      /\ IF w + 1 = ResetLength THEN written'[t] = 0 /\ pc'[t] = "wait"
                                ELSE written'[t] = w + 1 /\ pc' = pc
  BY <1>1, <1>2, <1>3, <1>4, Advances
<1>6. /\ nodebits \in [1 .. NodeBytes -> Bytes] /\ TashTalkType /\ Unfinished /\ nodebits' = nodebits
  BY <1>1, InvParts DEF TableTypeOK, Bytes, table
<1>7. /\ w <= NodeBytes => ResetByte(w) = MaskByte(w)
      /\ w > NodeBytes => ResetByte(w) = 0
      /\ ResetByte(w) \in Bytes
  <2>1. 2 \in Bytes /\ 0 \in Bytes
    BY LinkParameters, NodeNumbers
  <2>2. w # 0 /\ w <= NodeBytes => nodebits[w] \in Bytes
    BY <1>3, <1>4, <1>6
  <2> QED  BY <1>3, <1>4, <2>1, <2>2 DEF ResetByte, MaskByte
<1>8. TashTalkType' /\ Unfinished'
  BY <1>1, <1>6, <1>7, ReceiveType
<1>9. Pending \in 0 .. Bit[ByteBits] /\ (Pending = 0 => tt.mode = "command")
  BY <1>6, PendingBound
<1>10. Pending' \in 0 .. Bit[ByteBits] /\ (Pending' = 0 => tt'.mode = "command")
  <2>1. (TashTalkType /\ Unfinished
          => Pending \in 0 .. Bit[ByteBits] /\ (Pending = 0 => tt.mode = "command"))'
    BY PendingBound, PTL
  <2> QED  BY <1>8, <2>1
<1>11. w > NodeBytes => Pending' = 0 \/ Pending' + 1 <= Pending
  <2>1. w > NodeBytes => Receive(0)
    BY <1>1, <1>7
  <2> QED  BY <1>6, <2>1, ReceiveZero
<1>12. w > NodeBytes => Pending = 0 \/ Pending + w <= Bit[ByteBits] + NodeBytes + 1
  BY <1>1, <1>2, InvParts DEF ZerosDo
<1>13. pc'[t] = "wait" => w + 1 = ResetLength /\ w > NodeBytes
  <2>1. pc'[t] = "wait" => w + 1 = ResetLength
    BY <1>1, <1>5
  <2> QED  BY <1>3, <1>4, <2>1
<1>14. pc'[t] = "wait" => tt'.mode = "command"
  <2> SUFFICES ASSUME w + 1 = ResetLength, w > NodeBytes PROVE tt'.mode = "command"
    BY <1>13
  <2>1. Pending = 0
    BY <1>3, <1>4, <1>9, <1>12
  <2>2. \A p, q \in Nat : p = 0 /\ (q = 0 \/ q + 1 <= p) => q = 0
    OBVIOUS
  <2>3. Pending \in Nat /\ Pending' \in Nat
    BY <1>3, <1>9, <1>10
  <2>4. Pending' = 0 \/ Pending' + 1 <= Pending
    BY <1>11
  <2>5. Pending' = 0
    BY <2>1, <2>2, <2>3, <2>4, Zenon
  <2> QED  BY <1>10, <2>5, Zenon
<1>15. ASSUME lost = 0
       PROVE  /\ tt.mode # "frame"
              /\ InStep' /\ Answers'
  <2>1. IF w > NodeBytes THEN tt.mode = "command" ELSE HasOf("mask", nodebits, w)
    BY <1>1, <1>2, <1>15, InvParts DEF InStep
  <2>2. tt.mode # "frame"
    BY <2>1 DEF HasOf
  <2>3. w > NodeBytes => ttMask = nodebits
    <3> SUFFICES ASSUME w > NodeBytes PROVE ttMask = nodebits
      OBVIOUS
    <3>1. ~(pc["main"] = "reset" /\ written["main"] <= NodeBytes)
      <4>1. CASE t = "main"
        BY <1>3, <1>4, <4>1
      <4>2. CASE t = "uart_rx"
        BY <1>2, <4>2 DEF Writers
      <4> QED  BY <4>1, <4>2
    <3> QED  BY <1>2, <1>15, <3>1, InvParts DEF Answers
  <2>4. t # "main" => ttMask = nodebits
    BY <1>2, <1>15, InvParts DEF Answers, Writers
  <2>5. CASE w > NodeBytes
    <3>1. tt'.mode = "command" /\ ttMask' = nodebits'
      <4>1. Receive(0) /\ tt.mode = "command" /\ 0 \in Bytes
        BY <1>1, <1>7, <2>1, <2>5, NodeNumbers
      <4>2. tt' = tt /\ ttMask' = ttMask
        BY <1>6, <4>1, ReceiveCases, CommandCases
      <4> QED  BY <1>6, <2>3, <2>5, <4>1, <4>2
    <3>2. \A u \in Writers : pc'[u] = "reset" => written'[u] > NodeBytes
      <4>1. pc'[t] = "reset" => written'[t] = w + 1
        BY <1>5
      <4>2. w + 1 > NodeBytes
        BY <1>3, <1>4, <2>5
      <4>3. \A u \in Writers \ {t} : pc'[u] = "wait"
        BY <1>2, <1>5
      <4> QED  BY <4>1, <4>2, <4>3
    <3>3. pc'["uart_tx"] = "wait"
      BY <1>2, <1>5 DEF Writers
    <3> QED  BY <2>2, <3>1, <3>2, <3>3 DEF InStep, Answers
  <2>6. CASE w <= NodeBytes
    <3>1. w \in 0 .. NodeBytes /\ HasOf("mask", nodebits, w) /\ Receive(MaskByte(w))
      BY <1>1, <1>3, <1>4, <1>7, <2>1, <2>6
    <3>2. IF w = NodeBytes THEN tt'.mode = "command" /\ ttMask' = nodebits
                           ELSE HasOf("mask", nodebits, w + 1)' /\ ttMask' = ttMask
      BY <1>6, <3>1, ReceiveMask
    <3>3. pc' = pc /\ written'[t] = w + 1
      BY <1>3, <1>4, <1>5, <2>6
    <3>4. \A u \in Writers : pc'[u] = "reset" => u = t
      BY <1>2, <3>3
    <3>5. pc'["uart_tx"] = "wait" /\ pc'[t] = "reset"
      BY <1>1, <1>2, <3>3
    <3>6. CASE w = NodeBytes
      <4>1. written'[t] > NodeBytes /\ tt'.mode = "command" /\ ttMask' = nodebits'
        BY <1>3, <1>6, <3>2, <3>3, <3>6
      <4> QED  BY <2>2, <3>4, <3>5, <4>1 DEF InStep, Answers
    <3>7. CASE w # NodeBytes
      <4>1. /\ ~(written'[t] > NodeBytes) /\ written'[t] <= NodeBytes
            /\ HasOf("mask", nodebits, w + 1)' /\ ttMask' = ttMask
        BY <1>3, <1>4, <2>6, <3>2, <3>3, <3>7
      <4>2. HasOf("mask", nodebits, written[t])'
        BY <3>3, <4>1 DEF HasOf
      <4>3. InStep'
        <5>1. ~\A u \in Writers : pc'[u] = "wait"
          BY <1>2, <3>5
        <5> QED  BY <3>4, <3>5, <4>1, <4>2, <5>1 DEF InStep
      <4>4. Answers'
        <5>1. CASE t = "main"
          BY <3>5, <4>1, <5>1 DEF Answers
        <5>2. CASE t # "main"
          BY <1>6, <2>4, <4>1, <5>2 DEF Answers
        <5> QED  BY <5>1, <5>2
      <4> QED  BY <2>2, <4>3, <4>4
    <3> QED  BY <3>6, <3>7
  <2> QED  BY <1>3, <1>4, <2>5, <2>6
<1>16. pc'["uart_tx"] = "wait" /\ \A u \in Writers \ {t} : pc'[u] = "wait" /\ written'[u] = 0
  <2>1. "uart_tx" \in Writers \ {t}
    BY DEF Writers
  <2> QED  BY <1>2, <1>5, <2>1
<1>17. pc'[t] \in {"wait", "reset"}
  BY <1>1, <1>5
<1>18. ThreadType'
  <2>1. handshake_count' \in 0 .. MaxHandshakes + 1
    <3>1. MaxHandshakes \in Nat /\ handshake_count \in 0 .. MaxHandshakes + 1
      BY InvParts, LinkParameters DEF ThreadType
    <3>2. handshake_count' = 0 \/ handshake_count' = handshake_count
      BY <1>1
    <3> QED  BY <3>1, <3>2
  <2> QED  BY <1>1, <1>5, <2>1, InvParts DEF ThreadType
<1>19. Alone'
  <2>1. t = "main" => pc'["uart_rx"] = "wait"
    BY <1>16 DEF Writers
  <2>2. t = "uart_rx" => pc'["main"] = "wait"
    BY <1>16 DEF Writers
  <2> QED  BY <1>1, <1>2, <1>16, <1>17, <2>1, <2>2 DEF Alone
<1>20. Counted'
  <2>1. CASE pc'[t] = "wait"
    BY <1>1, <2>1, LinkParameters DEF Counted
  <2>2. CASE pc'[t] # "wait"
    <3>1. pc' = pc /\ handshake_count' = handshake_count
      BY <1>1, <1>5, <2>2
    <3> QED  BY <3>1, InvParts DEF Counted
  <2> QED  BY <2>1, <2>2
<1>21. Progress'
  <2>1. ASSUME NEW u \in Writers \ {t} PROVE written'[u] < Total(pc[u])'
    BY <1>16 DEF Total
  <2>2. written'[t] < Total(pc[t])'
    <3>1. CASE w + 1 = ResetLength
      BY <1>5, <3>1 DEF Total
    <3>2. CASE w + 1 # ResetLength
      <4>1. Total(pc[t])' = ResetLength
        BY <1>1, <1>5, <3>2 DEF Total, ResetLength
      <4> QED  BY <1>3, <1>4, <1>5, <3>2, <4>1
    <3> QED  BY <3>1, <3>2
  <2>3. \A u \in Writers : written'[u] < Total(pc[u])'
    BY <2>1, <2>2
  <2> QED  BY <1>16, <2>3 DEF Progress
<1>22. ZerosDo'
  <2>1. ASSUME pc'[t] = "reset", written'[t] > NodeBytes
        PROVE  Pending' = 0 \/ Pending' + written'[t] <= Bit[ByteBits] + NodeBytes + 1
    <3>1. written'[t] = w + 1
      BY <1>5, <2>1
    <3>2. CASE w > NodeBytes
      <4>1. \A p, q, b \in Nat :
              /\ q = 0 \/ q + 1 <= p
              /\ p = 0 \/ p + w <= b
              => q = 0 \/ q + (w + 1) <= b
        BY <1>4
      <4>2. Pending \in Nat /\ Pending' \in Nat /\ Bit[ByteBits] + NodeBytes + 1 \in Nat
        BY <1>3, <1>9, <1>10
      <4> QED  BY <1>11, <1>12, <3>1, <3>2, <4>1, <4>2, Zenon
    <3>3. CASE ~(w > NodeBytes)
      BY <1>3, <1>4, <1>10, <2>1, <3>1, <3>3
    <3> QED  BY <3>2, <3>3
  <2>2. \A u \in Writers : pc'[u] = "reset" => u = t
    BY <1>16
  <2> QED  BY <2>1, <2>2 DEF ZerosDo
<1>23. TableTypeOK' /\ SenderListed'
  BY <1>1, <1>16, InvParts DEF TableTypeOK, table, SenderListed
<1>24. lost' = 0 => InStep' /\ Answers'
  BY <1>1, <1>15 DEF Receive
<1>25. LinkInv'
  BY <1>8, <1>18, <1>19, <1>20, <1>21, <1>22, <1>23, <1>24, TypePartsPrime DEF LinkInv
<1> QED  BY <1>2, <1>5, <1>14, <1>15, <1>25

-----------------------------------------------------------------------------
(* What each step keeps, and what it does.                                 *)

Synchronises == ResetDone => tt'.mode = "command"
FrameIntact ==
  lost = 0 /\ tt.mode = "frame" /\ tt'.mode = "command"
    => pc["uart_tx"] = "frame" /\ tt'.got = packet

LEMMA WhatAStepDoes ==
  ASSUME LinkInv, [Next]_vars
  PROVE  LinkInv' /\ Synchronises /\ FrameIntact /\ TableStep
<1>1. ASSUME NEW t \in {"main", "uart_rx"}, ResetTashTalk(t)
      PROVE  LinkInv' /\ Synchronises /\ FrameIntact /\ TableStep
  <2>1. /\ LinkInv' /\ (pc'[t] = "wait" => tt'.mode = "command")
        /\ lost = 0 => tt.mode # "frame"
        /\ \A u \in Writers \ {t} : pc'[u] = pc[u]
    BY <1>1, ResetInv
  <2>2. Synchronises
    BY <2>1 DEF Synchronises, ResetDone
  <2> QED  BY <1>1, <2>1, <2>2 DEF FrameIntact, ResetTashTalk, TableStep
<1>2. CASE MayRun("uart_rx") /\ ForwardFrame
  <2>1. UNCHANGED table /\ tt' = tt
    BY <1>2 DEF ForwardFrame, tashtalk
  <2>2. pc["main"] = "wait" /\ pc["uart_tx"] = "wait" /\ pc["uart_rx"] = "wait"
    BY <1>2, WhoRuns DEF ForwardFrame
  <2>3. ~ResetDone
    BY <2>2 DEF ResetDone, Writers
  <2> QED  BY <1>2, <2>1, <2>3, ForwardInv DEF Synchronises, FrameIntact, TableStep
<1>3. CASE MayRun("uart_tx") /\ UartTxGet
  <2>1. pc["main"] = "wait" /\ pc["uart_rx"] = "wait" /\ pc["uart_tx"] = "wait" /\ tt' = tt
    BY <1>3, WhoRuns, InvParts DEF UartTxGet, Alone, tashtalk
  <2>2. ~ResetDone
    BY <2>1 DEF ResetDone, Writers
  <2>3. TableStep
    BY <1>3, GetTable DEF TableStep
  <2> QED  BY <1>3, <2>1, <2>2, <2>3, UartTxGetInv DEF Synchronises, FrameIntact
<1>4. CASE UartTxWriteMask
  <2>1. pc["uart_tx"] = "mask" /\ UNCHANGED table
    BY <1>4 DEF UartTxWriteMask
  <2>2. \A t \in Writers : pc[t] # "reset"
    BY <2>1, OnlyTxWrites
  <2>3. lost = 0 => tt.mode # "frame"
    BY <2>1, InvParts DEF InStep, HasOf
  <2> QED  BY <1>4, <2>1, <2>2, <2>3, WriteMaskInv
           DEF Synchronises, FrameIntact, ResetDone, TableStep
<1>5. CASE UartTxWriteFrame
  <2>1. pc["uart_tx"] = "frame" /\ UNCHANGED table
    BY <1>5 DEF UartTxWriteFrame
  <2>2. \A t \in Writers : pc[t] # "reset"
    BY <2>1, OnlyTxWrites
  <2> QED  BY <1>5, <2>1, <2>2, WriteFrameInv
           DEF Synchronises, FrameIntact, ResetDone, TableStep
<1>6. CASE MayRun("udp_rx") /\ PacketFromUdp
  <2>1. UNCHANGED <<table, pc>> /\ tt' = tt
    BY <1>6 DEF PacketFromUdp, tashtalk
  <2> QED  BY <1>6, <2>1, UdpInv DEF Synchronises, FrameIntact, ResetDone, TableStep
<1>7. CASE MayRun("apps") /\ Reboot
  <2>1. pc["main"] = "wait" /\ pc["uart_rx"] = "wait" /\ pc["uart_tx"] = "wait"
    BY <1>7, WhoRuns
  <2>2. StartAnew /\ tt' = tt
    BY <1>7 DEF Reboot, StartAnew, tashtalk
  <2>3. ~ResetDone
    BY <2>1 DEF ResetDone, Writers
  <2> QED  BY <1>7, <2>2, <2>3, RebootInv DEF Synchronises, FrameIntact, TableStep
<1>8. CASE Clock
  <2>1. Tick /\ pc' = pc /\ tt' = tt
    BY <1>8 DEF Clock, tashtalk
  <2> QED  BY <1>8, <2>1, ClockInv DEF Synchronises, FrameIntact, ResetDone, TableStep
<1>9. CASE UNCHANGED vars
  <2>1. UNCHANGED table /\ pc' = pc /\ tt' = tt
    BY <1>9 DEF vars, table
  <2> QED  BY <1>9, <2>1, LinkStutterInv DEF Synchronises, FrameIntact, ResetDone, TableStep
<1> QED  BY <1>1, <1>2, <1>3, <1>4, <1>5, <1>6, <1>7, <1>8, <1>9
         DEF Next, main, uart_rx, uart_tx, udp_rx, apps

LEMMA LinkInductive == Spec => []LinkInv
<1>1. LinkInv /\ [Next]_vars => LinkInv'
  BY WhatAStepDoes
<1> QED  BY LinkInitInv, <1>1, PTL DEF Spec

-----------------------------------------------------------------------------
(* The results.                                                            *)

(* The counters, the queue and the commands of main.c and uart.c stay in   *)
(* their ranges, whatever the sizes.                                       *)
THEOREM LinkTypes == Spec => []TypeOK
<1>1. LinkInv => TypeOK
  BY DEF LinkInv
<1> QED  BY LinkInductive, <1>1, PTL

(* uart_tx and uart_init_tashtalk write to one UART without a lock, and    *)
(* never at the same time: the priorities of the threads suffice.          *)
THEOREM NeverTwoWriters == Spec => []OneWriter
<1>1. LinkInv => OneWriter
  BY InvParts DEF Alone, OneWriter, Writing, Writers
<1> QED  BY LinkInductive, <1>1, PTL

(* It is enough that uart_tx tells TashTalk of changes of node_table_packet:*)
(* unless bytes are lost, TashTalk answers for exactly those nodes, after  *)
(* reboots, resets and changes in any order.                               *)
THEOREM MaskIsTold == Spec => []MaskTold
<1>1. LinkInv => MaskTold
  BY InvParts DEF Answers, MaskTold, Writing
<1> QED  BY LinkInductive, <1>1, PTL

(* Only uart_tx adds to the table, and each time it makes a new mask; the  *)
(* clock only takes nodes out of the fresh ones.                           *)
FreshListed == Fresh \subseteq Listed(nodebits)

LEMMA FreshListedStep ==
  ASSUME TableTypeOK, TableStep, FreshListed PROVE FreshListed'
<1>1. CASE Tick
  <2>1. now' = now + 1 /\ UNCHANGED <<node_table, nodebits>> /\ now \in Nat
    BY <1>1 DEF Tick, TableTypeOK
  <2>2. ASSUME NEW n \in NodeIds, nt_fresh(node_table, n, Cutoff)'
        PROVE  nt_fresh(node_table, n, Cutoff)
    <3>1. node_table.last_seen[n] \in 0 .. now
      BY DEF TableTypeOK
    <3> QED  BY <2>1, <2>2, <3>1, TableParameters DEF nt_fresh
  <2>3. Fresh' \subseteq Fresh
    BY <2>2 DEF Fresh
  <2> QED  BY <2>1, <2>3 DEF FreshListed, Listed
<1>2. ASSUME NEW n \in NodeIds, Touch(n) PROVE FreshListed'
  <2>1. Listed(nodebits') = Fresh'
    BY <1>2, TouchListed
  <2> QED  BY <2>1 DEF FreshListed, Listed
<1>3. CASE StartAnew
  <2>1. \A n \in NodeIds : ~nt_fresh(node_table, n, Cutoff)'
    BY <1>3 DEF StartAnew, EmptyTable, nt_fresh
  <2> QED  BY <2>1 DEF Fresh, FreshListed
<1>4. CASE UNCHANGED table
  BY <1>4 DEF table, Fresh, nt_fresh, FreshListed, Listed
<1> QED  BY <1>1, <1>2, <1>3, <1>4 DEF TableStep

LEMMA FreshAlwaysListed == Spec => []FreshListed
<1>1. Init => FreshListed
  BY DEF Init, TableInit, EmptyTable, Fresh, nt_fresh, FreshListed
<1>2. LinkInv /\ FreshListed /\ [Next]_vars => FreshListed'
  BY WhatAStepDoes, InvParts, FreshListedStep
<1> QED  BY <1>1, <1>2, LinkInductive, PTL DEF Spec

(* uart_tx marks the sender and sends the mask before the frame: TashTalk  *)
(* answers for the sender of any frame that it is given, and at any time   *)
(* for all nodes that are fresh then, whatever the width of the mask, of   *)
(* its bytes and of the cutoff.                                            *)
THEOREM NodesAreAnswered == Spec => []NodesAnswered
<1>1. LinkInv /\ FreshListed => NodesAnswered
  <2> SUFFICES ASSUME LinkInv, FreshListed, lost = 0, ~Writing("main"),
                      pc["uart_tx"] # "mask"
               PROVE  /\ Fresh \subseteq Listed(ttMask)
                      /\ pc["uart_tx"] = "frame" /\ packet[1] \notin {0, Everyone}
                           => packet[1] \in Listed(ttMask)
    BY DEF NodesAnswered
  <2>1. ttMask = nodebits
    BY InvParts DEF Answers, Writing
  <2>2. pc["uart_tx"] = "frame" /\ packet[1] \notin {0, Everyone}
          => packet[1] \in Listed(nodebits)
    BY InvParts DEF SenderListed
  <2> QED  BY <2>1, <2>2 DEF FreshListed
<1> QED  BY LinkInductive, FreshAlwaysListed, <1>1, PTL

(* The two halves of nt_fresh fit together: a node is fresh if it was seen *)
(* less than the cutoff ago, and not if it was seen longer ago than that.  *)
THEOREM CutoffIsKept == Spec => []FreshWithinASecond
<1>1. LinkInv => FreshWithinASecond
  BY InvParts, FreshMeans
<1> QED  BY LinkInductive, <1>1, PTL

(* The zeros of uart_init_tashtalk suffice: wherever TashTalk was in a     *)
(* mask or a frame, after a reset it waits for a command.                  *)
THEOREM ResetsSynchronise == Spec => ResetSynchronises
<1>1. LinkInv /\ [Next]_vars => [ResetDone => tt'.mode = "command"]_vars
  BY WhatAStepDoes DEF Synchronises
<1> QED  BY LinkInductive, <1>1, PTL DEF Spec, ResetSynchronises

(* Unless bytes are lost, all that TashTalk sends on the wire are the      *)
(* packets of uart_tx, whole: nothing else is taken for a frame.           *)
THEOREM FramesStayIntact == Spec => FramesIntact
<1>1. LinkInv /\ [Next]_vars =>
        [lost = 0 /\ tt.mode = "frame" /\ tt'.mode = "command"
           => pc["uart_tx"] = "frame" /\ tt'.got = packet]_vars
  BY WhatAStepDoes DEF FrameIntact
<1> QED  BY LinkInductive, <1>1, PTL DEF Spec, FramesIntact

(* nt_serialise makes a mask from nothing: when it changes, it has the     *)
(* bits of the fresh nodes and no other, for any number of bytes and bits. *)
THEOREM MasksListFresh == Spec => MaskListsFresh
<1>1. LinkInv /\ [Next]_vars => [nodebits' # nodebits => Listed(nodebits') = Fresh']_nodebits
  BY WhatAStepDoes, InvParts, FreshStep
<1> QED  BY LinkInductive, <1>1, PTL DEF Spec, MaskListsFresh

(* To the threads that use it the table of node_table.c is a set: it       *)
(* starts empty, gains the node that is touched, and loses nodes only with *)
(* time or a new start of the board.                                       *)
THEOREM TableIsASet == Spec => FreshSetSpec
<1>1. LinkInv /\ [Next]_vars =>
        [\/ now' > now /\ Fresh' \subseteq Fresh
         \/ now' = 0 /\ Fresh' = {}
         \/ \E n \in NodeIds \ {0, Everyone} : Fresh' = Fresh \cup {n}]_Fresh
  BY WhatAStepDoes, InvParts, FreshStep
<1>2. Init => Fresh = {}
  BY DEF Init, TableInit, EmptyTable, Fresh, nt_fresh
<1> QED  BY LinkInductive, <1>1, <1>2, PTL DEF Spec, FreshSetSpec
=============================================================================
