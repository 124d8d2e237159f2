------------------------------ MODULE CrcProofs -------------------------------
(***************************************************************************)
(* The table of crc.c divides by the polynomial of the LocalTalk frame     *)
(* check sequence, whatever the bytes are and however many.                *)
(*                                                                         *)
(* Xor is what it is bit by bit, so it commutes, associates and cancels,   *)
(* and it can be halved.  From that a shift of the register is linear;     *)
(* eight of them divide a byte, and what they make of the eight powers of  *)
(* two, and so of every byte, is what the table has.  A register that      *)
(* takes in its own complement is always left with the same residue, the   *)
(* one crc_state_ok looks for.                                             *)
(***************************************************************************)
EXTENDS Crc, WellFoundedInduction, TLAPS

-----------------------------------------------------------------------------
(* Loops.                                                                   *)

LEMMA LeastNumber ==
  ASSUME NEW T \in SUBSET Nat, NEW n \in T
  PROVE  \E x \in T : \A y \in T : x <= y
<1>1. PICK x \in T : \A y \in T : ~(<<y, x>> \in OpToRel(<, Nat))
  BY NatLessThanWellFounded, WFMin
<1>2. \A y \in T : ~(y < x)
  BY <1>1 DEF OpToRel
<1> QED  BY <1>2

(* A loop whose body keeps x in S ...                                       *)
StepsWithin(S, step, n) == \A i \in 1 .. n : \A x \in S : step[i][x] \in S

(* ... and the values that x takes.                                         *)
IsRun(S, step, init, n, run) ==
  /\ run \in [0 .. n -> S] /\ run[0] = init
  /\ \A i \in 1 .. n : run[i] = step[i][run[i - 1]]

LEMMA LoopRuns ==
  ASSUME NEW S, NEW step, NEW init \in S, NEW n \in Nat, StepsWithin(S, step, n)
  PROVE  \E run : IsRun(S, step, init, n, run)
<1> DEFINE Without == {k \in 0 .. n : ~ \E run : IsRun(S, step, init, k, run)}
<1> SUFFICES ASSUME NEW m \in Without PROVE FALSE
  OBVIOUS
<1>1. PICK k \in Without : \A y \in Without : k <= y
  <2>1. Without \in SUBSET Nat
    OBVIOUS
  <2> HIDE DEF Without
  <2> QED  BY <2>1, LeastNumber
<1>2. k # 0
  <2>1. IsRun(S, step, init, 0, [i \in 0 .. 0 |-> init])
    BY DEF IsRun
  <2> QED  BY <1>1, <2>1
<1>3. k \in 1 .. n /\ k - 1 \in 0 .. n /\ k - 1 \notin Without
  <2>1. k \in 1 .. n /\ k - 1 \in 0 .. n /\ ~(k <= k - 1)
    BY <1>1, <1>2
  <2> HIDE DEF Without
  <2> QED  BY <1>1, <2>1
<1>4. PICK run : IsRun(S, step, init, k - 1, run)
  BY <1>3
<1> DEFINE longer == [i \in 0 .. k |-> IF i = k THEN step[k][run[k - 1]] ELSE run[i]]
<1>5. run \in [0 .. k - 1 -> S] /\ run[0] = init /\ \A i \in 1 .. k - 1 : run[i] = step[i][run[i - 1]]
  BY <1>4 DEF IsRun
<1>6. longer \in [0 .. k -> S]
  <2>1. run[k - 1] \in S
    BY <1>3, <1>5
  <2>2. step[k][run[k - 1]] \in S
    BY <1>3, <2>1 DEF StepsWithin
  <2>3. \A i \in 0 .. k : i # k => i \in 0 .. k - 1
    BY <1>3
  <2> QED  BY <1>5, <2>2, <2>3
<1>7. longer[0] = init
  BY <1>3, <1>5
<1>8. \A i \in 1 .. k : longer[i] = step[i][longer[i - 1]]
  BY <1>3, <1>5
<1>9. IsRun(S, step, init, k, longer)
  BY <1>6, <1>7, <1>8 DEF IsRun
<1> QED  BY <1>1, <1>9

(* Two loops that begin alike and whose bodies do the same, as far as the   *)
(* shorter one goes.                                                        *)
LEMMA RunsAgree ==
  ASSUME NEW S, NEW a, NEW b, NEW init, NEW m \in Nat, NEW n \in Nat, m <= n,
         NEW f, IsRun(S, a, init, m, f),
         NEW g, g[0] = init, \A i \in 1 .. n : g[i] = b[i][g[i - 1]],
         \A i \in 1 .. m : \A x \in S : a[i][x] = b[i][x]
  PROVE  \A i \in 0 .. m : f[i] = g[i]
<1> DEFINE Differ == {i \in 0 .. m : f[i] # g[i]}
<1> SUFFICES ASSUME NEW k \in Differ PROVE FALSE
  OBVIOUS
<1>1. PICK i \in Differ : \A y \in Differ : i <= y
  <2>1. Differ \in SUBSET Nat
    OBVIOUS
  <2> HIDE DEF Differ
  <2> QED  BY <2>1, LeastNumber
<1>2. i # 0
  BY <1>1 DEF IsRun
<1>3. i \in 1 .. m /\ i \in 1 .. n /\ i - 1 \in 0 .. m /\ i - 1 \notin Differ
  <2>1. i \in 1 .. m /\ i \in 1 .. n /\ i - 1 \in 0 .. m /\ ~(i <= i - 1)
    BY <1>1, <1>2
  <2> HIDE DEF Differ
  <2> QED  BY <1>1, <2>1
<1>4. f[i - 1] = g[i - 1] /\ f[i - 1] \in S
  BY <1>3 DEF IsRun
<1>5. f[i] = a[i][f[i - 1]] /\ g[i] = b[i][g[i - 1]]
  BY <1>3 DEF IsRun
<1> QED  BY <1>1, <1>3, <1>4, <1>5

LEMMA LoopIsRun ==
  ASSUME NEW S, NEW step, NEW init, NEW n \in Nat, NEW run, IsRun(S, step, init, n, run)
  PROVE  Loop(step, init, n) = run[n]
<1> DEFINE IsAfter(g) == g = [i \in 0 .. n |-> IF i = 0 THEN init ELSE step[i][g[i - 1]]]
           after == CHOOSE g : IsAfter(g)
<1>1. Loop(step, init, n) = after[n]
  BY DEF Loop
<1>2. IsAfter(run)
  <2>1. \A i \in 0 .. n : run[i] = IF i = 0 THEN init ELSE step[i][run[i - 1]]
    BY DEF IsRun
  <2> QED  BY <2>1 DEF IsRun
<1>3. IsAfter(after)
  <2> HIDE DEF IsAfter
  <2> QED  BY <1>2
<1> HIDE DEF after
<1>4. after[0] = init /\ \A i \in 1 .. n : after[i] = step[i][after[i - 1]]
  BY <1>3
<1> HIDE DEF IsAfter
<1>5. \A i \in 1 .. n : \A x \in S : step[i][x] = step[i][x]
  OBVIOUS
<1>6. n <= n /\ n \in 0 .. n
  OBVIOUS
<1>7. \A i \in 0 .. n : run[i] = after[i]
  BY <1>4, <1>5, <1>6, RunsAgree
<1> QED  BY <1>1, <1>6, <1>7

(* What Loop does, one round after another.                                 *)
LEMMA LoopSteps ==
  ASSUME NEW S, NEW step, NEW init \in S, NEW m \in Nat, StepsWithin(S, step, m)
  PROVE  /\ Loop(step, init, 0) = init
         /\ \A n \in 1 .. m : Loop(step, init, n) = step[n][Loop(step, init, n - 1)]
         /\ \A n \in 0 .. m : Loop(step, init, n) \in S
<1>1. PICK run : IsRun(S, step, init, m, run)
  BY LoopRuns
<1>2. ASSUME NEW n \in 0 .. m PROVE Loop(step, init, n) = run[n] /\ run[n] \in S
  <2> DEFINE part == [i \in 0 .. n |-> run[i]]
  <2>1. IsRun(S, step, init, n, part)
    BY <1>1 DEF IsRun
  <2>2. n \in Nat /\ n \in 0 .. n
    OBVIOUS
  <2>3. part[n] = run[n] /\ run[n] \in S
    BY <1>1, <2>2 DEF IsRun
  <2> HIDE DEF part
  <2> QED  BY <2>1, <2>2, <2>3, LoopIsRun
<1>3. Loop(step, init, 0) = init
  BY <1>1, <1>2 DEF IsRun
<1>4. ASSUME NEW n \in 1 .. m PROVE Loop(step, init, n) = step[n][Loop(step, init, n - 1)]
  <2>1. n \in 0 .. m /\ n - 1 \in 0 .. m
    OBVIOUS
  <2>2. run[n] = step[n][run[n - 1]]
    BY <1>1 DEF IsRun
  <2> QED  BY <1>2, <2>1, <2>2
<1> QED  BY <1>2, <1>3, <1>4

(* Loops that do the same come to the same.                                 *)
StepsAgree(S, a, b, n) == \A i \in 1 .. n : \A x \in S : a[i][x] = b[i][x]

LEMMA SameLoops ==
  ASSUME NEW S, NEW a, NEW b, NEW init \in S, NEW n \in Nat, StepsWithin(S, a, n),
         StepsAgree(S, a, b, n)
  PROVE  Loop(a, init, n) = Loop(b, init, n)
<1>1. PICK f : IsRun(S, a, init, n, f)
  BY LoopRuns
<1>2. IsRun(S, b, init, n, f)
  <2>1. f \in [0 .. n -> S] /\ f[0] = init
    BY <1>1 DEF IsRun
  <2>2. ASSUME NEW i \in 1 .. n PROVE f[i] = b[i][f[i - 1]]
    <3>1. i - 1 \in 0 .. n
      OBVIOUS
    <3>2. f[i - 1] \in S /\ f[i] = a[i][f[i - 1]]
      BY <1>1, <2>1, <3>1 DEF IsRun
    <3> QED  BY <3>2 DEF StepsAgree
  <2> QED  BY <2>1, <2>2 DEF IsRun
<1> QED  BY <1>1, <1>2, LoopIsRun

-----------------------------------------------------------------------------
(* Bits of a register.                                                     *)
Bits == {1, 2, 4, 8, 16, 32, 64, 128, 256, 512, 1024, 2048, 4096, 8192, 16384, 32768}
Bit(x, b) == (x \div b) % 2

LEMMA HalfQuotient ==
  ASSUME NEW x \in Nat, NEW b \in Bits
  PROVE  x \div b \in Nat /\ x \div (2 * b) = (x \div b) \div 2
<1>0. CASE b = 1
  <2>1. x \div 1 \in Nat /\ x \div 2 = (x \div 1) \div 2
    BY SMT
  <2> QED  BY SMT, <2>1, <1>0
<1>1. CASE b = 2
  <2>1. x \div 2 \in Nat /\ x \div 4 = (x \div 2) \div 2
    BY SMT
  <2> QED  BY SMT, <2>1, <1>1
<1>2. CASE b = 4
  <2>1. x \div 4 \in Nat /\ x \div 8 = (x \div 4) \div 2
    BY SMT
  <2> QED  BY SMT, <2>1, <1>2
<1>3. CASE b = 8
  <2>1. x \div 8 \in Nat /\ x \div 16 = (x \div 8) \div 2
    BY SMT
  <2> QED  BY SMT, <2>1, <1>3
<1>4. CASE b = 16
  <2>1. x \div 16 \in Nat /\ x \div 32 = (x \div 16) \div 2
    BY SMT
  <2> QED  BY SMT, <2>1, <1>4
<1>5. CASE b = 32
  <2>1. x \div 32 \in Nat /\ x \div 64 = (x \div 32) \div 2
    BY SMT
  <2> QED  BY SMT, <2>1, <1>5
<1>6. CASE b = 64
  <2>1. x \div 64 \in Nat /\ x \div 128 = (x \div 64) \div 2
    BY SMT
  <2> QED  BY SMT, <2>1, <1>6
<1>7. CASE b = 128
  <2>1. x \div 128 \in Nat /\ x \div 256 = (x \div 128) \div 2
    BY SMT
  <2> QED  BY SMT, <2>1, <1>7
<1>8. CASE b = 256
  <2>1. x \div 256 \in Nat /\ x \div 512 = (x \div 256) \div 2
    BY SMT
  <2> QED  BY SMT, <2>1, <1>8
<1>9. CASE b = 512
  <2>1. x \div 512 \in Nat /\ x \div 1024 = (x \div 512) \div 2
    BY SMT
  <2> QED  BY SMT, <2>1, <1>9
<1>10. CASE b = 1024
  <2>1. x \div 1024 \in Nat /\ x \div 2048 = (x \div 1024) \div 2
    BY SMT
  <2> QED  BY SMT, <2>1, <1>10
<1>11. CASE b = 2048
  <2>1. x \div 2048 \in Nat /\ x \div 4096 = (x \div 2048) \div 2
    BY SMT
  <2> QED  BY SMT, <2>1, <1>11
<1>12. CASE b = 4096
  <2>1. x \div 4096 \in Nat /\ x \div 8192 = (x \div 4096) \div 2
    BY SMT
  <2> QED  BY SMT, <2>1, <1>12
<1>13. CASE b = 8192
  <2>1. x \div 8192 \in Nat /\ x \div 16384 = (x \div 8192) \div 2
    BY SMT
  <2> QED  BY SMT, <2>1, <1>13
<1>14. CASE b = 16384
  <2>1. x \div 16384 \in Nat /\ x \div 32768 = (x \div 16384) \div 2
    BY SMT
  <2> QED  BY SMT, <2>1, <1>14
<1>15. CASE b = 32768
  <2>1. x \div 32768 \in Nat /\ x \div 65536 = (x \div 32768) \div 2
    BY SMT
  <2> QED  BY SMT, <2>1, <1>15
<1> QED  BY SMT, <1>0, <1>1, <1>2, <1>3, <1>4, <1>5, <1>6, <1>7, <1>8, <1>9, <1>10, <1>11, <1>12, <1>13, <1>14, <1>15 DEF Bits

LEMMA SameHalves ==
  ASSUME NEW x \in Nat, NEW y \in Nat, x \div 2 = y \div 2, x % 2 = y % 2
  PROVE  x = y
BY SMT

LEMMA Registers ==
  /\ UINT16_MAX \in Nat
  /\ \A x : x \in crc_state_t <=> x \in Nat /\ x <= UINT16_MAX
<1>1. UINT16_MAX \in Nat
  BY SMT DEF UINT16_MAX
<1> QED  BY SMT, <1>1 DEF crc_state_t

LEMMA NoMoreBits == \A x \in crc_state_t : x \in Nat /\ x \div 65536 = 0
<1> SUFFICES ASSUME NEW x \in Nat, x <= UINT16_MAX PROVE x \div 65536 = 0
  BY SMT, Registers
<1> QED  BY SMT DEF UINT16_MAX

(* A register is its sixteen bits.                                          *)
LEMMA SameBits ==
  ASSUME NEW x \in crc_state_t, NEW y \in crc_state_t, \A b \in Bits : Bit(x, b) = Bit(y, b)
  PROVE  x = y
<1>1. x \in Nat /\ y \in Nat /\ x \div 65536 = 0 /\ y \div 65536 = 0
  BY NoMoreBits
<1>2. ASSUME NEW b \in Bits, x \div (2 * b) = y \div (2 * b) PROVE x \div b = y \div b
  <2>1. x \div b \in Nat /\ y \div b \in Nat /\ (x \div b) \div 2 = (y \div b) \div 2
    BY <1>1, <1>2, HalfQuotient
  <2>2. (x \div b) % 2 = (y \div b) % 2
    BY DEF Bit
  <2> HIDE <1>2
  <2> QED  BY <2>1, <2>2, SameHalves
<1>25. x \div 32768 = y \div 32768
  <2>1. 32768 \in Bits /\ 2 * 32768 = 65536
    BY SMT DEF Bits
  <2> QED  BY SMT, <1>1, <1>2, <2>1
<1>24. x \div 16384 = y \div 16384
  <2>1. 16384 \in Bits /\ 2 * 16384 = 32768
    BY SMT DEF Bits
  <2> QED  BY SMT, <1>25, <1>2, <2>1
<1>23. x \div 8192 = y \div 8192
  <2>1. 8192 \in Bits /\ 2 * 8192 = 16384
    BY SMT DEF Bits
  <2> QED  BY SMT, <1>24, <1>2, <2>1
<1>22. x \div 4096 = y \div 4096
  <2>1. 4096 \in Bits /\ 2 * 4096 = 8192
    BY SMT DEF Bits
  <2> QED  BY SMT, <1>23, <1>2, <2>1
<1>21. x \div 2048 = y \div 2048
  <2>1. 2048 \in Bits /\ 2 * 2048 = 4096
    BY SMT DEF Bits
  <2> QED  BY SMT, <1>22, <1>2, <2>1
<1>20. x \div 1024 = y \div 1024
  <2>1. 1024 \in Bits /\ 2 * 1024 = 2048
    BY SMT DEF Bits
  <2> QED  BY SMT, <1>21, <1>2, <2>1
<1>19. x \div 512 = y \div 512
  <2>1. 512 \in Bits /\ 2 * 512 = 1024
    BY SMT DEF Bits
  <2> QED  BY SMT, <1>20, <1>2, <2>1
<1>18. x \div 256 = y \div 256
  <2>1. 256 \in Bits /\ 2 * 256 = 512
    BY SMT DEF Bits
  <2> QED  BY SMT, <1>19, <1>2, <2>1
<1>17. x \div 128 = y \div 128
  <2>1. 128 \in Bits /\ 2 * 128 = 256
    BY SMT DEF Bits
  <2> QED  BY SMT, <1>18, <1>2, <2>1
<1>16. x \div 64 = y \div 64
  <2>1. 64 \in Bits /\ 2 * 64 = 128
    BY SMT DEF Bits
  <2> QED  BY SMT, <1>17, <1>2, <2>1
<1>15. x \div 32 = y \div 32
  <2>1. 32 \in Bits /\ 2 * 32 = 64
    BY SMT DEF Bits
  <2> QED  BY SMT, <1>16, <1>2, <2>1
<1>14. x \div 16 = y \div 16
  <2>1. 16 \in Bits /\ 2 * 16 = 32
    BY SMT DEF Bits
  <2> QED  BY SMT, <1>15, <1>2, <2>1
<1>13. x \div 8 = y \div 8
  <2>1. 8 \in Bits /\ 2 * 8 = 16
    BY SMT DEF Bits
  <2> QED  BY SMT, <1>14, <1>2, <2>1
<1>12. x \div 4 = y \div 4
  <2>1. 4 \in Bits /\ 2 * 4 = 8
    BY SMT DEF Bits
  <2> QED  BY SMT, <1>13, <1>2, <2>1
<1>11. x \div 2 = y \div 2
  <2>1. 2 \in Bits /\ 2 * 2 = 4
    BY SMT DEF Bits
  <2> QED  BY SMT, <1>12, <1>2, <2>1
<1>10. x \div 1 = y \div 1
  <2>1. 1 \in Bits /\ 2 * 1 = 2
    BY SMT DEF Bits
  <2> QED  BY SMT, <1>11, <1>2, <2>1
<1> QED  BY SMT, <1>1, <1>10

LEMMA Parity == \A m, n \in Nat : (m + n) % 2 \in 0 .. 1 /\ (m + n) % 2 = ((m % 2) + (n % 2)) % 2
BY SMT

(* Every bit of an exclusive or is the sum of the two bits, modulo 2.       *)
LEMMA XorBits ==
  ASSUME NEW x \in Nat, NEW y \in Nat
  PROVE  /\ Xor(x, y) \in crc_state_t
         /\ \A b \in Bits : Bit(Xor(x, y), b) = (Bit(x, b) + Bit(y, b)) % 2
<1> DEFINE d0 == (x \div 1 + y \div 1) % 2
             d1 == (x \div 2 + y \div 2) % 2
             d2 == (x \div 4 + y \div 4) % 2
             d3 == (x \div 8 + y \div 8) % 2
             d4 == (x \div 16 + y \div 16) % 2
             d5 == (x \div 32 + y \div 32) % 2
             d6 == (x \div 64 + y \div 64) % 2
             d7 == (x \div 128 + y \div 128) % 2
             d8 == (x \div 256 + y \div 256) % 2
             d9 == (x \div 512 + y \div 512) % 2
             d10 == (x \div 1024 + y \div 1024) % 2
             d11 == (x \div 2048 + y \div 2048) % 2
             d12 == (x \div 4096 + y \div 4096) % 2
             d13 == (x \div 8192 + y \div 8192) % 2
             d14 == (x \div 16384 + y \div 16384) % 2
             d15 == (x \div 32768 + y \div 32768) % 2
           s == d0 + (2 * d1) + (4 * d2) + (8 * d3) + (16 * d4) + (32 * d5) + (64 * d6) + (128 * d7)
                + (256 * d8) + (512 * d9) + (1024 * d10) + (2048 * d11) + (4096 * d12) + (8192 * d13) + (16384 * d14) + (32768 * d15)
<1>1. \A b \in Bits : /\ (x \div b + y \div b) % 2 \in 0 .. 1
                     /\ (x \div b + y \div b) % 2 = (Bit(x, b) + Bit(y, b)) % 2
  BY HalfQuotient, Parity DEF Bit
<1>2. Xor(x, y) = s
  <2> DEFINE d(b) == (x \div b + y \div b) % 2
  <2>1. Xor(x, y) = 1 * d(1) + 2 * d(2) + 4 * d(4) + 8 * d(8) + 16 * d(16) + 32 * d(32) + 64 * d(64) + 128 * d(128) + 256 * d(256) + 512 * d(512) + 1024 * d(1024) + 2048 * d(2048) + 4096 * d(4096) + 8192 * d(8192) + 16384 * d(16384) + 32768 * d(32768)
    BY SMT DEF Xor
  <2>2. d0 = d(1) /\ d1 = d(2) /\ d2 = d(4) /\ d3 = d(8) /\ d4 = d(16) /\ d5 = d(32) /\ d6 = d(64) /\ d7 = d(128) /\ d8 = d(256) /\ d9 = d(512) /\ d10 = d(1024) /\ d11 = d(2048) /\ d12 = d(4096) /\ d13 = d(8192) /\ d14 = d(16384) /\ d15 = d(32768)
    OBVIOUS
  <2>3. 1 \in Bits /\ 2 \in Bits /\ 4 \in Bits /\ 8 \in Bits /\ 16 \in Bits /\ 32 \in Bits /\ 64 \in Bits /\ 128 \in Bits /\ 256 \in Bits /\ 512 \in Bits /\ 1024 \in Bits /\ 2048 \in Bits /\ 4096 \in Bits /\ 8192 \in Bits /\ 16384 \in Bits /\ 32768 \in Bits
    BY SMT DEF Bits
  <2>4. d(1) \in 0 .. 1 /\ d(2) \in 0 .. 1 /\ d(4) \in 0 .. 1 /\ d(8) \in 0 .. 1 /\ d(16) \in 0 .. 1 /\ d(32) \in 0 .. 1 /\ d(64) \in 0 .. 1 /\ d(128) \in 0 .. 1 /\ d(256) \in 0 .. 1 /\ d(512) \in 0 .. 1 /\ d(1024) \in 0 .. 1 /\ d(2048) \in 0 .. 1 /\ d(4096) \in 0 .. 1 /\ d(8192) \in 0 .. 1 /\ d(16384) \in 0 .. 1 /\ d(32768) \in 0 .. 1
    BY <1>1, <2>3
  <2> HIDE DEF d, d0, d1, d2, d3, d4, d5, d6, d7, d8, d9, d10, d11, d12, d13, d14, d15
  <2> QED  BY SMT, <2>1, <2>2, <2>4
<1>3. d0 \in 0 .. 1 /\ d1 \in 0 .. 1 /\ d2 \in 0 .. 1 /\ d3 \in 0 .. 1 /\ d4 \in 0 .. 1 /\ d5 \in 0 .. 1 /\ d6 \in 0 .. 1 /\ d7 \in 0 .. 1 /\ d8 \in 0 .. 1 /\ d9 \in 0 .. 1 /\ d10 \in 0 .. 1 /\ d11 \in 0 .. 1 /\ d12 \in 0 .. 1 /\ d13 \in 0 .. 1 /\ d14 \in 0 .. 1 /\ d15 \in 0 .. 1
  <2>1. 1 \in Bits /\ 2 \in Bits /\ 4 \in Bits /\ 8 \in Bits /\ 16 \in Bits /\ 32 \in Bits /\ 64 \in Bits /\ 128 \in Bits /\ 256 \in Bits /\ 512 \in Bits /\ 1024 \in Bits /\ 2048 \in Bits /\ 4096 \in Bits /\ 8192 \in Bits /\ 16384 \in Bits /\ 32768 \in Bits
    BY SMT DEF Bits
  <2> QED  BY <1>1, <2>1
<1>4. d0 = (Bit(x, 1) + Bit(y, 1)) % 2 /\ d1 = (Bit(x, 2) + Bit(y, 2)) % 2 /\ d2 = (Bit(x, 4) + Bit(y, 4)) % 2 /\ d3 = (Bit(x, 8) + Bit(y, 8)) % 2 /\ d4 = (Bit(x, 16) + Bit(y, 16)) % 2 /\ d5 = (Bit(x, 32) + Bit(y, 32)) % 2 /\ d6 = (Bit(x, 64) + Bit(y, 64)) % 2 /\ d7 = (Bit(x, 128) + Bit(y, 128)) % 2 /\ d8 = (Bit(x, 256) + Bit(y, 256)) % 2 /\ d9 = (Bit(x, 512) + Bit(y, 512)) % 2 /\ d10 = (Bit(x, 1024) + Bit(y, 1024)) % 2 /\ d11 = (Bit(x, 2048) + Bit(y, 2048)) % 2 /\ d12 = (Bit(x, 4096) + Bit(y, 4096)) % 2 /\ d13 = (Bit(x, 8192) + Bit(y, 8192)) % 2 /\ d14 = (Bit(x, 16384) + Bit(y, 16384)) % 2 /\ d15 = (Bit(x, 32768) + Bit(y, 32768)) % 2
  <2>1. 1 \in Bits /\ 2 \in Bits /\ 4 \in Bits /\ 8 \in Bits /\ 16 \in Bits /\ 32 \in Bits /\ 64 \in Bits /\ 128 \in Bits /\ 256 \in Bits /\ 512 \in Bits /\ 1024 \in Bits /\ 2048 \in Bits /\ 4096 \in Bits /\ 8192 \in Bits /\ 16384 \in Bits /\ 32768 \in Bits
    BY SMT DEF Bits
  <2> QED  BY <1>1, <2>1
<1> HIDE DEF d0, d1, d2, d3, d4, d5, d6, d7, d8, d9, d10, d11, d12, d13, d14, d15
<1>5. s \in crc_state_t
  <2>1. s \in Nat /\ s <= UINT16_MAX
    BY SMT, <1>3 DEF UINT16_MAX
  <2> QED  BY SMT, <2>1, Registers
<1>10. Bit(s, 1) = d0
  <2> DEFINE low == 0
             high == d1 + (2 * d2) + (4 * d3) + (8 * d4) + (16 * d5) + (32 * d6) + (64 * d7) + (128 * d8) + (256 * d9) + (512 * d10) + (1024 * d11) + (2048 * d12) + (4096 * d13) + (8192 * d14) + (16384 * d15)
  <2>1. low \in Nat /\ low < 1 /\ high \in Nat
    BY SMT, <1>3
  <2>2. s = low + (1 * d0) + (2 * high)
    BY SMT, <1>3
  <2> HIDE DEF low, high, s
  <2>3. s \div 1 = d0 + 2 * high
    BY SMT, <1>3, <2>1, <2>2
  <2> QED  BY SMT, <1>3, <2>1, <2>3 DEF Bit
<1>11. Bit(s, 2) = d1
  <2> DEFINE low == d0
             high == d2 + (2 * d3) + (4 * d4) + (8 * d5) + (16 * d6) + (32 * d7) + (64 * d8) + (128 * d9) + (256 * d10) + (512 * d11) + (1024 * d12) + (2048 * d13) + (4096 * d14) + (8192 * d15)
  <2>1. low \in Nat /\ low < 2 /\ high \in Nat
    BY SMT, <1>3
  <2>2. s = low + (2 * d1) + (4 * high)
    BY SMT, <1>3
  <2> HIDE DEF low, high, s
  <2>3. s \div 2 = d1 + 2 * high
    BY SMT, <1>3, <2>1, <2>2
  <2> QED  BY SMT, <1>3, <2>1, <2>3 DEF Bit
<1>12. Bit(s, 4) = d2
  <2> DEFINE low == d0 + (2 * d1)
             high == d3 + (2 * d4) + (4 * d5) + (8 * d6) + (16 * d7) + (32 * d8) + (64 * d9) + (128 * d10) + (256 * d11) + (512 * d12) + (1024 * d13) + (2048 * d14) + (4096 * d15)
  <2>1. low \in Nat /\ low < 4 /\ high \in Nat
    BY SMT, <1>3
  <2>2. s = low + (4 * d2) + (8 * high)
    BY SMT, <1>3
  <2> HIDE DEF low, high, s
  <2>3. s \div 4 = d2 + 2 * high
    BY SMT, <1>3, <2>1, <2>2
  <2> QED  BY SMT, <1>3, <2>1, <2>3 DEF Bit
<1>13. Bit(s, 8) = d3
  <2> DEFINE low == d0 + (2 * d1) + (4 * d2)
             high == d4 + (2 * d5) + (4 * d6) + (8 * d7) + (16 * d8) + (32 * d9) + (64 * d10) + (128 * d11) + (256 * d12) + (512 * d13) + (1024 * d14) + (2048 * d15)
  <2>1. low \in Nat /\ low < 8 /\ high \in Nat
    BY SMT, <1>3
  <2>2. s = low + (8 * d3) + (16 * high)
    BY SMT, <1>3
  <2> HIDE DEF low, high, s
  <2>3. s \div 8 = d3 + 2 * high
    BY SMT, <1>3, <2>1, <2>2
  <2> QED  BY SMT, <1>3, <2>1, <2>3 DEF Bit
<1>14. Bit(s, 16) = d4
  <2> DEFINE low == d0 + (2 * d1) + (4 * d2) + (8 * d3)
             high == d5 + (2 * d6) + (4 * d7) + (8 * d8) + (16 * d9) + (32 * d10) + (64 * d11) + (128 * d12) + (256 * d13) + (512 * d14) + (1024 * d15)
  <2>1. low \in Nat /\ low < 16 /\ high \in Nat
    BY SMT, <1>3
  <2>2. s = low + (16 * d4) + (32 * high)
    BY SMT, <1>3
  <2> HIDE DEF low, high, s
  <2>3. s \div 16 = d4 + 2 * high
    BY SMT, <1>3, <2>1, <2>2
  <2> QED  BY SMT, <1>3, <2>1, <2>3 DEF Bit
<1>15. Bit(s, 32) = d5
  <2> DEFINE low == d0 + (2 * d1) + (4 * d2) + (8 * d3) + (16 * d4)
             high == d6 + (2 * d7) + (4 * d8) + (8 * d9) + (16 * d10) + (32 * d11) + (64 * d12) + (128 * d13) + (256 * d14) + (512 * d15)
  <2>1. low \in Nat /\ low < 32 /\ high \in Nat
    BY SMT, <1>3
  <2>2. s = low + (32 * d5) + (64 * high)
    BY SMT, <1>3
  <2> HIDE DEF low, high, s
  <2>3. s \div 32 = d5 + 2 * high
    BY SMT, <1>3, <2>1, <2>2
  <2> QED  BY SMT, <1>3, <2>1, <2>3 DEF Bit
<1>16. Bit(s, 64) = d6
  <2> DEFINE low == d0 + (2 * d1) + (4 * d2) + (8 * d3) + (16 * d4) + (32 * d5)
             high == d7 + (2 * d8) + (4 * d9) + (8 * d10) + (16 * d11) + (32 * d12) + (64 * d13) + (128 * d14) + (256 * d15)
  <2>1. low \in Nat /\ low < 64 /\ high \in Nat
    BY SMT, <1>3
  <2>2. s = low + (64 * d6) + (128 * high)
    BY SMT, <1>3
  <2> HIDE DEF low, high, s
  <2>3. s \div 64 = d6 + 2 * high
    BY SMT, <1>3, <2>1, <2>2
  <2> QED  BY SMT, <1>3, <2>1, <2>3 DEF Bit
<1>17. Bit(s, 128) = d7
  <2> DEFINE low == d0 + (2 * d1) + (4 * d2) + (8 * d3) + (16 * d4) + (32 * d5) + (64 * d6)
             high == d8 + (2 * d9) + (4 * d10) + (8 * d11) + (16 * d12) + (32 * d13) + (64 * d14) + (128 * d15)
  <2>1. low \in Nat /\ low < 128 /\ high \in Nat
    BY SMT, <1>3
  <2>2. s = low + (128 * d7) + (256 * high)
    BY SMT, <1>3
  <2> HIDE DEF low, high, s
  <2>3. s \div 128 = d7 + 2 * high
    BY SMT, <1>3, <2>1, <2>2
  <2> QED  BY SMT, <1>3, <2>1, <2>3 DEF Bit
<1>18. Bit(s, 256) = d8
  <2> DEFINE low == d0 + (2 * d1) + (4 * d2) + (8 * d3) + (16 * d4) + (32 * d5) + (64 * d6) + (128 * d7)
             high == d9 + (2 * d10) + (4 * d11) + (8 * d12) + (16 * d13) + (32 * d14) + (64 * d15)
  <2>1. low \in Nat /\ low < 256 /\ high \in Nat
    BY SMT, <1>3
  <2>2. s = low + (256 * d8) + (512 * high)
    BY SMT, <1>3
  <2> HIDE DEF low, high, s
  <2>3. s \div 256 = d8 + 2 * high
    BY SMT, <1>3, <2>1, <2>2
  <2> QED  BY SMT, <1>3, <2>1, <2>3 DEF Bit
<1>19. Bit(s, 512) = d9
  <2> DEFINE low == d0 + (2 * d1) + (4 * d2) + (8 * d3) + (16 * d4) + (32 * d5) + (64 * d6) + (128 * d7) + (256 * d8)
             high == d10 + (2 * d11) + (4 * d12) + (8 * d13) + (16 * d14) + (32 * d15)
  <2>1. low \in Nat /\ low < 512 /\ high \in Nat
    BY SMT, <1>3
  <2>2. s = low + (512 * d9) + (1024 * high)
    BY SMT, <1>3
  <2> HIDE DEF low, high, s
  <2>3. s \div 512 = d9 + 2 * high
    BY SMT, <1>3, <2>1, <2>2
  <2> QED  BY SMT, <1>3, <2>1, <2>3 DEF Bit
<1>20. Bit(s, 1024) = d10
  <2> DEFINE low == d0 + (2 * d1) + (4 * d2) + (8 * d3) + (16 * d4) + (32 * d5) + (64 * d6) + (128 * d7) + (256 * d8) + (512 * d9)
             high == d11 + (2 * d12) + (4 * d13) + (8 * d14) + (16 * d15)
  <2>1. low \in Nat /\ low < 1024 /\ high \in Nat
    BY SMT, <1>3
  <2>2. s = low + (1024 * d10) + (2048 * high)
    BY SMT, <1>3
  <2> HIDE DEF low, high, s
  <2>3. s \div 1024 = d10 + 2 * high
    BY SMT, <1>3, <2>1, <2>2
  <2> QED  BY SMT, <1>3, <2>1, <2>3 DEF Bit
<1>21. Bit(s, 2048) = d11
  <2> DEFINE low == d0 + (2 * d1) + (4 * d2) + (8 * d3) + (16 * d4) + (32 * d5) + (64 * d6) + (128 * d7) + (256 * d8) + (512 * d9) + (1024 * d10)
             high == d12 + (2 * d13) + (4 * d14) + (8 * d15)
  <2>1. low \in Nat /\ low < 2048 /\ high \in Nat
    BY SMT, <1>3
  <2>2. s = low + (2048 * d11) + (4096 * high)
    BY SMT, <1>3
  <2> HIDE DEF low, high, s
  <2>3. s \div 2048 = d11 + 2 * high
    BY SMT, <1>3, <2>1, <2>2
  <2> QED  BY SMT, <1>3, <2>1, <2>3 DEF Bit
<1>22. Bit(s, 4096) = d12
  <2> DEFINE low == d0 + (2 * d1) + (4 * d2) + (8 * d3) + (16 * d4) + (32 * d5) + (64 * d6) + (128 * d7) + (256 * d8) + (512 * d9) + (1024 * d10) + (2048 * d11)
             high == d13 + (2 * d14) + (4 * d15)
  <2>1. low \in Nat /\ low < 4096 /\ high \in Nat
    BY SMT, <1>3
  <2>2. s = low + (4096 * d12) + (8192 * high)
    BY SMT, <1>3
  <2> HIDE DEF low, high, s
  <2>3. s \div 4096 = d12 + 2 * high
    BY SMT, <1>3, <2>1, <2>2
  <2> QED  BY SMT, <1>3, <2>1, <2>3 DEF Bit
<1>23. Bit(s, 8192) = d13
  <2> DEFINE low == d0 + (2 * d1) + (4 * d2) + (8 * d3) + (16 * d4) + (32 * d5) + (64 * d6) + (128 * d7) + (256 * d8) + (512 * d9) + (1024 * d10) + (2048 * d11) + (4096 * d12)
             high == d14 + (2 * d15)
  <2>1. low \in Nat /\ low < 8192 /\ high \in Nat
    BY SMT, <1>3
  <2>2. s = low + (8192 * d13) + (16384 * high)
    BY SMT, <1>3
  <2> HIDE DEF low, high, s
  <2>3. s \div 8192 = d13 + 2 * high
    BY SMT, <1>3, <2>1, <2>2
  <2> QED  BY SMT, <1>3, <2>1, <2>3 DEF Bit
<1>24. Bit(s, 16384) = d14
  <2> DEFINE low == d0 + (2 * d1) + (4 * d2) + (8 * d3) + (16 * d4) + (32 * d5) + (64 * d6) + (128 * d7) + (256 * d8) + (512 * d9) + (1024 * d10) + (2048 * d11) + (4096 * d12) + (8192 * d13)
             high == d15
  <2>1. low \in Nat /\ low < 16384 /\ high \in Nat
    BY SMT, <1>3
  <2>2. s = low + (16384 * d14) + (32768 * high)
    BY SMT, <1>3
  <2> HIDE DEF low, high, s
  <2>3. s \div 16384 = d14 + 2 * high
    BY SMT, <1>3, <2>1, <2>2
  <2> QED  BY SMT, <1>3, <2>1, <2>3 DEF Bit
<1>25. Bit(s, 32768) = d15
  <2> DEFINE low == d0 + (2 * d1) + (4 * d2) + (8 * d3) + (16 * d4) + (32 * d5) + (64 * d6) + (128 * d7) + (256 * d8) + (512 * d9) + (1024 * d10) + (2048 * d11) + (4096 * d12) + (8192 * d13) + (16384 * d14)
             high == 0
  <2>1. low \in Nat /\ low < 32768 /\ high \in Nat
    BY SMT, <1>3
  <2>2. s = low + (32768 * d15) + (65536 * high)
    BY SMT, <1>3
  <2> HIDE DEF low, high, s
  <2>3. s \div 32768 = d15 + 2 * high
    BY SMT, <1>3, <2>1, <2>2
  <2> QED  BY SMT, <1>3, <2>1, <2>3 DEF Bit
<1> HIDE DEF s
<1>30. \A b \in Bits : Bit(s, b) = (Bit(x, b) + Bit(y, b)) % 2
  BY SMT, <1>4, <1>10, <1>11, <1>12, <1>13, <1>14, <1>15, <1>16, <1>17, <1>18, <1>19, <1>20, <1>21, <1>22, <1>23, <1>24, <1>25 DEF Bits
<1> QED  BY <1>2, <1>5, <1>30

LEMMA BitType == \A x \in Nat : \A b \in Bits : Bit(x, b) \in 0 .. 1
<1> SUFFICES ASSUME NEW x \in Nat, NEW b \in Bits PROVE (x \div b) % 2 \in 0 .. 1
  BY DEF Bit
<1>1. x \div b \in Nat
  BY HalfQuotient
<1> QED  BY SMT, <1>1

LEMMA XorType ==
  ASSUME NEW x \in Nat, NEW y \in Nat
  PROVE  Xor(x, y) \in crc_state_t /\ Xor(x, y) \in Nat
BY XorBits, Registers

LEMMA XorCommutes ==
  ASSUME NEW x \in Nat, NEW y \in Nat
  PROVE  Xor(x, y) = Xor(y, x)
<1>1. ASSUME NEW b \in Bits PROVE Bit(Xor(x, y), b) = Bit(Xor(y, x), b)
  <2>1. Bit(x, b) \in 0 .. 1 /\ Bit(y, b) \in 0 .. 1
    BY BitType
  <2>2. Bit(Xor(x, y), b) = (Bit(x, b) + Bit(y, b)) % 2 /\ Bit(Xor(y, x), b) = (Bit(y, b) + Bit(x, b)) % 2
    BY XorBits
  <2>3. Bit(x, b) + Bit(y, b) = Bit(y, b) + Bit(x, b)
    BY SMT, <2>1
  <2> QED  BY Zenon, <2>2, <2>3
<1> QED  BY <1>1, SameBits, XorType

LEMMA XorAssociates ==
  ASSUME NEW x \in Nat, NEW y \in Nat, NEW z \in Nat
  PROVE  Xor(Xor(x, y), z) = Xor(x, Xor(y, z))
<1>1. Xor(x, y) \in Nat /\ Xor(y, z) \in Nat
  BY XorType
<1>2. ASSUME NEW b \in Bits PROVE Bit(Xor(Xor(x, y), z), b) = Bit(Xor(x, Xor(y, z)), b)
  <2>1. Bit(x, b) \in 0 .. 1 /\ Bit(y, b) \in 0 .. 1 /\ Bit(z, b) \in 0 .. 1
    BY BitType
  <2>2. /\ Bit(Xor(Xor(x, y), z), b) = (((Bit(x, b) + Bit(y, b)) % 2) + Bit(z, b)) % 2
        /\ Bit(Xor(x, Xor(y, z)), b) = (Bit(x, b) + ((Bit(y, b) + Bit(z, b)) % 2)) % 2
    <3>1. /\ Bit(Xor(x, y), b) = (Bit(x, b) + Bit(y, b)) % 2
          /\ Bit(Xor(y, z), b) = (Bit(y, b) + Bit(z, b)) % 2
      BY XorBits
    <3>2. /\ Bit(Xor(Xor(x, y), z), b) = (Bit(Xor(x, y), b) + Bit(z, b)) % 2
          /\ Bit(Xor(x, Xor(y, z)), b) = (Bit(x, b) + Bit(Xor(y, z), b)) % 2
      BY <1>1, XorBits
    <3> QED  BY Zenon, <3>1, <3>2
  <2>3. \A p, q, r \in 0 .. 1 : (((p + q) % 2) + r) % 2 = (p + ((q + r) % 2)) % 2
    BY SMT
  <2> QED  BY <2>1, <2>2, <2>3
<1>3. Xor(Xor(x, y), z) \in crc_state_t /\ Xor(x, Xor(y, z)) \in crc_state_t
  BY <1>1, XorType
<1> QED  BY <1>2, <1>3, SameBits

LEMMA ZeroBits == 0 \in crc_state_t /\ \A b \in Bits : Bit(0, b) = 0
<1>1. \A b \in Bits : Bit(0, b) = 0
  BY SMT DEF Bit, Bits
<1>2. 0 <= UINT16_MAX
  BY SMT DEF UINT16_MAX
<1> QED  BY SMT, <1>1, <1>2, Registers

LEMMA XorZero ==
  ASSUME NEW x \in crc_state_t
  PROVE  Xor(x, 0) = x /\ Xor(0, x) = x
<1>1. x \in Nat /\ 0 \in Nat
  BY Registers
<1>2. ASSUME NEW b \in Bits PROVE Bit(Xor(x, 0), b) = Bit(x, b)
  <2>1. Bit(x, b) \in 0 .. 1
    BY <1>1, BitType
  <2>2. Bit(Xor(x, 0), b) = (Bit(x, b) + 0) % 2
    BY <1>1, XorBits, ZeroBits
  <2>3. \A p \in 0 .. 1 : (p + 0) % 2 = p
    BY SMT
  <2> QED  BY <2>1, <2>2, <2>3
<1>3. Xor(x, 0) = x
  BY <1>1, <1>2, SameBits, XorType
<1> QED  BY <1>1, <1>3, XorCommutes

LEMMA XorSelf ==
  ASSUME NEW x \in Nat
  PROVE  Xor(x, x) = 0
<1>1. ASSUME NEW b \in Bits PROVE Bit(Xor(x, x), b) = Bit(0, b)
  <2>1. Bit(x, b) \in 0 .. 1
    BY BitType
  <2>2. Bit(Xor(x, x), b) = (Bit(x, b) + Bit(x, b)) % 2
    BY XorBits
  <2>3. \A p \in 0 .. 1 : (p + p) % 2 = 0
    BY SMT
  <2> QED  BY <2>1, <2>2, <2>3, ZeroBits
<1> QED  BY <1>1, SameBits, XorType, ZeroBits

(* Four of them, in pairs.                                                  *)
LEMMA XorPairs ==
  ASSUME NEW x \in Nat, NEW y \in Nat, NEW z \in Nat, NEW w \in Nat
  PROVE  Xor(Xor(x, y), Xor(z, w)) = Xor(Xor(x, z), Xor(y, w))
<1>1. Xor(z, w) \in Nat /\ Xor(y, w) \in Nat /\ Xor(y, z) \in Nat
  BY XorType
<1>2. Xor(Xor(x, y), Xor(z, w)) = Xor(x, Xor(y, Xor(z, w)))
  BY <1>1, XorAssociates
<1>3. Xor(y, Xor(z, w)) = Xor(Xor(y, z), w) /\ Xor(y, z) = Xor(z, y)
  BY XorAssociates, XorCommutes
<1>4. Xor(Xor(z, y), w) = Xor(z, Xor(y, w))
  BY XorAssociates
<1>5. Xor(x, Xor(z, Xor(y, w))) = Xor(Xor(x, z), Xor(y, w))
  BY <1>1, XorAssociates
<1> QED  BY Zenon, <1>2, <1>3, <1>4, <1>5

-----------------------------------------------------------------------------
(* Shifts.                                                                  *)

LEMMA BitsOfHalf ==
  ASSUME NEW x \in crc_state_t, NEW b \in Bits
  PROVE  Bit(x \div 2, b) = IF b = 32768 THEN 0 ELSE Bit(x, 2 * b)
<1>1. x \in Nat /\ x <= UINT16_MAX
  BY Registers
<1>2. CASE b = 1
  <2>1. (x \div 2) \div 1 = x \div 2
    BY SMT, <1>1
  <2> QED  BY SMT, <1>2, <2>1 DEF Bit
<1>3. CASE b = 2
  <2>1. (x \div 2) \div 2 = x \div 4
    BY SMT, <1>1
  <2> QED  BY SMT, <1>3, <2>1 DEF Bit
<1>4. CASE b = 4
  <2>1. (x \div 2) \div 4 = x \div 8
    BY SMT, <1>1
  <2> QED  BY SMT, <1>4, <2>1 DEF Bit
<1>5. CASE b = 8
  <2>1. (x \div 2) \div 8 = x \div 16
    BY SMT, <1>1
  <2> QED  BY SMT, <1>5, <2>1 DEF Bit
<1>6. CASE b = 16
  <2>1. (x \div 2) \div 16 = x \div 32
    BY SMT, <1>1
  <2> QED  BY SMT, <1>6, <2>1 DEF Bit
<1>7. CASE b = 32
  <2>1. (x \div 2) \div 32 = x \div 64
    BY SMT, <1>1
  <2> QED  BY SMT, <1>7, <2>1 DEF Bit
<1>8. CASE b = 64
  <2>1. (x \div 2) \div 64 = x \div 128
    BY SMT, <1>1
  <2> QED  BY SMT, <1>8, <2>1 DEF Bit
<1>9. CASE b = 128
  <2>1. (x \div 2) \div 128 = x \div 256
    BY SMT, <1>1
  <2> QED  BY SMT, <1>9, <2>1 DEF Bit
<1>10. CASE b = 256
  <2>1. (x \div 2) \div 256 = x \div 512
    BY SMT, <1>1
  <2> QED  BY SMT, <1>10, <2>1 DEF Bit
<1>11. CASE b = 512
  <2>1. (x \div 2) \div 512 = x \div 1024
    BY SMT, <1>1
  <2> QED  BY SMT, <1>11, <2>1 DEF Bit
<1>12. CASE b = 1024
  <2>1. (x \div 2) \div 1024 = x \div 2048
    BY SMT, <1>1
  <2> QED  BY SMT, <1>12, <2>1 DEF Bit
<1>13. CASE b = 2048
  <2>1. (x \div 2) \div 2048 = x \div 4096
    BY SMT, <1>1
  <2> QED  BY SMT, <1>13, <2>1 DEF Bit
<1>14. CASE b = 4096
  <2>1. (x \div 2) \div 4096 = x \div 8192
    BY SMT, <1>1
  <2> QED  BY SMT, <1>14, <2>1 DEF Bit
<1>15. CASE b = 8192
  <2>1. (x \div 2) \div 8192 = x \div 16384
    BY SMT, <1>1
  <2> QED  BY SMT, <1>15, <2>1 DEF Bit
<1>16. CASE b = 16384
  <2>1. (x \div 2) \div 16384 = x \div 32768
    BY SMT, <1>1
  <2> QED  BY SMT, <1>16, <2>1 DEF Bit
<1>17. CASE b = 32768
  <2>1. (x \div 2) \div 32768 = 0
    BY SMT, <1>1 DEF UINT16_MAX
  <2> QED  BY SMT, <1>17, <2>1 DEF Bit
<1> QED  BY SMT, <1>2, <1>3, <1>4, <1>5, <1>6, <1>7, <1>8, <1>9, <1>10, <1>11, <1>12, <1>13, <1>14, <1>15, <1>16, <1>17 DEF Bits

LEMMA XorHalf ==
  ASSUME NEW x \in crc_state_t, NEW y \in crc_state_t
  PROVE  /\ Xor(x, y) \div 2 = Xor(x \div 2, y \div 2)
         /\ Xor(x, y) % 2 = (x + y) % 2
<1>1. x \in Nat /\ y \in Nat /\ x \div 2 \in Nat /\ y \div 2 \in Nat
  BY SMT, Registers
<1>2. Xor(x, y) \div 2 \in crc_state_t
  <2>1. Xor(x, y) \in Nat /\ Xor(x, y) <= UINT16_MAX /\ UINT16_MAX \in Nat
    BY <1>1, Registers, XorType
  <2>2. Xor(x, y) \div 2 \in Nat /\ Xor(x, y) \div 2 <= UINT16_MAX
    BY SMT, <2>1
  <2> QED  BY <2>2, Registers
<1>6. Xor(x, y) \in crc_state_t
  BY <1>1, XorType
<1>3. ASSUME NEW b \in Bits PROVE Bit(Xor(x, y) \div 2, b) = Bit(Xor(x \div 2, y \div 2), b)
  <2>1. Bit(Xor(x \div 2, y \div 2), b) = (Bit(x \div 2, b) + Bit(y \div 2, b)) % 2
    BY <1>1, XorBits
  <2>2. CASE b = 32768
    <3>1. Bit(x \div 2, b) = 0 /\ Bit(y \div 2, b) = 0 /\ Bit(Xor(x, y) \div 2, b) = 0
      BY SMT, <2>2, <1>6, BitsOfHalf
    <3>2. (0 + 0) % 2 = 0
      BY SMT
    <3> QED  BY <2>1, <3>1, <3>2
  <2>3. CASE b # 32768
    <3>1. 2 * b \in Bits
      BY SMT, <2>3 DEF Bits
    <3>2. Bit(x \div 2, b) = Bit(x, 2 * b) /\ Bit(y \div 2, b) = Bit(y, 2 * b)
          /\ Bit(Xor(x, y) \div 2, b) = Bit(Xor(x, y), 2 * b)
      BY SMT, <2>3, <1>6, BitsOfHalf
    <3>3. Bit(Xor(x, y), 2 * b) = (Bit(x, 2 * b) + Bit(y, 2 * b)) % 2
      BY <1>1, <3>1, XorBits
    <3> QED  BY <2>1, <3>2, <3>3
  <2> QED  BY <2>2, <2>3
<1>4. Xor(x \div 2, y \div 2) \in crc_state_t
  BY <1>1, XorType
<1>5. Xor(x, y) % 2 = (x + y) % 2
  <2>1. 1 \in Bits
    BY SMT DEF Bits
  <2>2. Bit(Xor(x, y), 1) = (Bit(x, 1) + Bit(y, 1)) % 2
    BY <1>1, <2>1, XorBits
  <2>3. \A n \in Nat : n \div 1 = n
    BY SMT
  <2>4. Xor(x, y) \div 1 = Xor(x, y) /\ x \div 1 = x /\ y \div 1 = y
    BY <1>1, <2>3, XorType
  <2>5. Xor(x, y) % 2 = ((x % 2) + (y % 2)) % 2
    BY Zenon, <2>2, <2>4 DEF Bit
  <2> QED  BY <1>1, <2>5, Parity
<1> QED  BY <1>2, <1>3, <1>4, <1>5, SameBits

-----------------------------------------------------------------------------
(* Division.                                                                *)
Shifted(r) == ShiftBit(r, 0)
Two(r) == Shifted(Shifted(r))
Four(r) == Two(Two(r))
Eight(r) == Four(Four(r))

LEMMA ShiftBitCases ==
  ASSUME NEW r \in Nat, NEW bit \in 0 .. 1
  PROVE  /\ (r + bit) % 2 = 1 => ShiftBit(r, bit) = Xor(r \div 2, \h8408)
         /\ (r + bit) % 2 = 0 => ShiftBit(r, bit) = r \div 2
BY SMT DEF ShiftBit

LEMMA HalfType == \A r \in crc_state_t : r \div 2 \in crc_state_t
<1> SUFFICES ASSUME NEW r \in Nat, r <= UINT16_MAX PROVE r \div 2 \in Nat /\ r \div 2 <= UINT16_MAX
  BY SMT, Registers
<1> QED  BY SMT, Registers

LEMMA PolynomialType == \h8408 \in crc_state_t /\ \h8408 \in Nat
<1>1. \h8408 \in Nat /\ \h8408 <= UINT16_MAX
  BY SMT DEF UINT16_MAX
<1> QED  BY SMT, <1>1, Registers

LEMMA ShiftType ==
  ASSUME NEW r \in crc_state_t, NEW bit \in 0 .. 1
  PROVE  ShiftBit(r, bit) \in crc_state_t
<1> DEFINE polynomial == \h8408
<1>1. r \in Nat /\ r \div 2 \in crc_state_t /\ r \div 2 \in Nat
  BY SMT, HalfType, Registers
<1>2. Xor(r \div 2, polynomial) \in crc_state_t
  <2>1. polynomial \in Nat
    BY SMT, PolynomialType
  <2> HIDE DEF polynomial
  <2> QED  BY <1>1, <2>1, XorType
<1>3. (r + bit) % 2 \in 0 .. 1
  BY SMT, <1>1
<1>4. /\ (r + bit) % 2 = 1 => ShiftBit(r, bit) = Xor(r \div 2, polynomial)
      /\ (r + bit) % 2 = 0 => ShiftBit(r, bit) = r \div 2
  BY SMT, <1>1, ShiftBitCases
<1> HIDE DEF polynomial
<1> QED  BY SMT, <1>1, <1>2, <1>3, <1>4

(* A bit shifted in, with the bits that are to come added to the register.  *)
LEMMA OneStep ==
  ASSUME NEW r \in crc_state_t, NEW n \in crc_state_t
  PROVE  Xor(ShiftBit(r, n % 2), n \div 2) = Shifted(Xor(r, n))
<1> DEFINE polynomial == \h8408
           half == r \div 2
           rest == n \div 2
           low == n % 2
           sum == Xor(r, n)
<1>1. r \in Nat /\ n \in Nat /\ half \in Nat /\ rest \in Nat /\ low \in 0 .. 1
  BY SMT, Registers
<1>2. sum \in crc_state_t /\ sum \in Nat /\ sum % 2 = (r + n) % 2 /\ sum \div 2 = Xor(half, rest)
  BY <1>1, XorType, XorHalf
<1>3. (r + low) % 2 = (r + n) % 2 /\ (sum + 0) % 2 = (r + n) % 2 /\ (r + n) % 2 \in 0 .. 1
  <2>1. (r + low) % 2 = (r + n) % 2 /\ (r + n) % 2 \in 0 .. 1
    BY SMT, <1>1
  <2>2. sum + 0 = sum
    <3> HIDE DEF sum
    <3> QED  BY SMT, <1>2
  <2> QED  BY Zenon, <1>2, <2>1, <2>2
<1>4. /\ (r + low) % 2 = 1 => ShiftBit(r, low) = Xor(half, polynomial)
      /\ (r + low) % 2 = 0 => ShiftBit(r, low) = half
      /\ (sum + 0) % 2 = 1 => ShiftBit(sum, 0) = Xor(sum \div 2, polynomial)
      /\ (sum + 0) % 2 = 0 => ShiftBit(sum, 0) = sum \div 2
  <2>1. 0 \in 0 .. 1
    BY SMT
  <2> HIDE DEF sum, low
  <2>2. /\ (r + low) % 2 = 1 => ShiftBit(r, low) = Xor(r \div 2, polynomial)
        /\ (r + low) % 2 = 0 => ShiftBit(r, low) = r \div 2
    BY SMT, <1>1, ShiftBitCases
  <2>3. /\ (sum + 0) % 2 = 1 => ShiftBit(sum, 0) = Xor(sum \div 2, polynomial)
        /\ (sum + 0) % 2 = 0 => ShiftBit(sum, 0) = sum \div 2
    BY SMT, <1>2, <2>1, ShiftBitCases
  <2> QED  BY <2>2, <2>3
<1>5. polynomial \in Nat
  BY SMT, PolynomialType
<1> HIDE DEF polynomial, half, rest, low, sum
<1>6. CASE (r + n) % 2 = 1
  <2>1. ShiftBit(r, low) = Xor(half, polynomial) /\ ShiftBit(sum, 0) = Xor(Xor(half, rest), polynomial)
    BY SMT, <1>2, <1>3, <1>4, <1>6
  <2>2. Xor(Xor(half, polynomial), rest) = Xor(Xor(half, rest), polynomial)
    BY <1>1, <1>5, XorAssociates, XorCommutes
  <2> QED  BY <2>1, <2>2 DEF Shifted, low, rest, sum
<1>7. CASE (r + n) % 2 = 0
  <2>1. ShiftBit(r, low) = half /\ ShiftBit(sum, 0) = Xor(half, rest)
    BY SMT, <1>2, <1>3, <1>4, <1>7
  <2> QED  BY <2>1 DEF Shifted, low, rest, sum
<1> QED  BY SMT, <1>3, <1>6, <1>7

LEMMA ShiftedType == \A r \in crc_state_t : Shifted(r) \in crc_state_t
<1>1. 0 \in 0 .. 1
  BY SMT
<1> QED  BY <1>1, ShiftType DEF Shifted

(* So a byte can be added to the register before it is divided.             *)
LEMMA DivideIsEight ==
  ASSUME NEW crc \in crc_state_t, NEW byte \in 0 .. 255
  PROVE  Divide(crc, byte) = Eight(Xor(crc, byte))
<1>1. byte \in Nat /\ byte <= UINT16_MAX
  BY SMT DEF UINT16_MAX
<1> DEFINE bit(b) == (byte \div b) % 2
           r0 == crc
           r1 == ShiftBit(r0, bit(1))
           r2 == ShiftBit(r1, bit(2))
           r3 == ShiftBit(r2, bit(4))
           r4 == ShiftBit(r3, bit(8))
           r5 == ShiftBit(r4, bit(16))
           r6 == ShiftBit(r5, bit(32))
           r7 == ShiftBit(r6, bit(64))
           r8 == ShiftBit(r7, bit(128))
<1>2. Divide(crc, byte) = r8
  BY SMT DEF Divide
<1>3. \A b \in {1, 2, 4, 8, 16, 32, 64, 128} :
        /\ byte \div b \in crc_state_t /\ bit(b) \in 0 .. 1
        /\ byte \div (2 * b) = (byte \div b) \div 2
  <2> SUFFICES ASSUME NEW b \in {1, 2, 4, 8, 16, 32, 64, 128}
               PROVE  /\ byte \div b \in crc_state_t /\ bit(b) \in 0 .. 1
                      /\ byte \div (2 * b) = (byte \div b) \div 2
    OBVIOUS
  <2>1. b \in Bits
    BY SMT DEF Bits
  <2>2. byte \div b \in Nat /\ byte \div (2 * b) = (byte \div b) \div 2
    BY <1>1, <2>1, HalfQuotient
  <2>3. byte \div b <= byte
    BY SMT, <1>1
  <2>4. byte \div b <= UINT16_MAX /\ (byte \div b) % 2 \in 0 .. 1
    BY SMT, <1>1, <2>2, <2>3, Registers
  <2> QED  BY SMT, <2>2, <2>4, Registers
<1>4. byte \div 1 = byte /\ byte \div 256 = 0
  BY SMT, <1>1
<1> DEFINE s0 == Xor(crc, byte)
           s1 == Shifted(s0)
           s2 == Shifted(s1)
           s3 == Shifted(s2)
           s4 == Shifted(s3)
           s5 == Shifted(s4)
           s6 == Shifted(s5)
           s7 == Shifted(s6)
           s8 == Shifted(s7)
<1>9. r0 \in crc_state_t /\ s0 = Xor(r0, byte \div 1)
  BY SMT, <1>4
<1>10. r1 \in crc_state_t /\ s1 = Xor(r1, byte \div 2)
  <2>1. 1 \in {1, 2, 4, 8, 16, 32, 64, 128} /\ 2 * 1 = 2
    BY SMT
  <2>2. byte \div 1 \in crc_state_t /\ bit(1) \in 0 .. 1 /\ byte \div 2 = (byte \div 1) \div 2
    <3> HIDE DEF bit
    <3> QED  BY SMT, <1>3, <2>1
  <2>3. bit(1) = (byte \div 1) % 2
    OBVIOUS
  <2> HIDE DEF bit, r0, s0
  <2>4. r1 \in crc_state_t
    BY <1>9, <2>2, ShiftType
  <2>5. Xor(ShiftBit(r0, (byte \div 1) % 2), (byte \div 1) \div 2) = Shifted(Xor(r0, byte \div 1))
    BY <1>9, <2>2, OneStep
  <2> QED  BY Zenon, <1>9, <2>2, <2>3, <2>4, <2>5
<1>11. r2 \in crc_state_t /\ s2 = Xor(r2, byte \div 4)
  <2>1. 2 \in {1, 2, 4, 8, 16, 32, 64, 128} /\ 2 * 2 = 4
    BY SMT
  <2>2. byte \div 2 \in crc_state_t /\ bit(2) \in 0 .. 1 /\ byte \div 4 = (byte \div 2) \div 2
    <3> HIDE DEF bit
    <3> QED  BY SMT, <1>3, <2>1
  <2>3. bit(2) = (byte \div 2) % 2
    OBVIOUS
  <2> HIDE DEF bit, r1, s1
  <2>4. r2 \in crc_state_t
    BY <1>10, <2>2, ShiftType
  <2>5. Xor(ShiftBit(r1, (byte \div 2) % 2), (byte \div 2) \div 2) = Shifted(Xor(r1, byte \div 2))
    BY <1>10, <2>2, OneStep
  <2> QED  BY Zenon, <1>10, <2>2, <2>3, <2>4, <2>5
<1>12. r3 \in crc_state_t /\ s3 = Xor(r3, byte \div 8)
  <2>1. 4 \in {1, 2, 4, 8, 16, 32, 64, 128} /\ 2 * 4 = 8
    BY SMT
  <2>2. byte \div 4 \in crc_state_t /\ bit(4) \in 0 .. 1 /\ byte \div 8 = (byte \div 4) \div 2
    <3> HIDE DEF bit
    <3> QED  BY SMT, <1>3, <2>1
  <2>3. bit(4) = (byte \div 4) % 2
    OBVIOUS
  <2> HIDE DEF bit, r2, s2
  <2>4. r3 \in crc_state_t
    BY <1>11, <2>2, ShiftType
  <2>5. Xor(ShiftBit(r2, (byte \div 4) % 2), (byte \div 4) \div 2) = Shifted(Xor(r2, byte \div 4))
    BY <1>11, <2>2, OneStep
  <2> QED  BY Zenon, <1>11, <2>2, <2>3, <2>4, <2>5
<1>13. r4 \in crc_state_t /\ s4 = Xor(r4, byte \div 16)
  <2>1. 8 \in {1, 2, 4, 8, 16, 32, 64, 128} /\ 2 * 8 = 16
    BY SMT
  <2>2. byte \div 8 \in crc_state_t /\ bit(8) \in 0 .. 1 /\ byte \div 16 = (byte \div 8) \div 2
    <3> HIDE DEF bit
    <3> QED  BY SMT, <1>3, <2>1
  <2>3. bit(8) = (byte \div 8) % 2
    OBVIOUS
  <2> HIDE DEF bit, r3, s3
  <2>4. r4 \in crc_state_t
    BY <1>12, <2>2, ShiftType
  <2>5. Xor(ShiftBit(r3, (byte \div 8) % 2), (byte \div 8) \div 2) = Shifted(Xor(r3, byte \div 8))
    BY <1>12, <2>2, OneStep
  <2> QED  BY Zenon, <1>12, <2>2, <2>3, <2>4, <2>5
<1>14. r5 \in crc_state_t /\ s5 = Xor(r5, byte \div 32)
  <2>1. 16 \in {1, 2, 4, 8, 16, 32, 64, 128} /\ 2 * 16 = 32
    BY SMT
  <2>2. byte \div 16 \in crc_state_t /\ bit(16) \in 0 .. 1 /\ byte \div 32 = (byte \div 16) \div 2
    <3> HIDE DEF bit
    <3> QED  BY SMT, <1>3, <2>1
  <2>3. bit(16) = (byte \div 16) % 2
    OBVIOUS
  <2> HIDE DEF bit, r4, s4
  <2>4. r5 \in crc_state_t
    BY <1>13, <2>2, ShiftType
  <2>5. Xor(ShiftBit(r4, (byte \div 16) % 2), (byte \div 16) \div 2) = Shifted(Xor(r4, byte \div 16))
    BY <1>13, <2>2, OneStep
  <2> QED  BY Zenon, <1>13, <2>2, <2>3, <2>4, <2>5
<1>15. r6 \in crc_state_t /\ s6 = Xor(r6, byte \div 64)
  <2>1. 32 \in {1, 2, 4, 8, 16, 32, 64, 128} /\ 2 * 32 = 64
    BY SMT
  <2>2. byte \div 32 \in crc_state_t /\ bit(32) \in 0 .. 1 /\ byte \div 64 = (byte \div 32) \div 2
    <3> HIDE DEF bit
    <3> QED  BY SMT, <1>3, <2>1
  <2>3. bit(32) = (byte \div 32) % 2
    OBVIOUS
  <2> HIDE DEF bit, r5, s5
  <2>4. r6 \in crc_state_t
    BY <1>14, <2>2, ShiftType
  <2>5. Xor(ShiftBit(r5, (byte \div 32) % 2), (byte \div 32) \div 2) = Shifted(Xor(r5, byte \div 32))
    BY <1>14, <2>2, OneStep
  <2> QED  BY Zenon, <1>14, <2>2, <2>3, <2>4, <2>5
<1>16. r7 \in crc_state_t /\ s7 = Xor(r7, byte \div 128)
  <2>1. 64 \in {1, 2, 4, 8, 16, 32, 64, 128} /\ 2 * 64 = 128
    BY SMT
  <2>2. byte \div 64 \in crc_state_t /\ bit(64) \in 0 .. 1 /\ byte \div 128 = (byte \div 64) \div 2
    <3> HIDE DEF bit
    <3> QED  BY SMT, <1>3, <2>1
  <2>3. bit(64) = (byte \div 64) % 2
    OBVIOUS
  <2> HIDE DEF bit, r6, s6
  <2>4. r7 \in crc_state_t
    BY <1>15, <2>2, ShiftType
  <2>5. Xor(ShiftBit(r6, (byte \div 64) % 2), (byte \div 64) \div 2) = Shifted(Xor(r6, byte \div 64))
    BY <1>15, <2>2, OneStep
  <2> QED  BY Zenon, <1>15, <2>2, <2>3, <2>4, <2>5
<1>17. r8 \in crc_state_t /\ s8 = Xor(r8, byte \div 256)
  <2>1. 128 \in {1, 2, 4, 8, 16, 32, 64, 128} /\ 2 * 128 = 256
    BY SMT
  <2>2. byte \div 128 \in crc_state_t /\ bit(128) \in 0 .. 1 /\ byte \div 256 = (byte \div 128) \div 2
    <3> HIDE DEF bit
    <3> QED  BY SMT, <1>3, <2>1
  <2>3. bit(128) = (byte \div 128) % 2
    OBVIOUS
  <2> HIDE DEF bit, r7, s7
  <2>4. r8 \in crc_state_t
    BY <1>16, <2>2, ShiftType
  <2>5. Xor(ShiftBit(r7, (byte \div 128) % 2), (byte \div 128) \div 2) = Shifted(Xor(r7, byte \div 128))
    BY <1>16, <2>2, OneStep
  <2> QED  BY Zenon, <1>16, <2>2, <2>3, <2>4, <2>5
<1>20. s8 = Eight(Xor(crc, byte))
  BY Zenon DEF Eight, Four, Two
<1> HIDE DEF r8, s8
<1>21. s8 = r8
  BY <1>4, <1>17, XorZero
<1> QED  BY Zenon, <1>2, <1>20, <1>21

LEMMA ShiftedCases ==
  ASSUME NEW r \in crc_state_t
  PROVE  /\ r % 2 = 1 => Shifted(r) = Xor(r \div 2, \h8408)
         /\ r % 2 = 0 => Shifted(r) = r \div 2
         /\ r % 2 \in 0 .. 1
<1>1. r \in Nat /\ r + 0 = r /\ r % 2 \in 0 .. 1
  BY SMT, Registers
<1>2. 0 \in 0 .. 1
  BY SMT
<1> QED  BY SMT, <1>1, <1>2, ShiftBitCases DEF Shifted

(* A shift of the register is linear, so eight of them are ...              *)
LEMMA ShiftLinear ==
  ASSUME NEW x \in crc_state_t, NEW y \in crc_state_t
  PROVE  Shifted(Xor(x, y)) = Xor(Shifted(x), Shifted(y))
<1> DEFINE polynomial == \h8408
           a == x \div 2
           b == y \div 2
           p == x % 2
           q == y % 2
           s == Xor(x, y)
<1>1. x \in Nat /\ y \in Nat /\ a \in Nat /\ b \in Nat /\ p \in 0 .. 1 /\ q \in 0 .. 1
  BY SMT, Registers
<1>2. s \in crc_state_t /\ s \div 2 = Xor(a, b) /\ s % 2 = (p + q) % 2
  <2>1. s \in crc_state_t
    BY <1>1, XorType
  <2>2. s \div 2 = Xor(a, b) /\ s % 2 = (x + y) % 2
    BY XorHalf
  <2>3. (x + y) % 2 = (p + q) % 2
    BY <1>1, Parity
  <2> QED  BY <2>1, <2>2, <2>3
<1>3. polynomial \in Nat /\ Xor(a, polynomial) \in Nat /\ Xor(a, b) \in crc_state_t /\ Xor(a, b) \in Nat
  <2>1. polynomial \in Nat
    BY SMT, PolynomialType
  <2> HIDE DEF polynomial, a, b
  <2> QED  BY <1>1, <2>1, XorType
<1>4. /\ p = 1 => Shifted(x) = Xor(a, polynomial)
      /\ p = 0 => Shifted(x) = a
  BY SMT, ShiftedCases
<1>5. /\ q = 1 => Shifted(y) = Xor(b, polynomial)
      /\ q = 0 => Shifted(y) = b
  BY SMT, ShiftedCases
<1>6. /\ s % 2 = 1 => Shifted(s) = Xor(s \div 2, polynomial)
      /\ s % 2 = 0 => Shifted(s) = s \div 2
  <2> HIDE DEF s
  <2> QED  BY SMT, <1>2, ShiftedCases
<1>7. /\ (0 + 0) % 2 = 0 /\ (0 + 1) % 2 = 1 /\ (1 + 0) % 2 = 1 /\ (1 + 1) % 2 = 0
  BY SMT
<1> HIDE DEF polynomial, a, b, p, q, s
<1>8. CASE p = 0 /\ q = 0
  BY SMT, <1>2, <1>4, <1>5, <1>6, <1>7, <1>8 DEF s
<1>9. CASE p = 1 /\ q = 0
  <2>1. Shifted(s) = Xor(Xor(a, b), polynomial) /\ Shifted(x) = Xor(a, polynomial) /\ Shifted(y) = b
    BY SMT, <1>2, <1>4, <1>5, <1>6, <1>7, <1>9
  <2>2. Xor(Xor(a, polynomial), b) = Xor(Xor(a, b), polynomial)
    BY <1>1, <1>3, XorAssociates, XorCommutes
  <2> QED  BY <2>1, <2>2 DEF s
<1>10. CASE p = 0 /\ q = 1
  <2>1. Shifted(s) = Xor(Xor(a, b), polynomial) /\ Shifted(x) = a /\ Shifted(y) = Xor(b, polynomial)
    BY SMT, <1>2, <1>4, <1>5, <1>6, <1>7, <1>10
  <2>2. Xor(Xor(a, b), polynomial) = Xor(a, Xor(b, polynomial))
    BY <1>1, <1>3, XorAssociates
  <2> QED  BY <2>1, <2>2 DEF s
<1>11. CASE p = 1 /\ q = 1
  <2>1. Shifted(s) = Xor(a, b) /\ Shifted(x) = Xor(a, polynomial) /\ Shifted(y) = Xor(b, polynomial)
    BY SMT, <1>2, <1>4, <1>5, <1>6, <1>7, <1>11
  <2>2. Xor(Xor(a, polynomial), Xor(b, polynomial)) = Xor(Xor(a, b), Xor(polynomial, polynomial))
    BY <1>1, <1>3, XorPairs
  <2>3. Xor(polynomial, polynomial) = 0 /\ Xor(Xor(a, b), 0) = Xor(a, b)
    BY <1>3, XorSelf, XorZero
  <2> QED  BY <2>1, <2>2, <2>3 DEF s
<1> QED  BY <1>1, <1>8, <1>9, <1>10, <1>11

LEMMA EightLinear ==
  ASSUME NEW x \in crc_state_t, NEW y \in crc_state_t
  PROVE  Eight(Xor(x, y)) = Xor(Eight(x), Eight(y)) /\ Eight(x) \in crc_state_t
<1> DEFINE x0 == x
           y0 == y
           s0 == Xor(x, y)
           x1 == Shifted(x0)
           x2 == Shifted(x1)
           x3 == Shifted(x2)
           x4 == Shifted(x3)
           x5 == Shifted(x4)
           x6 == Shifted(x5)
           x7 == Shifted(x6)
           x8 == Shifted(x7)
           y1 == Shifted(y0)
           y2 == Shifted(y1)
           y3 == Shifted(y2)
           y4 == Shifted(y3)
           y5 == Shifted(y4)
           y6 == Shifted(y5)
           y7 == Shifted(y6)
           y8 == Shifted(y7)
           s1 == Shifted(s0)
           s2 == Shifted(s1)
           s3 == Shifted(s2)
           s4 == Shifted(s3)
           s5 == Shifted(s4)
           s6 == Shifted(s5)
           s7 == Shifted(s6)
           s8 == Shifted(s7)
<1>1. x0 \in crc_state_t /\ y0 \in crc_state_t /\ s0 = Xor(x0, y0)
  OBVIOUS
<1>2. x1 \in crc_state_t /\ y1 \in crc_state_t /\ s1 = Xor(x1, y1)
  <2> HIDE DEF x0, y0, s0
  <2> QED  BY <1>1, ShiftLinear, ShiftedType
<1>3. x2 \in crc_state_t /\ y2 \in crc_state_t /\ s2 = Xor(x2, y2)
  <2> HIDE DEF x1, y1, s1
  <2> QED  BY <1>2, ShiftLinear, ShiftedType
<1>4. x3 \in crc_state_t /\ y3 \in crc_state_t /\ s3 = Xor(x3, y3)
  <2> HIDE DEF x2, y2, s2
  <2> QED  BY <1>3, ShiftLinear, ShiftedType
<1>5. x4 \in crc_state_t /\ y4 \in crc_state_t /\ s4 = Xor(x4, y4)
  <2> HIDE DEF x3, y3, s3
  <2> QED  BY <1>4, ShiftLinear, ShiftedType
<1>6. x5 \in crc_state_t /\ y5 \in crc_state_t /\ s5 = Xor(x5, y5)
  <2> HIDE DEF x4, y4, s4
  <2> QED  BY <1>5, ShiftLinear, ShiftedType
<1>7. x6 \in crc_state_t /\ y6 \in crc_state_t /\ s6 = Xor(x6, y6)
  <2> HIDE DEF x5, y5, s5
  <2> QED  BY <1>6, ShiftLinear, ShiftedType
<1>8. x7 \in crc_state_t /\ y7 \in crc_state_t /\ s7 = Xor(x7, y7)
  <2> HIDE DEF x6, y6, s6
  <2> QED  BY <1>7, ShiftLinear, ShiftedType
<1>9. x8 \in crc_state_t /\ y8 \in crc_state_t /\ s8 = Xor(x8, y8)
  <2> HIDE DEF x7, y7, s7
  <2> QED  BY <1>8, ShiftLinear, ShiftedType
<1>10. x8 = Eight(x) /\ y8 = Eight(y) /\ s8 = Eight(Xor(x, y))
  BY Zenon DEF Eight, Four, Two
<1> HIDE DEF x8, y8, s8
<1> QED  BY <1>9, <1>10

LEMMA ShiftedOfEven ==
  ASSUME NEW m \in Nat, 2 * m \in crc_state_t
  PROVE  Shifted(2 * m) = m
<1>1. (2 * m) % 2 = 0 /\ (2 * m) \div 2 = m
  BY SMT
<1> DEFINE r == 2 * m
<1>2. r \in crc_state_t /\ r % 2 = 0 /\ r \div 2 = m
  BY <1>1
<1> HIDE DEF r
<1>3. Shifted(r) = m
  BY SMT, <1>2, ShiftedCases
<1> QED  BY <1>3 DEF r

(* ... and they do nothing to a high byte but bring it down.                *)
LEMMA EightOfHigh ==
  ASSUME NEW h \in Nat, h <= 255
  PROVE  Eight(256 * h) = h /\ 256 * h \in crc_state_t
<1>0. ASSUME NEW m \in Nat, m <= 256 * h PROVE m \in crc_state_t
  <2>1. m <= UINT16_MAX
    BY SMT, <1>0 DEF UINT16_MAX
  <2> QED  BY <2>1, Registers
<1>1. Shifted(256 * h) = 128 * h
  <2>1. 128 * h \in Nat /\ 256 * h = 2 * (128 * h) /\ 256 * h \in Nat /\ 256 * h <= 256 * h
    BY SMT
  <2>2. 2 * (128 * h) \in crc_state_t
    BY SMT, <1>0, <2>1
  <2> QED  BY SMT, <2>1, <2>2, ShiftedOfEven
<1>2. Shifted(128 * h) = 64 * h
  <2>1. 64 * h \in Nat /\ 128 * h = 2 * (64 * h) /\ 128 * h \in Nat /\ 128 * h <= 256 * h
    BY SMT
  <2>2. 2 * (64 * h) \in crc_state_t
    BY SMT, <1>0, <2>1
  <2> QED  BY SMT, <2>1, <2>2, ShiftedOfEven
<1>3. Shifted(64 * h) = 32 * h
  <2>1. 32 * h \in Nat /\ 64 * h = 2 * (32 * h) /\ 64 * h \in Nat /\ 64 * h <= 256 * h
    BY SMT
  <2>2. 2 * (32 * h) \in crc_state_t
    BY SMT, <1>0, <2>1
  <2> QED  BY SMT, <2>1, <2>2, ShiftedOfEven
<1>4. Shifted(32 * h) = 16 * h
  <2>1. 16 * h \in Nat /\ 32 * h = 2 * (16 * h) /\ 32 * h \in Nat /\ 32 * h <= 256 * h
    BY SMT
  <2>2. 2 * (16 * h) \in crc_state_t
    BY SMT, <1>0, <2>1
  <2> QED  BY SMT, <2>1, <2>2, ShiftedOfEven
<1>5. Shifted(16 * h) = 8 * h
  <2>1. 8 * h \in Nat /\ 16 * h = 2 * (8 * h) /\ 16 * h \in Nat /\ 16 * h <= 256 * h
    BY SMT
  <2>2. 2 * (8 * h) \in crc_state_t
    BY SMT, <1>0, <2>1
  <2> QED  BY SMT, <2>1, <2>2, ShiftedOfEven
<1>6. Shifted(8 * h) = 4 * h
  <2>1. 4 * h \in Nat /\ 8 * h = 2 * (4 * h) /\ 8 * h \in Nat /\ 8 * h <= 256 * h
    BY SMT
  <2>2. 2 * (4 * h) \in crc_state_t
    BY SMT, <1>0, <2>1
  <2> QED  BY SMT, <2>1, <2>2, ShiftedOfEven
<1>7. Shifted(4 * h) = 2 * h
  <2>1. 2 * h \in Nat /\ 4 * h = 2 * (2 * h) /\ 4 * h \in Nat /\ 4 * h <= 256 * h
    BY SMT
  <2>2. 2 * (2 * h) \in crc_state_t
    BY SMT, <1>0, <2>1
  <2> QED  BY SMT, <2>1, <2>2, ShiftedOfEven
<1>8. Shifted(2 * h) = 1 * h
  <2>1. 1 * h \in Nat /\ 2 * h = 2 * (1 * h) /\ 2 * h \in Nat /\ 2 * h <= 256 * h
    BY SMT
  <2>2. 2 * (1 * h) \in crc_state_t
    BY SMT, <1>0, <2>1
  <2> QED  BY SMT, <2>1, <2>2, ShiftedOfEven
<1>9. 1 * h = h /\ 256 * h \in crc_state_t
  BY SMT, <1>0
<1> QED  BY SMT, <1>1, <1>2, <1>3, <1>4, <1>5, <1>6, <1>7, <1>8, <1>9 DEF Eight, Four, Two

-----------------------------------------------------------------------------
(* The table.                                                               *)

(* The division of the highest bit of a byte, and then of the others.       *)
LEMMA PowersDivided ==
  /\ Eight(1) = 4489
  /\ Eight(2) = 8978
  /\ Eight(4) = 17956
  /\ Eight(8) = 35912
  /\ Eight(16) = 4225
  /\ Eight(32) = 8450
  /\ Eight(64) = 16900
  /\ Eight(128) = 33800
<1>1. Shifted(1) = 33800
  <2>1. Shifted(1) = Xor(0, 33800)
    BY SMT DEF Shifted, ShiftBit
  <2>2. Xor(0, 33800) = 33800
    BY SMT DEF Xor
  <2> QED  BY SMT, <2>1, <2>2
<1>2. Shifted(33800) = 16900
  BY SMT DEF Shifted, ShiftBit
<1>3. Shifted(16900) = 8450
  BY SMT DEF Shifted, ShiftBit
<1>4. Shifted(8450) = 4225
  BY SMT DEF Shifted, ShiftBit
<1>5. Shifted(4225) = 35912
  <2>1. Shifted(4225) = Xor(2112, 33800)
    BY SMT DEF Shifted, ShiftBit
  <2>2. Xor(2112, 33800) = 35912
    BY SMT DEF Xor
  <2> QED  BY SMT, <2>1, <2>2
<1>6. Shifted(35912) = 17956
  BY SMT DEF Shifted, ShiftBit
<1>7. Shifted(17956) = 8978
  BY SMT DEF Shifted, ShiftBit
<1>8. Shifted(8978) = 4489
  BY SMT DEF Shifted, ShiftBit
<1>9. Shifted(128) = 64
  BY SMT DEF Shifted, ShiftBit
<1>10. Shifted(64) = 32
  BY SMT DEF Shifted, ShiftBit
<1>11. Shifted(32) = 16
  BY SMT DEF Shifted, ShiftBit
<1>12. Shifted(16) = 8
  BY SMT DEF Shifted, ShiftBit
<1>13. Shifted(8) = 4
  BY SMT DEF Shifted, ShiftBit
<1>14. Shifted(4) = 2
  BY SMT DEF Shifted, ShiftBit
<1>15. Shifted(2) = 1
  BY SMT DEF Shifted, ShiftBit
<1>16. Two(128) = 32 /\ Two(64) = 16 /\ Two(32) = 8 /\ Two(16) = 4 /\ Two(8) = 2 /\ Two(4) = 1 /\ Two(2) = 33800 /\ Two(1) = 16900 /\ Two(33800) = 8450 /\ Two(16900) = 4225 /\ Two(8450) = 35912 /\ Two(4225) = 17956 /\ Two(35912) = 8978 /\ Two(17956) = 4489
  BY SMT, <1>1, <1>2, <1>3, <1>4, <1>5, <1>6, <1>7, <1>8, <1>9, <1>10, <1>11, <1>12, <1>13, <1>14, <1>15 DEF Two
<1>17. Four(128) = 8 /\ Four(64) = 4 /\ Four(32) = 2 /\ Four(16) = 1 /\ Four(8) = 33800 /\ Four(4) = 16900 /\ Four(2) = 8450 /\ Four(1) = 4225 /\ Four(33800) = 35912 /\ Four(16900) = 17956 /\ Four(8450) = 8978 /\ Four(4225) = 4489
  BY SMT, <1>16 DEF Four
<1> QED  BY SMT, <1>17 DEF Eight

LEMMA TableEntries ==
  \A i \in 0 .. 255 : LT_CRC_LUT[i + 1] \in Nat
BY SMT DEF LT_CRC_LUT

(* What the table has for a power of two, and that it is linear.            *)
LEMMA TableOfPowers ==
  /\ LT_CRC_LUT[1] = 0
  /\ LT_CRC_LUT[2] = 4489
  /\ LT_CRC_LUT[3] = 8978
  /\ LT_CRC_LUT[5] = 17956
  /\ LT_CRC_LUT[9] = 35912
  /\ LT_CRC_LUT[17] = 4225
  /\ LT_CRC_LUT[33] = 8450
  /\ LT_CRC_LUT[65] = 16900
  /\ LT_CRC_LUT[129] = 33800
BY SMT DEF LT_CRC_LUT

LEMMA TableLinear ==
  \A b \in {1, 2, 4, 8, 16, 32, 64, 128} : \A rest \in 0 .. b - 1 :
    /\ LT_CRC_LUT[b + rest + 1] = Xor(LT_CRC_LUT[b + 1], LT_CRC_LUT[rest + 1])
    /\ Xor(b, rest) = b + rest
<1>1. \A rest \in 0 .. 0 : LT_CRC_LUT[1 + rest + 1] = Xor(LT_CRC_LUT[2], LT_CRC_LUT[rest + 1])
  BY SMTT(120) DEF LT_CRC_LUT, Xor
<1>11. \A rest \in 0 .. 0 : Xor(1, rest) = 1 + rest
  BY SMTT(60) DEF Xor
<1>2. \A rest \in 0 .. 1 : LT_CRC_LUT[2 + rest + 1] = Xor(LT_CRC_LUT[3], LT_CRC_LUT[rest + 1])
  BY SMTT(120) DEF LT_CRC_LUT, Xor
<1>12. \A rest \in 0 .. 1 : Xor(2, rest) = 2 + rest
  BY SMTT(60) DEF Xor
<1>3. \A rest \in 0 .. 3 : LT_CRC_LUT[4 + rest + 1] = Xor(LT_CRC_LUT[5], LT_CRC_LUT[rest + 1])
  BY SMTT(120) DEF LT_CRC_LUT, Xor
<1>13. \A rest \in 0 .. 3 : Xor(4, rest) = 4 + rest
  BY SMTT(60) DEF Xor
<1>4. \A rest \in 0 .. 7 : LT_CRC_LUT[8 + rest + 1] = Xor(LT_CRC_LUT[9], LT_CRC_LUT[rest + 1])
  BY SMTT(120) DEF LT_CRC_LUT, Xor
<1>14. \A rest \in 0 .. 7 : Xor(8, rest) = 8 + rest
  BY SMTT(60) DEF Xor
<1>5. \A rest \in 0 .. 15 : LT_CRC_LUT[16 + rest + 1] = Xor(LT_CRC_LUT[17], LT_CRC_LUT[rest + 1])
  BY SMTT(120) DEF LT_CRC_LUT, Xor
<1>15. \A rest \in 0 .. 15 : Xor(16, rest) = 16 + rest
  BY SMTT(60) DEF Xor
<1>6. \A rest \in 0 .. 31 : LT_CRC_LUT[32 + rest + 1] = Xor(LT_CRC_LUT[33], LT_CRC_LUT[rest + 1])
  BY SMTT(120) DEF LT_CRC_LUT, Xor
<1>16. \A rest \in 0 .. 31 : Xor(32, rest) = 32 + rest
  BY SMTT(60) DEF Xor
<1>7. \A rest \in 0 .. 63 : LT_CRC_LUT[64 + rest + 1] = Xor(LT_CRC_LUT[65], LT_CRC_LUT[rest + 1])
  BY SMTT(120) DEF LT_CRC_LUT, Xor
<1>17. \A rest \in 0 .. 63 : Xor(64, rest) = 64 + rest
  BY SMTT(60) DEF Xor
<1>8. \A rest \in 0 .. 127 : LT_CRC_LUT[128 + rest + 1] = Xor(LT_CRC_LUT[129], LT_CRC_LUT[rest + 1])
  BY SMTT(120) DEF LT_CRC_LUT, Xor
<1>18. \A rest \in 0 .. 127 : Xor(128, rest) = 128 + rest
  BY SMTT(60) DEF Xor
<1> QED  BY SMT, <1>1, <1>11, <1>2, <1>12, <1>3, <1>13, <1>4, <1>14, <1>5, <1>15, <1>6, <1>16, <1>7, <1>17, <1>8, <1>18

LEMMA BytesAreRegisters == \A i : i \in 0 .. 255 => i \in Nat /\ i \in crc_state_t
<1>1. 255 <= UINT16_MAX
  BY SMT DEF UINT16_MAX
<1> QED  BY SMT, <1>1, Registers

LEMMA EightOfZero == Eight(0) = 0
<1>1. 0 \in Nat /\ 0 <= 255
  BY SMT
<1>2. Eight(256 * 0) = 0
  BY SMT, <1>1, EightOfHigh
<1>3. 256 * 0 = 0
  BY SMT
<1> QED  BY Zenon, <1>2, <1>3

TableUpTo(b) == \A i \in 0 .. b - 1 : LT_CRC_LUT[i + 1] = Eight(i)

(* The entries up to twice a power of two.                                  *)
LEMMA TableDoubles ==
  ASSUME NEW b \in {1, 2, 4, 8, 16, 32, 64, 128}, TableUpTo(b),
         LT_CRC_LUT[b + 1] = Eight(b)
  PROVE  TableUpTo(2 * b)
<1> SUFFICES ASSUME NEW i \in 0 .. 2 * b - 1, ~(i \in 0 .. b - 1)
             PROVE  LT_CRC_LUT[i + 1] = Eight(i)
  BY DEF TableUpTo
<1> DEFINE rest == i - b
<1>1. rest \in 0 .. b - 1 /\ i = b + rest /\ rest \in 0 .. 255 /\ b \in 0 .. 255 /\ i + 1 = b + rest + 1
  BY SMT
<1> HIDE DEF rest
<1>2. LT_CRC_LUT[b + rest + 1] = Xor(LT_CRC_LUT[b + 1], LT_CRC_LUT[rest + 1]) /\ Xor(b, rest) = b + rest
  BY <1>1, TableLinear
<1>3. LT_CRC_LUT[rest + 1] = Eight(rest)
  BY <1>1 DEF TableUpTo
<1>4. Eight(Xor(b, rest)) = Xor(Eight(b), Eight(rest))
  BY <1>1, BytesAreRegisters, EightLinear
<1> QED  BY Zenon, <1>1, <1>2, <1>3, <1>4

(* Each entry of the table is what the division makes of its index.         *)
LEMMA TableDivides == \A i \in 0 .. 255 : LT_CRC_LUT[i + 1] = Eight(i)
<1>0. TableUpTo(1)
  <2>1. \A i \in 0 .. 1 - 1 : i = 0
    BY SMT
  <2>2. 0 + 1 = 1
    BY SMT
  <2> QED  BY <2>1, <2>2, EightOfZero, TableOfPowers DEF TableUpTo
<1>1. TableUpTo(2)
  <2>1. 1 \in {1, 2, 4, 8, 16, 32, 64, 128} /\ 2 * 1 = 2 /\ 1 + 1 = 2
    BY SMT
  <2>2. LT_CRC_LUT[2] = Eight(1)
    BY SMT, PowersDivided, TableOfPowers
  <2>3. TableUpTo(2 * 1)
    BY SMT, <1>0, <2>1, <2>2, TableDoubles
  <2> QED  BY SMT, <2>1, <2>3
<1>2. TableUpTo(4)
  <2>1. 2 \in {1, 2, 4, 8, 16, 32, 64, 128} /\ 2 * 2 = 4 /\ 2 + 1 = 3
    BY SMT
  <2>2. LT_CRC_LUT[3] = Eight(2)
    BY SMT, PowersDivided, TableOfPowers
  <2>3. TableUpTo(2 * 2)
    BY SMT, <1>1, <2>1, <2>2, TableDoubles
  <2> QED  BY SMT, <2>1, <2>3
<1>3. TableUpTo(8)
  <2>1. 4 \in {1, 2, 4, 8, 16, 32, 64, 128} /\ 2 * 4 = 8 /\ 4 + 1 = 5
    BY SMT
  <2>2. LT_CRC_LUT[5] = Eight(4)
    BY SMT, PowersDivided, TableOfPowers
  <2>3. TableUpTo(2 * 4)
    BY SMT, <1>2, <2>1, <2>2, TableDoubles
  <2> QED  BY SMT, <2>1, <2>3
<1>4. TableUpTo(16)
  <2>1. 8 \in {1, 2, 4, 8, 16, 32, 64, 128} /\ 2 * 8 = 16 /\ 8 + 1 = 9
    BY SMT
  <2>2. LT_CRC_LUT[9] = Eight(8)
    BY SMT, PowersDivided, TableOfPowers
  <2>3. TableUpTo(2 * 8)
    BY SMT, <1>3, <2>1, <2>2, TableDoubles
  <2> QED  BY SMT, <2>1, <2>3
<1>5. TableUpTo(32)
  <2>1. 16 \in {1, 2, 4, 8, 16, 32, 64, 128} /\ 2 * 16 = 32 /\ 16 + 1 = 17
    BY SMT
  <2>2. LT_CRC_LUT[17] = Eight(16)
    BY SMT, PowersDivided, TableOfPowers
  <2>3. TableUpTo(2 * 16)
    BY SMT, <1>4, <2>1, <2>2, TableDoubles
  <2> QED  BY SMT, <2>1, <2>3
<1>6. TableUpTo(64)
  <2>1. 32 \in {1, 2, 4, 8, 16, 32, 64, 128} /\ 2 * 32 = 64 /\ 32 + 1 = 33
    BY SMT
  <2>2. LT_CRC_LUT[33] = Eight(32)
    BY SMT, PowersDivided, TableOfPowers
  <2>3. TableUpTo(2 * 32)
    BY SMT, <1>5, <2>1, <2>2, TableDoubles
  <2> QED  BY SMT, <2>1, <2>3
<1>7. TableUpTo(128)
  <2>1. 64 \in {1, 2, 4, 8, 16, 32, 64, 128} /\ 2 * 64 = 128 /\ 64 + 1 = 65
    BY SMT
  <2>2. LT_CRC_LUT[65] = Eight(64)
    BY SMT, PowersDivided, TableOfPowers
  <2>3. TableUpTo(2 * 64)
    BY SMT, <1>6, <2>1, <2>2, TableDoubles
  <2> QED  BY SMT, <2>1, <2>3
<1>8. TableUpTo(256)
  <2>1. 128 \in {1, 2, 4, 8, 16, 32, 64, 128} /\ 2 * 128 = 256 /\ 128 + 1 = 129
    BY SMT
  <2>2. LT_CRC_LUT[129] = Eight(128)
    BY SMT, PowersDivided, TableOfPowers
  <2>3. TableUpTo(2 * 128)
    BY SMT, <1>7, <2>1, <2>2, TableDoubles
  <2> QED  BY SMT, <2>1, <2>3
<1> QED  BY SMT, <1>8 DEF TableUpTo

-----------------------------------------------------------------------------
(* Bytes of the register.                                                   *)

LEMMA SplitRegister ==
  ASSUME NEW c \in crc_state_t
  PROVE  /\ c % 256 \in 0 .. 255 /\ c \div 256 \in 0 .. 255
         /\ c = Xor(256 * (c \div 256), c % 256)
<1> DEFINE h == c \div 256
           l == c % 256
           high == 256 * h
<1>1. c \in Nat /\ c <= UINT16_MAX
  BY Registers
<1>2. l \in Nat /\ l <= 255 /\ h \in Nat /\ h <= 255 /\ c = (256 * h) + l /\ high \in Nat /\ high = 256 * h
  BY SMT, <1>1 DEF UINT16_MAX
<1> HIDE DEF h, l, high
<1>3. ASSUME NEW b \in Bits PROVE Bit(c, b) = (Bit(high, b) + Bit(l, b)) % 2
  <2>1. CASE b = 1
    <3>1. c \div 1 = (256 * h) + (l \div 1) /\ high \div 1 = 256 * h /\ l \div 1 \in Nat
      BY SMT, <1>2
    <3>2. (256 * h) % 2 = 0 /\ ((256 * h) + (l \div 1)) % 2 = (0 + ((l \div 1) % 2)) % 2
      BY SMT, <1>2, <3>1
    <3> QED  BY SMT, <2>1, <3>1, <3>2 DEF Bit
  <2>2. CASE b = 2
    <3>1. c \div 2 = (128 * h) + (l \div 2) /\ high \div 2 = 128 * h /\ l \div 2 \in Nat
      BY SMT, <1>2
    <3>2. (128 * h) % 2 = 0 /\ ((128 * h) + (l \div 2)) % 2 = (0 + ((l \div 2) % 2)) % 2
      BY SMT, <1>2, <3>1
    <3> QED  BY SMT, <2>2, <3>1, <3>2 DEF Bit
  <2>3. CASE b = 4
    <3>1. c \div 4 = (64 * h) + (l \div 4) /\ high \div 4 = 64 * h /\ l \div 4 \in Nat
      BY SMT, <1>2
    <3>2. (64 * h) % 2 = 0 /\ ((64 * h) + (l \div 4)) % 2 = (0 + ((l \div 4) % 2)) % 2
      BY SMT, <1>2, <3>1
    <3> QED  BY SMT, <2>3, <3>1, <3>2 DEF Bit
  <2>4. CASE b = 8
    <3>1. c \div 8 = (32 * h) + (l \div 8) /\ high \div 8 = 32 * h /\ l \div 8 \in Nat
      BY SMT, <1>2
    <3>2. (32 * h) % 2 = 0 /\ ((32 * h) + (l \div 8)) % 2 = (0 + ((l \div 8) % 2)) % 2
      BY SMT, <1>2, <3>1
    <3> QED  BY SMT, <2>4, <3>1, <3>2 DEF Bit
  <2>5. CASE b = 16
    <3>1. c \div 16 = (16 * h) + (l \div 16) /\ high \div 16 = 16 * h /\ l \div 16 \in Nat
      BY SMT, <1>2
    <3>2. (16 * h) % 2 = 0 /\ ((16 * h) + (l \div 16)) % 2 = (0 + ((l \div 16) % 2)) % 2
      BY SMT, <1>2, <3>1
    <3> QED  BY SMT, <2>5, <3>1, <3>2 DEF Bit
  <2>6. CASE b = 32
    <3>1. c \div 32 = (8 * h) + (l \div 32) /\ high \div 32 = 8 * h /\ l \div 32 \in Nat
      BY SMT, <1>2
    <3>2. (8 * h) % 2 = 0 /\ ((8 * h) + (l \div 32)) % 2 = (0 + ((l \div 32) % 2)) % 2
      BY SMT, <1>2, <3>1
    <3> QED  BY SMT, <2>6, <3>1, <3>2 DEF Bit
  <2>7. CASE b = 64
    <3>1. c \div 64 = (4 * h) + (l \div 64) /\ high \div 64 = 4 * h /\ l \div 64 \in Nat
      BY SMT, <1>2
    <3>2. (4 * h) % 2 = 0 /\ ((4 * h) + (l \div 64)) % 2 = (0 + ((l \div 64) % 2)) % 2
      BY SMT, <1>2, <3>1
    <3> QED  BY SMT, <2>7, <3>1, <3>2 DEF Bit
  <2>8. CASE b = 128
    <3>1. c \div 128 = (2 * h) + (l \div 128) /\ high \div 128 = 2 * h /\ l \div 128 \in Nat
      BY SMT, <1>2
    <3>2. (2 * h) % 2 = 0 /\ ((2 * h) + (l \div 128)) % 2 = (0 + ((l \div 128) % 2)) % 2
      BY SMT, <1>2, <3>1
    <3> QED  BY SMT, <2>8, <3>1, <3>2 DEF Bit
  <2>9. CASE b = 256
    <3>1. c \div 256 = h \div 1 /\ high \div 256 = h \div 1 /\ l \div 256 = 0 /\ h \div 1 \in Nat
      BY SMT, <1>2
    <3>2. (h \div 1) % 2 = (((h \div 1) % 2) + (0 % 2)) % 2
      BY SMT, <3>1
    <3> QED  BY SMT, <2>9, <3>1, <3>2 DEF Bit
  <2>10. CASE b = 512
    <3>1. c \div 512 = h \div 2 /\ high \div 512 = h \div 2 /\ l \div 512 = 0 /\ h \div 2 \in Nat
      BY SMT, <1>2
    <3>2. (h \div 2) % 2 = (((h \div 2) % 2) + (0 % 2)) % 2
      BY SMT, <3>1
    <3> QED  BY SMT, <2>10, <3>1, <3>2 DEF Bit
  <2>11. CASE b = 1024
    <3>1. c \div 1024 = h \div 4 /\ high \div 1024 = h \div 4 /\ l \div 1024 = 0 /\ h \div 4 \in Nat
      BY SMT, <1>2
    <3>2. (h \div 4) % 2 = (((h \div 4) % 2) + (0 % 2)) % 2
      BY SMT, <3>1
    <3> QED  BY SMT, <2>11, <3>1, <3>2 DEF Bit
  <2>12. CASE b = 2048
    <3>1. c \div 2048 = h \div 8 /\ high \div 2048 = h \div 8 /\ l \div 2048 = 0 /\ h \div 8 \in Nat
      BY SMT, <1>2
    <3>2. (h \div 8) % 2 = (((h \div 8) % 2) + (0 % 2)) % 2
      BY SMT, <3>1
    <3> QED  BY SMT, <2>12, <3>1, <3>2 DEF Bit
  <2>13. CASE b = 4096
    <3>1. c \div 4096 = h \div 16 /\ high \div 4096 = h \div 16 /\ l \div 4096 = 0 /\ h \div 16 \in Nat
      BY SMT, <1>2
    <3>2. (h \div 16) % 2 = (((h \div 16) % 2) + (0 % 2)) % 2
      BY SMT, <3>1
    <3> QED  BY SMT, <2>13, <3>1, <3>2 DEF Bit
  <2>14. CASE b = 8192
    <3>1. c \div 8192 = h \div 32 /\ high \div 8192 = h \div 32 /\ l \div 8192 = 0 /\ h \div 32 \in Nat
      BY SMT, <1>2
    <3>2. (h \div 32) % 2 = (((h \div 32) % 2) + (0 % 2)) % 2
      BY SMT, <3>1
    <3> QED  BY SMT, <2>14, <3>1, <3>2 DEF Bit
  <2>15. CASE b = 16384
    <3>1. c \div 16384 = h \div 64 /\ high \div 16384 = h \div 64 /\ l \div 16384 = 0 /\ h \div 64 \in Nat
      BY SMT, <1>2
    <3>2. (h \div 64) % 2 = (((h \div 64) % 2) + (0 % 2)) % 2
      BY SMT, <3>1
    <3> QED  BY SMT, <2>15, <3>1, <3>2 DEF Bit
  <2>16. CASE b = 32768
    <3>1. c \div 32768 = h \div 128 /\ high \div 32768 = h \div 128 /\ l \div 32768 = 0 /\ h \div 128 \in Nat
      BY SMT, <1>2
    <3>2. (h \div 128) % 2 = (((h \div 128) % 2) + (0 % 2)) % 2
      BY SMT, <3>1
    <3> QED  BY SMT, <2>16, <3>1, <3>2 DEF Bit
  <2> QED  BY SMT, <2>1, <2>2, <2>3, <2>4, <2>5, <2>6, <2>7, <2>8, <2>9, <2>10, <2>11, <2>12, <2>13, <2>14, <2>15, <2>16 DEF Bits
<1>4. c = Xor(high, l)
  <2>1. \A b \in Bits : Bit(Xor(high, l), b) = (Bit(high, b) + Bit(l, b)) % 2
    BY <1>2, XorBits
  <2>2. Xor(high, l) \in crc_state_t
    BY <1>2, XorType
  <2> QED  BY <1>3, <2>1, <2>2, SameBits
<1>5. l \in 0 .. 255 /\ h \in 0 .. 255
  BY SMT, <1>2
<1> QED  BY <1>4, <1>5 DEF high, h, l

LEMMA ByteXor ==
  ASSUME NEW x \in 0 .. 255, NEW y \in 0 .. 255
  PROVE  Xor(x, y) \in 0 .. 255
<1> DEFINE s == Xor(x, y)
<1>1. s \in crc_state_t /\ s \in Nat /\ x \in Nat /\ y \in Nat
  BY BytesAreRegisters, XorType
<1>2. ASSUME NEW b \in {256, 512, 1024, 2048, 4096, 8192, 16384, 32768} PROVE Bit(s, b) = 0
  <2>1. b \in Bits
    BY SMT DEF Bits
  <2>2. x \div b = 0 /\ y \div b = 0
    BY SMT
  <2>3. Bit(x, b) = 0 /\ Bit(y, b) = 0
    BY SMT, <2>2 DEF Bit
  <2>4. Bit(s, b) = (0 + 0) % 2
    BY <1>1, <2>1, <2>3, XorBits
  <2> QED  BY SMT, <2>4
<1> HIDE DEF s
<1>3. s \div 65536 = 0
  BY SMT, <1>1, NoMoreBits
<1>4. s \div 32768 = 0
  <2>1. 32768 \in Bits /\ 2 * 32768 = 65536 /\ 32768 \in {256, 512, 1024, 2048, 4096, 8192, 16384, 32768}
    BY SMT DEF Bits
  <2>2. s \div 32768 \in Nat /\ s \div 65536 = (s \div 32768) \div 2
    BY SMT, <1>1, <2>1, HalfQuotient
  <2>3. (s \div 32768) % 2 = 0
    BY SMT, <1>2, <2>1 DEF Bit
  <2> QED  BY SMT, <1>3, <2>2, <2>3
<1>5. s \div 16384 = 0
  <2>1. 16384 \in Bits /\ 2 * 16384 = 32768 /\ 16384 \in {256, 512, 1024, 2048, 4096, 8192, 16384, 32768}
    BY SMT DEF Bits
  <2>2. s \div 16384 \in Nat /\ s \div 32768 = (s \div 16384) \div 2
    BY SMT, <1>1, <2>1, HalfQuotient
  <2>3. (s \div 16384) % 2 = 0
    BY SMT, <1>2, <2>1 DEF Bit
  <2> QED  BY SMT, <1>4, <2>2, <2>3
<1>6. s \div 8192 = 0
  <2>1. 8192 \in Bits /\ 2 * 8192 = 16384 /\ 8192 \in {256, 512, 1024, 2048, 4096, 8192, 16384, 32768}
    BY SMT DEF Bits
  <2>2. s \div 8192 \in Nat /\ s \div 16384 = (s \div 8192) \div 2
    BY SMT, <1>1, <2>1, HalfQuotient
  <2>3. (s \div 8192) % 2 = 0
    BY SMT, <1>2, <2>1 DEF Bit
  <2> QED  BY SMT, <1>5, <2>2, <2>3
<1>7. s \div 4096 = 0
  <2>1. 4096 \in Bits /\ 2 * 4096 = 8192 /\ 4096 \in {256, 512, 1024, 2048, 4096, 8192, 16384, 32768}
    BY SMT DEF Bits
  <2>2. s \div 4096 \in Nat /\ s \div 8192 = (s \div 4096) \div 2
    BY SMT, <1>1, <2>1, HalfQuotient
  <2>3. (s \div 4096) % 2 = 0
    BY SMT, <1>2, <2>1 DEF Bit
  <2> QED  BY SMT, <1>6, <2>2, <2>3
<1>8. s \div 2048 = 0
  <2>1. 2048 \in Bits /\ 2 * 2048 = 4096 /\ 2048 \in {256, 512, 1024, 2048, 4096, 8192, 16384, 32768}
    BY SMT DEF Bits
  <2>2. s \div 2048 \in Nat /\ s \div 4096 = (s \div 2048) \div 2
    BY SMT, <1>1, <2>1, HalfQuotient
  <2>3. (s \div 2048) % 2 = 0
    BY SMT, <1>2, <2>1 DEF Bit
  <2> QED  BY SMT, <1>7, <2>2, <2>3
<1>9. s \div 1024 = 0
  <2>1. 1024 \in Bits /\ 2 * 1024 = 2048 /\ 1024 \in {256, 512, 1024, 2048, 4096, 8192, 16384, 32768}
    BY SMT DEF Bits
  <2>2. s \div 1024 \in Nat /\ s \div 2048 = (s \div 1024) \div 2
    BY SMT, <1>1, <2>1, HalfQuotient
  <2>3. (s \div 1024) % 2 = 0
    BY SMT, <1>2, <2>1 DEF Bit
  <2> QED  BY SMT, <1>8, <2>2, <2>3
<1>10. s \div 512 = 0
  <2>1. 512 \in Bits /\ 2 * 512 = 1024 /\ 512 \in {256, 512, 1024, 2048, 4096, 8192, 16384, 32768}
    BY SMT DEF Bits
  <2>2. s \div 512 \in Nat /\ s \div 1024 = (s \div 512) \div 2
    BY SMT, <1>1, <2>1, HalfQuotient
  <2>3. (s \div 512) % 2 = 0
    BY SMT, <1>2, <2>1 DEF Bit
  <2> QED  BY SMT, <1>9, <2>2, <2>3
<1>11. s \div 256 = 0
  <2>1. 256 \in Bits /\ 2 * 256 = 512 /\ 256 \in {256, 512, 1024, 2048, 4096, 8192, 16384, 32768}
    BY SMT DEF Bits
  <2>2. s \div 256 \in Nat /\ s \div 512 = (s \div 256) \div 2
    BY SMT, <1>1, <2>1, HalfQuotient
  <2>3. (s \div 256) % 2 = 0
    BY SMT, <1>2, <2>1 DEF Bit
  <2> QED  BY SMT, <1>10, <2>2, <2>3
<1>12. s <= 255
  BY SMT, <1>1, <1>11
<1> QED  BY SMT, <1>1, <1>12 DEF s

-----------------------------------------------------------------------------
(* The register.                                                            *)

(* A step of crc_state_append through the table divides the register by the *)
(* polynomial, for any register and any byte, and leaves 16 bits.           *)
THEOREM AppendDivides ==
  ASSUME NEW crc \in crc_state_t, NEW byte \in 0 .. 255
  PROVE  /\ crc_state_append(crc, byte) = Divide(crc, byte)
         /\ crc_state_append(crc, byte) \in crc_state_t
<1> DEFINE h == crc \div 256
           l == crc % 256
           high == 256 * h
           index == Xor(l, byte)
<1>1. h \in 0 .. 255 /\ l \in 0 .. 255 /\ crc = Xor(high, l)
  BY SplitRegister
<1>2. index \in 0 .. 255
  BY <1>1, ByteXor
<1>3. Eight(high) = h /\ high \in crc_state_t /\ high \in Nat
  <2>1. h \in Nat /\ h <= 255
    BY SMT, <1>1
  <2> HIDE DEF h
  <2> QED  BY <2>1, EightOfHigh, Registers
<1> HIDE DEF h, l, high, index
<1>4. Xor(crc, byte) = Xor(high, index)
  <2>1. l \in Nat /\ byte \in Nat
    BY <1>1, BytesAreRegisters
  <2>2. Xor(Xor(high, l), byte) = Xor(high, Xor(l, byte))
    BY <1>3, <2>1, XorAssociates
  <2> QED  BY Zenon, <1>1, <2>2 DEF index
<1>5. Eight(Xor(high, index)) = Xor(Eight(high), Eight(index)) /\ Eight(index) \in crc_state_t
  BY <1>2, <1>3, BytesAreRegisters, EightLinear
<1>6. LT_CRC_LUT[index + 1] = Eight(index)
  BY <1>2, TableDivides
<1>7. Divide(crc, byte) = Xor(h, Eight(index))
  BY <1>3, <1>4, <1>5, DivideIsEight
<1>8. Xor(h, Eight(index)) = Xor(Eight(index), h) /\ Xor(Eight(index), h) \in crc_state_t
  <2>1. h \in Nat /\ Eight(index) \in Nat
    BY <1>1, <1>5, BytesAreRegisters, Registers
  <2> QED  BY <2>1, XorCommutes, XorType
<1>9. crc_state_append(crc, byte) = Xor(LT_CRC_LUT[index + 1], h)
  BY Zenon DEF crc_state_append, index, h, l
<1> QED  BY Zenon, <1>6, <1>7, <1>8, <1>9

LEMMA InitialRegister == crc_state_init \in crc_state_t
BY SMT, Registers DEF crc_state_init

LEMMA TableOf135 == LT_CRC_LUT[135 + 1] = 61623
BY SMT DEF LT_CRC_LUT

LEMMA TableOf255 == LT_CRC_LUT[255 + 1] = 3960
BY SMT DEF LT_CRC_LUT

LEMMA Constants == /\ Xor(120, 255) = 135 /\ Xor(61623, 15) = 61624
                   /\ 3960 % 256 = 120 /\ 3960 \div 256 = 15
BY SMT DEF Xor

LEMMA Complement ==
  ASSUME NEW x \in 0 .. 255
  PROVE  Xor(x, 255) = 255 - x /\ 255 - x \in 0 .. 255
BY SMTT(60) DEF Xor

LEMMA FcsBytes ==
  ASSUME NEW crc \in crc_state_t
  PROVE  /\ crc_state_byte_1(crc) = 255 - (crc % 256) /\ crc_state_byte_1(crc) \in 0 .. 255
         /\ crc_state_byte_2(crc) = 255 - (crc \div 256) /\ crc_state_byte_2(crc) \in 0 .. 255
<1>1. crc % 256 \in 0 .. 255 /\ crc \div 256 \in 0 .. 255
  BY SplitRegister
<1> QED  BY <1>1, Complement DEF crc_state_byte_1, crc_state_byte_2

(* After its own complement, low byte first, the register is the residue    *)
(* that crc_state_ok looks for, whatever it was.                            *)
THEOREM Residue ==
  ASSUME NEW crc \in crc_state_t
  PROVE  crc_state_ok(crc_state_append(crc_state_append(crc, crc_state_byte_1(crc)),
                                       crc_state_byte_2(crc)))
<1> DEFINE h == crc \div 256
           l == crc % 256
           b1 == crc_state_byte_1(crc)
           b2 == crc_state_byte_2(crc)
           c1 == crc_state_append(crc, b1)
           top == 3960
<1>1. h \in 0 .. 255 /\ l \in 0 .. 255 /\ h \in Nat /\ l \in Nat
  BY SplitRegister, BytesAreRegisters
<1>2. b1 = Xor(l, 255) /\ b2 = Xor(h, 255)
  BY DEF crc_state_byte_1, crc_state_byte_2
<1>3. \A x \in Nat : x \in 0 .. 255 => Xor(x, Xor(x, 255)) = 255
  <2> SUFFICES ASSUME NEW x \in Nat, x \in 0 .. 255 PROVE Xor(x, Xor(x, 255)) = 255
    OBVIOUS
  <2>1. 255 \in Nat /\ 255 \in 0 .. 255
    BY SMT
  <2>2. Xor(x, Xor(x, 255)) = Xor(Xor(x, x), 255)
    BY <2>1, XorAssociates
  <2>3. Xor(x, x) = 0 /\ Xor(0, 255) = 255
    BY <2>1, BytesAreRegisters, XorSelf, XorZero
  <2> QED  BY Zenon, <2>2, <2>3
<1>4. c1 = Xor(top, h)
  <2>1. c1 = Xor(LT_CRC_LUT[Xor(l, b1) + 1], h)
    BY Zenon DEF crc_state_append
  <2>2. Xor(l, b1) = 255
    BY <1>1, <1>2, <1>3
  <2> QED  BY SMT, <2>1, <2>2, TableOf255
<1>5. top \in crc_state_t /\ top \in Nat /\ top % 256 = 120 /\ top \div 256 = 15
  <2>1. top <= UINT16_MAX /\ top \in Nat
    BY SMT DEF UINT16_MAX
  <2> QED  BY SMT, <2>1, Registers, Constants
<1> HIDE DEF top, h, l, b1, b2, c1
<1>6. c1 % 256 = Xor(120, h) /\ c1 \div 256 = 15
  <2> DEFINE th == 256 * 15
             x == Xor(120, h)
  <2>1. top = Xor(th, 120) /\ 15 \in Nat /\ 15 <= 255 /\ 120 \in Nat /\ th \in Nat
    BY SMT, <1>5, SplitRegister
  <2>2. x \in 0 .. 255 /\ x \in Nat
    <3>1. 120 \in 0 .. 255
      BY SMT
    <3>2. x \in 0 .. 255
      BY <1>1, <3>1, ByteXor
    <3> HIDE DEF x
    <3> QED  BY <3>2, BytesAreRegisters
  <2> HIDE DEF th, x
  <2>3. c1 = Xor(th, x)
    BY <1>1, <1>4, <2>1, XorAssociates DEF x
  <2>4. \A y \in 0 .. 255 : Xor(3840, y) = 3840 + y
    BY SMTT(60) DEF Xor
  <2>5. c1 = 3840 + x
    BY SMT, <2>2, <2>3, <2>4 DEF th
  <2>6. c1 % 256 = x /\ c1 \div 256 = 15
    BY SMT, <2>2, <2>5
  <2> QED  BY <2>6 DEF x
<1>7. Xor(Xor(120, h), b2) = 135
  <2>1. 120 \in Nat /\ 255 \in Nat /\ Xor(h, 255) \in Nat
    BY SMT, <1>1, XorType
  <2>2. Xor(Xor(120, h), b2) = Xor(120, Xor(h, Xor(h, 255)))
    BY <1>1, <1>2, <2>1, XorAssociates
  <2>3. Xor(h, Xor(h, 255)) = 255
    BY <1>1, <1>3
  <2> QED  BY SMT, <2>2, <2>3, Constants
<1>8. crc_state_append(c1, b2) = Xor(LT_CRC_LUT[Xor(c1 % 256, b2) + 1], c1 \div 256)
  BY Zenon DEF crc_state_append
<1>9. crc_state_append(c1, b2) = 61624
  BY SMT, <1>6, <1>7, <1>8, TableOf135, Constants
<1> QED  BY SMT, <1>9 DEF crc_state_ok, c1, b1, b2

-----------------------------------------------------------------------------
(* The register after many bytes.                                           *)

AppendStep(bytes) ==
  [i \in DOMAIN bytes |-> [c \in crc_state_t |-> crc_state_append(c, bytes[i])]]

LEMMA AppendStepIs ==
  ASSUME NEW bytes \in Seq(uint8_t), NEW i \in 1 .. Len(bytes), NEW c \in crc_state_t
  PROVE  /\ AppendStep(bytes)[i][c] = crc_state_append(c, bytes[i])
         /\ AppendStep(bytes)[i][c] \in crc_state_t
<1>1. bytes[i] \in 0 .. 255 /\ i \in DOMAIN bytes
  BY DEF uint8_t
<1>2. AppendStep(bytes)[i][c] = crc_state_append(c, bytes[i])
  BY <1>1 DEF AppendStep
<1> QED  BY <1>1, <1>2, AppendDivides

LEMMA AppendAllIs ==
  \A reg, bytes : crc_state_append_all(reg, bytes) = Loop(AppendStep(bytes), reg, Len(bytes))
BY DEF crc_state_append_all, AppendStep

LEMMA AppendAllType ==
  ASSUME NEW reg \in crc_state_t, NEW bytes \in Seq(uint8_t)
  PROVE  crc_state_append_all(reg, bytes) \in crc_state_t
<1>1. Len(bytes) \in Nat /\ Len(bytes) \in 0 .. Len(bytes)
  OBVIOUS
<1>2. StepsWithin(crc_state_t, AppendStep(bytes), Len(bytes))
  BY AppendStepIs DEF StepsWithin
<1>3. Loop(AppendStep(bytes), reg, Len(bytes)) \in crc_state_t
  BY <1>1, <1>2, LoopSteps
<1> QED  BY <1>3, AppendAllIs

LEMMA AppendAllEmpty ==
  ASSUME NEW reg \in crc_state_t
  PROVE  crc_state_append_all(reg, <<>>) = reg
<1>1. StepsWithin(crc_state_t, AppendStep(<<>>), 0)
  BY DEF StepsWithin
<1>2. Loop(AppendStep(<<>>), reg, 0) = reg
  BY <1>1, LoopSteps
<1>3. Len(<<>>) = 0
  OBVIOUS
<1> QED  BY <1>2, <1>3, AppendAllIs

(* One byte more.                                                           *)
LEMMA AppendAllNext ==
  ASSUME NEW reg \in crc_state_t, NEW bytes \in Seq(uint8_t), NEW byte \in uint8_t
  PROVE  crc_state_append_all(reg, Append(bytes, byte)) =
           crc_state_append(crc_state_append_all(reg, bytes), byte)
<1> DEFINE n == Len(bytes)
           more == Append(bytes, byte)
           a == AppendStep(bytes)
           b == AppendStep(more)
<1>1. n \in Nat /\ more \in Seq(uint8_t) /\ Len(more) = n + 1 /\ n + 1 \in 1 .. Len(more)
      /\ more[n + 1] = byte /\ (\A i \in 1 .. n : more[i] = bytes[i] /\ i \in 1 .. Len(more))
  OBVIOUS
<1>2. StepsWithin(crc_state_t, a, n)
  BY AppendStepIs DEF StepsWithin
<1>3. StepsWithin(crc_state_t, b, n + 1)
  <2> HIDE DEF more
  <2> QED  BY <1>1, AppendStepIs DEF StepsWithin
<1>4. StepsAgree(crc_state_t, a, b, n)
  <2> SUFFICES ASSUME NEW i \in 1 .. n, NEW c \in crc_state_t PROVE a[i][c] = b[i][c]
    BY DEF StepsAgree
  <2>1. a[i][c] = crc_state_append(c, bytes[i])
    BY AppendStepIs
  <2> HIDE DEF more
  <2>2. b[i][c] = crc_state_append(c, more[i])
    BY <1>1, AppendStepIs
  <2> QED  BY <1>1, <2>1, <2>2
<1>5. crc_state_append_all(reg, bytes) = Loop(a, reg, n) /\ crc_state_append_all(reg, more) = Loop(b, reg, n + 1)
  <2>1. crc_state_append_all(reg, more) = Loop(b, reg, Len(more))
    BY Zenon, AppendAllIs
  <2>2. crc_state_append_all(reg, bytes) = Loop(a, reg, n)
    BY Zenon, AppendAllIs
  <2> HIDE DEF b, a, n
  <2> QED  BY Zenon, <1>1, <2>1, <2>2
<1> HIDE DEF a, b, n, more
<1>6. Loop(a, reg, n) = Loop(b, reg, n)
  BY <1>1, <1>2, <1>4, SameLoops
<1>7. n + 1 \in Nat /\ n + 1 \in 1 .. n + 1 /\ n \in 0 .. n + 1 /\ (n + 1) - 1 = n
  BY <1>1
<1>8. Loop(b, reg, n + 1) = b[n + 1][Loop(b, reg, (n + 1) - 1)] /\ Loop(b, reg, n) \in crc_state_t
  <2> DEFINE m == n + 1
  <2>0. m \in Nat /\ StepsWithin(crc_state_t, b, m)
    BY <1>3, <1>7
  <2> HIDE DEF m
  <2>9. /\ \A i \in 1 .. m : Loop(b, reg, i) = b[i][Loop(b, reg, i - 1)]
        /\ \A i \in 0 .. m : Loop(b, reg, i) \in crc_state_t
    BY <2>0, LoopSteps
  <2>1. /\ \A i \in 1 .. n + 1 : Loop(b, reg, i) = b[i][Loop(b, reg, i - 1)]
        /\ \A i \in 0 .. n + 1 : Loop(b, reg, i) \in crc_state_t
    BY <2>9 DEF m
  <2> QED  BY <1>7, <2>1
<1>9. b[n + 1][Loop(b, reg, n)] = crc_state_append(Loop(b, reg, n), more[n + 1])
  BY <1>1, <1>8, AppendStepIs DEF b
<1>10. crc_state_append_all(reg, more) = crc_state_append(crc_state_append_all(reg, bytes), byte)
  BY <1>1, <1>5, <1>6, <1>7, <1>8, <1>9
<1> QED  BY <1>10 DEF more

Fcs(reg) == <<crc_state_byte_1(reg), crc_state_byte_2(reg)>>

DivideStep(bytes) ==
  [i \in DOMAIN bytes |-> [c \in crc_state_t |-> Divide(c, bytes[i])]]

(* The table divides as often as it is used.                                *)
LEMMA AppendAllDivides ==
  ASSUME NEW reg \in crc_state_t, NEW bytes \in Seq(uint8_t)
  PROVE  crc_state_append_all(reg, bytes) = Loop(DivideStep(bytes), reg, Len(bytes))
<1> DEFINE n == Len(bytes)
           a == AppendStep(bytes)
           b == DivideStep(bytes)
<1>1. n \in Nat /\ StepsWithin(crc_state_t, a, n)
  BY AppendStepIs DEF StepsWithin
<1>2. StepsAgree(crc_state_t, a, b, n)
  <2> SUFFICES ASSUME NEW i \in 1 .. n, NEW c \in crc_state_t PROVE a[i][c] = b[i][c]
    BY DEF StepsAgree
  <2>1. a[i][c] = crc_state_append(c, bytes[i])
    BY AppendStepIs
  <2>2. i \in DOMAIN bytes /\ bytes[i] \in 0 .. 255
    BY DEF uint8_t
  <2>3. b[i][c] = Divide(c, bytes[i])
    BY <2>2 DEF DivideStep
  <2> HIDE DEF a, b
  <2>4. crc_state_append(c, bytes[i]) = Divide(c, bytes[i])
    BY <2>2, AppendDivides
  <2> QED  BY <2>1, <2>3, <2>4
<1>3. crc_state_append_all(reg, bytes) = Loop(a, reg, n)
  BY Zenon, AppendAllIs
<1>4. Loop(a, reg, n) = Loop(b, reg, n)
  <2> HIDE DEF a, b, n
  <2> QED  BY <1>1, <1>2, SameLoops
<1> QED  BY Zenon, <1>3, <1>4

(* Other nodes' frame check sequence is that of append_packet_fcs.          *)
LEMMA WithFcsIs ==
  ASSUME NEW bytes \in Seq(uint8_t)
  PROVE  /\ WithFcs(bytes) = bytes \o Fcs(crc_state_append_all(crc_state_init, bytes))
         /\ Fcs(crc_state_append_all(crc_state_init, bytes)) \in Seq(uint8_t)
<1> DEFINE reg == crc_state_append_all(crc_state_init, bytes)
           divided == Loop(DivideStep(bytes), UINT16_MAX, Len(bytes))
<1>1. crc_state_init \in crc_state_t /\ crc_state_init = UINT16_MAX
  BY InitialRegister DEF crc_state_init
<1>2. reg \in crc_state_t
  BY <1>1, AppendAllType
<1>3. reg = divided
  BY <1>1, AppendAllDivides
<1>4. WithFcs(bytes) = bytes \o <<255 - (divided % 256), 255 - (divided \div 256)>>
  BY Zenon DEF WithFcs, DivideStep
<1> HIDE DEF reg, divided
<1>5. /\ crc_state_byte_1(reg) = 255 - (reg % 256) /\ crc_state_byte_1(reg) \in 0 .. 255
      /\ crc_state_byte_2(reg) = 255 - (reg \div 256) /\ crc_state_byte_2(reg) \in 0 .. 255
  BY <1>2, FcsBytes
<1>6. WithFcs(bytes) = bytes \o Fcs(reg)
  BY Zenon, <1>3, <1>4, <1>5 DEF Fcs
<1>7. Fcs(reg) \in Seq(uint8_t)
  BY <1>5 DEF Fcs, uint8_t
<1> QED  BY <1>6, <1>7 DEF reg

(* Whatever a node sends with the frame check sequence that the division    *)
(* gives is good for crc_state_ok, however long it is.                      *)
THEOREM FcsIsGood ==
  ASSUME NEW bytes \in Seq(uint8_t)
  PROVE  crc_state_ok(crc_state_append_all(crc_state_init, WithFcs(bytes)))
<1> DEFINE reg == crc_state_append_all(crc_state_init, bytes)
           b1 == crc_state_byte_1(reg)
           b2 == crc_state_byte_2(reg)
<1>1. crc_state_init \in crc_state_t /\ reg \in crc_state_t
  BY InitialRegister, AppendAllType
<1>2. b1 \in uint8_t /\ b2 \in uint8_t
  <2> HIDE DEF reg
  <2> QED  BY <1>1, FcsBytes DEF uint8_t
<1>3. WithFcs(bytes) = bytes \o <<b1, b2>>
  BY WithFcsIs DEF Fcs
<1>4. bytes \o <<b1, b2>> = Append(Append(bytes, b1), b2) /\ Append(bytes, b1) \in Seq(uint8_t)
  <2> HIDE DEF b1, b2
  <2> QED  BY <1>2
<1>5. crc_state_append_all(crc_state_init, Append(bytes, b1)) = crc_state_append(reg, b1)
  <2> HIDE DEF b1
  <2> QED  BY <1>1, <1>2, AppendAllNext
<1>6. crc_state_append_all(crc_state_init, Append(Append(bytes, b1), b2)) =
        crc_state_append(crc_state_append_all(crc_state_init, Append(bytes, b1)), b2)
  <2> HIDE DEF b1, b2
  <2> QED  BY <1>1, <1>2, <1>4, AppendAllNext
<1>7. crc_state_ok(crc_state_append(crc_state_append(reg, b1), b2))
  <2> HIDE DEF reg
  <2> QED  BY <1>1, Residue
<1> HIDE DEF b1, b2, reg
<1> QED  BY Zenon, <1>3, <1>4, <1>5, <1>6, <1>7
===============================================================================
