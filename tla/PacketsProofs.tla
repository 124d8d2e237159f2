---------------------------- MODULE PacketsProofs -----------------------------
(***************************************************************************)
(* Of every frame, whatever its bytes, its tuples and their names, and     *)
(* wherever it is cut off: what the accessors of packet_utils.c read of it *)
(* is what was sent, and it leaves the other bridge as it was sent or not  *)
(* at all.                                                                 *)
(*                                                                         *)
(* The invariant says of a packet, wherever it is, that it is made of the  *)
(* bytes that have come so far.  The rest is about these: where the pieces *)
(* of a frame are among its bytes (a loop over tuples puts them there),    *)
(* what an accessor reads of a beginning of them (a loop over tuples finds *)
(* them), and what the bytes' frame check sequence is (CrcProofs).         *)
(***************************************************************************)
EXTENDS Packets, CrcProofs, SequenceTheorems

-----------------------------------------------------------------------------
(* Frames and their bytes.                                                  *)

(* What is where in two sequences of bytes, one after the other.            *)
LEMMA Concat ==
  ASSUME NEW S, NEW s \in Seq(S), NEW t \in Seq(S)
  PROVE  /\ s \o t \in Seq(S) /\ Len(s \o t) = Len(s) + Len(t)
         /\ Len(s) \in Nat /\ Len(t) \in Nat
         /\ \A i \in 1 .. Len(s) : (s \o t)[i] = s[i]
         /\ \A i \in 1 .. Len(t) : (s \o t)[Len(s) + i] = t[i]
OBVIOUS

LEMMA Prefixed ==
  ASSUME NEW n \in uint8_t, NEW s \in Seq(uint8_t)
  PROVE  /\ <<n>> \o s \in Seq(uint8_t) /\ Len(<<n>> \o s) = Len(s) + 1
         /\ (<<n>> \o s)[1] = n
         /\ \A i \in 1 .. Len(s) : (<<n>> \o s)[i + 1] = s[i]
OBVIOUS

(* The assumption, part by part.                                            *)
LEMMA FrameFacts ==
  ASSUME NEW f \in Frames
  PROVE  /\ f.dst \in uint8_t /\ f.src \in uint8_t /\ f.type \in uint8_t
         /\ f.node \in uint8_t /\ f.srcNode \in uint8_t
         /\ f.socket \in uint8_t /\ f.srcSocket \in uint8_t
         /\ f.ddpType \in uint8_t /\ f.id \in uint8_t
         /\ f.high \in 0 .. 63 /\ f.flags \in 0 .. 63
         /\ f.routing \in Seq(uint8_t) /\ Len(f.routing) = 6
         /\ f.atp \in Seq(uint8_t) /\ Len(f.atp) = 7
         /\ f.function \in 0 .. 15 /\ (f.ddpType = 3 => f.function \in 0 .. 3)
         /\ f.tuples \in Seq(Tuples) /\ Len(f.tuples) \in 0 .. 15
         /\ f.payload \in Seq(uint8_t)
         /\ ~IsControl(f) => HeaderLength(f) + Len(Body(f)) <= 603
         /\ f.type = 1 => f.node = f.dst
<1>1. IsFrame(f)
  BY Zenon, FramesAssumption
<1>2. /\ f.dst \in uint8_t /\ f.src \in uint8_t /\ f.type \in uint8_t
      /\ f.node \in uint8_t /\ f.srcNode \in uint8_t
      /\ f.socket \in uint8_t /\ f.srcSocket \in uint8_t /\ f.ddpType \in uint8_t
  BY <1>1 DEF IsFrame
<1>3. f.function \in 0 .. 15 /\ (f.ddpType = 3 => f.function \in 0 .. 3)
  <2>1. CASE f.ddpType = 3
    <3>1. f.function \in 0 .. 3
      BY <1>1, <2>1 DEF IsFrame
    <3> QED  BY <3>1
  <2>2. CASE f.ddpType # 3
    BY <1>1, <2>2 DEF IsFrame
  <2> QED  BY <2>1, <2>2
<1>4. Len(f.tuples) \in 0 .. 15
  <2> DEFINE n == Len(f.tuples)
  <2>1. n \in Nat /\ n <= 15
    BY <1>1 DEF IsFrame
  <2> HIDE DEF n
  <2>2. n \in 0 .. 15
    BY <2>1
  <2> QED  BY <2>2 DEF n
<1> QED  BY Zenon, <1>1, <1>2, <1>3, <1>4 DEF IsFrame

LEMMA PStringBytes ==
  ASSUME NEW str \in PStrings
  PROVE  /\ PString(str) \in Seq(uint8_t) /\ Len(PString(str)) = Len(str) + 1
         /\ PString(str)[1] = Len(str) /\ Len(str) \in Nat
         /\ \A i \in 1 .. Len(str) : PString(str)[i + 1] = str[i]
<1>1. str \in Seq(uint8_t) /\ Len(str) \in 0 .. 255
  <2>1. str \in Seq(uint8_t) /\ Len(str) <= 255
    BY DEF PStrings
  <2>2. Len(str) \in Nat
    BY <2>1
  <2> DEFINE n == Len(str)
  <2>3. n \in Nat /\ n <= 255
    BY <2>1, <2>2
  <2> HIDE DEF n
  <2>4. n \in 0 .. 255
    BY <2>3
  <2> QED  BY <2>1, <2>4 DEF n
<1>2. Len(str) \in uint8_t /\ Len(str) \in Nat
  <2> DEFINE n == Len(str)
  <2>1. n \in 0 .. 255
    BY Zenon, <1>1
  <2> HIDE DEF n
  <2>2. n \in uint8_t /\ n \in Nat
    BY <2>1 DEF uint8_t
  <2> QED  BY <2>2 DEF n
<1> DEFINE n == Len(str)
<1>3. n \in uint8_t /\ str \in Seq(uint8_t)
  BY Zenon, <1>1, <1>2
<1> HIDE DEF n
<1>4. /\ <<n>> \o str \in Seq(uint8_t) /\ Len(<<n>> \o str) = Len(str) + 1
      /\ (<<n>> \o str)[1] = n
      /\ \A i \in 1 .. Len(str) : (<<n>> \o str)[i + 1] = str[i]
  BY <1>3, Prefixed
<1> QED  BY Zenon, <1>2, <1>4 DEF PString, n

(* What comes first in an encoded tuple.                                    *)
Fields(t) == <<t.network \div 256, t.network % 256, t.node, t.socket, t.enumerator>>

LEMMA TupleFields ==
  ASSUME NEW t \in Tuples
  PROVE  /\ Fields(t) \in Seq(uint8_t) /\ Len(Fields(t)) = 5
         /\ t.object \in PStrings /\ t.type \in PStrings /\ t.zone \in PStrings
         /\ t.network = 256 * Fields(t)[1] + Fields(t)[2]
         /\ Fields(t)[3] = t.node /\ Fields(t)[4] = t.socket /\ Fields(t)[5] = t.enumerator
<1>1. /\ t.network \in 0 .. UINT16_MAX /\ t.node \in uint8_t /\ t.socket \in uint8_t
      /\ t.enumerator \in uint8_t
      /\ t.object \in PStrings /\ t.type \in PStrings /\ t.zone \in PStrings
  BY DEF Tuples
<1> DEFINE n == t.network
<1>2. n \in crc_state_t /\ n \in Nat
  <2>1. n \in crc_state_t
    BY <1>1 DEF crc_state_t
  <2> QED  BY <2>1, Registers
<1>3. n % 256 \in uint8_t /\ n \div 256 \in uint8_t /\ n = 256 * (n \div 256) + (n % 256)
  <2> HIDE DEF n
  <2>1. n % 256 \in uint8_t /\ n \div 256 \in uint8_t
    BY <1>2, SplitRegister DEF uint8_t
  <2>2. n = 256 * (n \div 256) + (n % 256)
    BY SMT, <1>2
  <2> QED  BY <2>1, <2>2
<1> QED  BY <1>1, <1>3 DEF Fields

LEMMA TupleBytes ==
  ASSUME NEW t \in Tuples
  PROVE  /\ EncodeTuple(t) = Fields(t) \o PString(t.object) \o PString(t.type) \o PString(t.zone)
         /\ EncodeTuple(t) \in Seq(uint8_t)
         /\ Len(EncodeTuple(t)) = 8 + Len(t.object) + Len(t.type) + Len(t.zone)
<1>1. EncodeTuple(t) = Fields(t) \o PString(t.object) \o PString(t.type) \o PString(t.zone)
  BY Zenon DEF EncodeTuple, Fields
<1> DEFINE a == PString(t.object)
           b == PString(t.type)
           c == PString(t.zone)
           d == Fields(t)
<1>2. /\ a \in Seq(uint8_t) /\ b \in Seq(uint8_t) /\ c \in Seq(uint8_t) /\ d \in Seq(uint8_t)
      /\ Len(a) = Len(t.object) + 1 /\ Len(b) = Len(t.type) + 1 /\ Len(c) = Len(t.zone) + 1
      /\ Len(t.object) \in Nat /\ Len(t.type) \in Nat /\ Len(t.zone) \in Nat /\ Len(d) = 5
  BY ZenonT(60), TupleFields, PStringBytes
<1> HIDE DEF a, b, c, d
<1>3. d \o a \in Seq(uint8_t) /\ Len(d \o a) = Len(d) + Len(a)
  BY <1>2, Concat
<1>4. (d \o a) \o b \in Seq(uint8_t) /\ Len((d \o a) \o b) = Len(d \o a) + Len(b)
  BY ZenonT(60), <1>2, <1>3, Concat
<1>5. ((d \o a) \o b) \o c \in Seq(uint8_t) /\ Len(((d \o a) \o b) \o c) = Len((d \o a) \o b) + Len(c)
  BY ZenonT(60), <1>2, <1>4, Concat
<1>6. Len(((d \o a) \o b) \o c) = 8 + Len(t.object) + Len(t.type) + Len(t.zone)
  <2> DEFINE x == Len(t.object)
             y == Len(t.type)
             z == Len(t.zone)
  <2>1. Len(((d \o a) \o b) \o c) = ((5 + (x + 1)) + (y + 1)) + (z + 1)
    BY <1>2, <1>3, <1>4, <1>5
  <2>2. x \in Nat /\ y \in Nat /\ z \in Nat
    BY <1>2
  <2> HIDE DEF x, y, z
  <2>3. ((5 + (x + 1)) + (y + 1)) + (z + 1) = 8 + x + y + z
    BY <2>2
  <2> QED  BY Zenon, <2>1, <2>3 DEF x, y, z
<1> QED  BY Zenon, <1>1, <1>5, <1>6 DEF a, b, c, d

EncodeStep(tuples, count) ==
  [i \in 1 .. count |-> [bytes \in Seq(uint8_t) |-> bytes \o EncodeTuple(tuples[i])]]

LEMMA EncodeStepIs ==
  ASSUME NEW tuples \in Seq(Tuples), NEW count \in 0 .. Len(tuples),
         NEW i \in 1 .. count, NEW bytes \in Seq(uint8_t)
  PROVE  /\ EncodeStep(tuples, count)[i][bytes] = bytes \o EncodeTuple(tuples[i])
         /\ EncodeStep(tuples, count)[i][bytes] \in Seq(uint8_t)
<1>1. tuples[i] \in Tuples
  <2>1. i \in 1 .. Len(tuples)
    OBVIOUS
  <2> QED  BY <2>1
<1>2. EncodeTuple(tuples[i]) \in Seq(uint8_t)
  BY <1>1, TupleBytes
<1>3. bytes \o EncodeTuple(tuples[i]) \in Seq(uint8_t)
  BY <1>2, Concat
<1>4. EncodeStep(tuples, count)[i][bytes] = bytes \o EncodeTuple(tuples[i])
  BY DEF EncodeStep
<1> QED  BY <1>3, <1>4

LEMMA EncodeTuplesIs ==
  \A tuples, count : EncodeTuples(tuples, count) = Loop(EncodeStep(tuples, count), <<>>, count)
BY DEF EncodeTuples, EncodeStep

(* A tuple more is its bytes more.                                          *)
LEMMA TuplesBytes ==
  ASSUME NEW tuples \in Seq(Tuples)
  PROVE  /\ EncodeTuples(tuples, 0) = <<>>
         /\ \A k \in 0 .. Len(tuples) : EncodeTuples(tuples, k) \in Seq(uint8_t)
         /\ \A k \in 1 .. Len(tuples) :
              EncodeTuples(tuples, k) = EncodeTuples(tuples, k - 1) \o EncodeTuple(tuples[k])
<1> DEFINE n == Len(tuples)
           S == Seq(uint8_t)
           a == EncodeStep(tuples, n)
<1>1. n \in Nat /\ n \in 0 .. n
  OBVIOUS
<1>2. <<>> \in S
  OBVIOUS
<1>3. \A k \in 0 .. n : StepsWithin(S, EncodeStep(tuples, k), k)
  BY EncodeStepIs DEF StepsWithin
<1>4. \A k \in 0 .. n : StepsAgree(S, EncodeStep(tuples, k), a, k)
  <2> SUFFICES ASSUME NEW k \in 0 .. n, NEW i \in 1 .. k, NEW bytes \in S
               PROVE  EncodeStep(tuples, k)[i][bytes] = a[i][bytes]
    BY DEF StepsAgree
  <2>1. i \in 1 .. n
    OBVIOUS
  <2> QED  BY <1>1, <2>1, EncodeStepIs
<1>5. /\ Loop(a, <<>>, 0) = <<>>
      /\ \A k \in 1 .. n : Loop(a, <<>>, k) = a[k][Loop(a, <<>>, k - 1)]
      /\ \A k \in 0 .. n : Loop(a, <<>>, k) \in S
  <2>1. StepsWithin(S, a, n)
    BY <1>1, <1>3
  <2> HIDE DEF S, a, n
  <2> QED  BY <1>1, <1>2, <2>1, LoopSteps
<1>6. \A k \in 0 .. n : EncodeTuples(tuples, k) = Loop(a, <<>>, k)
  <2> SUFFICES ASSUME NEW k \in 0 .. n PROVE EncodeTuples(tuples, k) = Loop(a, <<>>, k)
    OBVIOUS
  <2> DEFINE b == EncodeStep(tuples, k)
             none == <<>>
  <2>1. StepsWithin(S, b, k) /\ StepsAgree(S, b, a, k) /\ k \in Nat /\ none \in S
    BY <1>2, <1>3, <1>4
  <2>2. EncodeTuples(tuples, k) = Loop(b, none, k)
    BY Zenon, EncodeTuplesIs
  <2> HIDE DEF S, a, n, b, none
  <2>3. Loop(b, none, k) = Loop(a, none, k)
    BY <2>1, SameLoops
  <2> QED  BY Zenon, <2>2, <2>3 DEF none
<1>7. EncodeTuples(tuples, 0) = <<>>
  <2>1. 0 \in 0 .. n
    BY <1>1
  <2> HIDE DEF a
  <2> QED  BY Zenon, <1>5, <1>6, <2>1
<1>8. \A k \in 0 .. n : EncodeTuples(tuples, k) \in S
  <2> HIDE DEF S, a, n
  <2> QED  BY Zenon, <1>5, <1>6
<1>9. ASSUME NEW k \in 1 .. n
      PROVE  EncodeTuples(tuples, k) = EncodeTuples(tuples, k - 1) \o EncodeTuple(tuples[k])
  <2>1. k \in 0 .. n /\ k - 1 \in 0 .. n
    OBVIOUS
  <2>2. EncodeTuples(tuples, k) = a[k][EncodeTuples(tuples, k - 1)]
    <3> HIDE DEF a, n
    <3> QED  BY Zenon, <1>5, <1>6, <2>1
  <2>3. EncodeTuples(tuples, k - 1) \in Seq(uint8_t)
    <3> HIDE DEF n
    <3> QED  BY <1>8, <2>1
  <2> QED  BY <1>1, <2>2, <2>3, EncodeStepIs
<1> QED  BY <1>7, <1>8, <1>9

LEMMA NbpBytes ==
  ASSUME NEW f \in Frames, NEW count \in 0 .. Len(f.tuples)
  PROVE  /\ NbpBody(f, count) \in Seq(uint8_t)
         /\ Len(NbpBody(f, count)) = 2 + Len(EncodeTuples(f.tuples, count))
         /\ NbpBody(f, count)[1] = 16 * f.function + Len(f.tuples)
         /\ NbpBody(f, count)[2] = f.id
         /\ \A i \in 1 .. Len(EncodeTuples(f.tuples, count)) :
              NbpBody(f, count)[2 + i] = EncodeTuples(f.tuples, count)[i]
<1> DEFINE n == Len(f.tuples)
           rest == EncodeTuples(f.tuples, count)
           first == <<16 * f.function + n, f.id>>
<1>1. f.tuples \in Seq(Tuples) /\ n \in 0 .. 15 /\ f.function \in 0 .. 15 /\ f.id \in uint8_t
  BY FrameFacts
<1>2. rest \in Seq(uint8_t)
  BY <1>1, TuplesBytes
<1>3. 16 * f.function + n \in uint8_t
  <2> DEFINE high == f.function
  <2>1. n \in 0 .. 15 /\ high \in 0 .. 15
    BY <1>1
  <2> HIDE DEF n, high
  <2>2. 16 * high + n \in 0 .. 255
    BY <2>1
  <2> QED  BY <2>2 DEF uint8_t, high
<1>4. first \in Seq(uint8_t) /\ Len(first) = 2 /\ first[1] = 16 * f.function + n /\ first[2] = f.id
  <2> HIDE DEF n
  <2> QED  BY <1>1, <1>3
<1>5. NbpBody(f, count) = first \o rest
  BY Zenon DEF NbpBody
<1> HIDE DEF first, rest, n
<1>6. /\ first \o rest \in Seq(uint8_t) /\ Len(first \o rest) = 2 + Len(rest)
      /\ (first \o rest)[1] = first[1] /\ (first \o rest)[2] = first[2]
      /\ \A i \in 1 .. Len(rest) : (first \o rest)[2 + i] = rest[i]
  <2>1. 1 \in 1 .. Len(first) /\ 2 \in 1 .. Len(first)
    BY <1>4
  <2>2. /\ first \o rest \in Seq(uint8_t) /\ Len(first \o rest) = Len(first) + Len(rest)
        /\ \A i \in 1 .. Len(first) : (first \o rest)[i] = first[i]
        /\ \A i \in 1 .. Len(rest) : (first \o rest)[Len(first) + i] = rest[i]
    <3>1. first \in Seq(uint8_t)
      BY <1>4
    <3> QED  BY <1>2, <3>1, Concat
  <2> QED  BY <1>4, <2>1, <2>2
<1> QED  BY <1>4, <1>5, <1>6 DEF rest, n

(* Two bits of a function and six of flags are a byte, and again two bits.  *)
LEMMA ControlByte ==
  ASSUME NEW function \in 0 .. 3, NEW flags \in 0 .. 63
  PROVE  /\ 64 * function + flags \in 0 .. 255
         /\ (64 * function + flags) \div 64 = function
BY SMT

(* Of ATP, what comes before the payload.                                   *)
LEMMA AtpBytes ==
  ASSUME NEW f \in Frames, IsAtp(f)
  PROVE  /\ Body(f) = (<<64 * f.function + f.flags>> \o f.atp) \o f.payload
         /\ <<64 * f.function + f.flags>> \o f.atp \in Seq(uint8_t)
         /\ Len(<<64 * f.function + f.flags>> \o f.atp) = 8
         /\ (<<64 * f.function + f.flags>> \o f.atp)[1] = 64 * f.function + f.flags
         /\ f.payload \in Seq(uint8_t)
<1> DEFINE first == 64 * f.function + f.flags
           one == <<first>>
<1>1. /\ f.atp \in Seq(uint8_t) /\ Len(f.atp) = 7 /\ f.payload \in Seq(uint8_t)
      /\ f.function \in 0 .. 3 /\ f.flags \in 0 .. 63 /\ f.ddpType = 3
  BY FrameFacts DEF IsAtp
<1>2. Body(f) = (one \o f.atp) \o f.payload
  <2>1. ~IsNbp(f) /\ IsAtp(f)
    BY <1>1 DEF IsNbp
  <2> QED  BY <2>1 DEF Body
<1>3. first \in uint8_t
  BY <1>1, ControlByte DEF uint8_t
<1> HIDE DEF first
<1>4. one \in Seq(uint8_t) /\ Len(one) = 1 /\ one[1] = first
  BY <1>3
<1> HIDE DEF one
<1>5. /\ one \o f.atp \in Seq(uint8_t) /\ Len(one \o f.atp) = Len(one) + Len(f.atp)
      /\ \A i \in 1 .. Len(one) : (one \o f.atp)[i] = one[i]
  <2>1. one \in Seq(uint8_t) /\ f.atp \in Seq(uint8_t)
    BY <1>1, <1>4
  <2> QED  BY <2>1, Concat
<1>6. Len(one \o f.atp) = 8 /\ (one \o f.atp)[1] = first
  <2>1. 1 \in 1 .. Len(one)
    BY <1>4
  <2> QED  BY <1>1, <1>4, <1>5, <2>1
<1> QED  BY Zenon, <1>1, <1>2, <1>5, <1>6 DEF one, first

LEMMA BodyBytes ==
  ASSUME NEW f \in Frames
  PROVE  Body(f) \in Seq(uint8_t) /\ Len(Body(f)) \in Nat
<1>1. Body(f) \in Seq(uint8_t)
  <2>1. CASE IsNbp(f)
    <3>1. Len(f.tuples) \in 0 .. Len(f.tuples)
      BY FrameFacts
    <3>2. Body(f) = NbpBody(f, Len(f.tuples))
      BY <2>1 DEF Body, IsNbp, IsAtp
    <3> QED  BY <3>1, <3>2, NbpBytes
  <2>2. CASE IsAtp(f)
    <3> DEFINE head == <<64 * f.function + f.flags>> \o f.atp
    <3>1. Body(f) = head \o f.payload /\ head \in Seq(uint8_t) /\ f.payload \in Seq(uint8_t)
      BY <2>2, AtpBytes
    <3> HIDE DEF head
    <3>2. head \o f.payload \in Seq(uint8_t)
      BY <3>1, Concat
    <3> QED  BY Zenon, <3>1, <3>2
  <2>3. CASE ~IsNbp(f) /\ ~IsAtp(f)
    BY <2>3, FrameFacts DEF Body
  <2> QED  BY <2>1, <2>2, <2>3
<1>2. Len(Body(f)) \in Nat
  BY <1>1
<1> QED  BY <1>1, <1>2

(* The fields that DDP adds, where the accessors look for them.             *)
LEMMA DdpHeaderBytes ==
  ASSUME NEW f \in Frames
  PROVE  /\ DdpHeader(f) \in Seq(uint8_t)
         /\ f.type = 1 => /\ Len(DdpHeader(f)) = 3
                          /\ DdpHeader(f)[1] = f.socket /\ DdpHeader(f)[3] = f.ddpType
         /\ f.type = 2 => /\ Len(DdpHeader(f)) = 11 /\ DdpHeader(f)[7] = f.node
                          /\ DdpHeader(f)[9] = f.socket /\ DdpHeader(f)[11] = f.ddpType
         /\ f.type \notin {1, 2} => Len(DdpHeader(f)) = 0
<1>1. /\ f.node \in uint8_t /\ f.srcNode \in uint8_t /\ f.socket \in uint8_t
      /\ f.srcSocket \in uint8_t /\ f.ddpType \in uint8_t
      /\ f.routing \in Seq(uint8_t) /\ Len(f.routing) = 6
  BY ZenonT(60), FrameFacts
<1>2. CASE f.type = 1
  <2>1. DdpHeader(f) = <<f.socket, f.srcSocket, f.ddpType>>
    BY <1>2 DEF DdpHeader
  <2> QED  BY <1>1, <1>2, <2>1
<1>3. CASE f.type = 2
  <2> DEFINE last == <<f.node, f.srcNode, f.socket, f.srcSocket, f.ddpType>>
             d == f.routing \o last
  <2>1. DdpHeader(f) = d
    BY <1>3 DEF DdpHeader
  <2>2. /\ last \in Seq(uint8_t) /\ Len(last) = 5
        /\ last[1] = f.node /\ last[3] = f.socket /\ last[5] = f.ddpType
    BY <1>1
  <2> HIDE DEF last
  <2>3. /\ d \in Seq(uint8_t) /\ Len(d) = Len(f.routing) + Len(last)
        /\ \A i \in 1 .. Len(last) : d[Len(f.routing) + i] = last[i]
    <3>1. last \in Seq(uint8_t) /\ f.routing \in Seq(uint8_t)
      BY <1>1, <2>2
    <3> QED  BY <3>1, Concat
  <2> HIDE DEF d
  <2>4. Len(d) = 11 /\ d[6 + 1] = last[1] /\ d[6 + 3] = last[3] /\ d[6 + 5] = last[5]
    <3>1. \A i \in 1 .. 5 : d[6 + i] = last[i]
      BY <1>1, <2>2, <2>3
    <3>2. Len(d) = 11
      BY <1>1, <2>2, <2>3
    <3> QED  BY <3>1, <3>2
  <2>5. d[7] = f.node /\ d[9] = f.socket /\ d[11] = f.ddpType
    BY <2>2, <2>4
  <2>6. 2 # 1 /\ f.type \in {1, 2}
    BY <1>3
  <2> QED  BY Zenon, <1>3, <2>1, <2>3, <2>4, <2>5, <2>6
<1>4. CASE f.type \notin {1, 2}
  BY <1>4 DEF DdpHeader
<1> QED  BY <1>2, <1>3, <1>4

LEMMA HeaderLengths ==
  ASSUME NEW f \in Frames
  PROVE  /\ HeaderLength(f) \in {5, 8, 16} /\ IsDdp(f) \in BOOLEAN /\ IsControl(f) \in BOOLEAN
         /\ f.type = 1 => IsDdp(f) /\ HeaderLength(f) = 8
         /\ f.type = 2 => IsDdp(f) /\ HeaderLength(f) = 16
         /\ IsDdp(f) => f.type \in {1, 2} /\ HeaderLength(f) \in {8, 16} /\ ~IsControl(f)
         /\ f.type \in 0 .. 255 /\ (IsControl(f) <=> f.type >= 128)
<1> DEFINE n == Len(DdpHeader(f))
           type == f.type
<1>1. /\ type = 1 => n = 3
      /\ type = 2 => n = 11
      /\ type \notin {1, 2} => n = 0
  BY DdpHeaderBytes
<1>2. type \in 0 .. 255
  BY FrameFacts DEF uint8_t
<1>3. HeaderLength(f) = 5 + n /\ (IsDdp(f) <=> type \in {1, 2}) /\ (IsControl(f) <=> type >= 128)
  BY DEF HeaderLength, IsDdp, IsControl
<1> HIDE DEF n, type
<1>4. /\ 5 + n \in {5, 8, 16}
      /\ type = 1 => 5 + n = 8
      /\ type = 2 => 5 + n = 16
      /\ type \in {1, 2} => 5 + n \in {8, 16} /\ ~(type >= 128)
  BY <1>1, <1>2
<1>5. IsDdp(f) \in BOOLEAN /\ IsControl(f) \in BOOLEAN
  BY DEF IsDdp, IsControl
<1> QED  BY <1>2, <1>3, <1>4, <1>5 DEF type

(* What is the length of a frame with one, and of what it has after its     *)
(* first three bytes.                                                       *)
LengthValues == 0 .. 1023

FrameLimits(f) ==
  /\ Len(Body(f)) \in 0 .. 598 /\ HeaderLength(f) + Len(Body(f)) \in 5 .. 603
  /\ HeaderLength(f) - 3 + Len(Body(f)) \in LengthValues

LEMMA FrameLength ==
  ASSUME NEW f \in Frames, ~IsControl(f)
  PROVE  FrameLimits(f)
<1> DEFINE size == HeaderLength(f)
           n == Len(Body(f))
<1>1. size \in {5, 8, 16} /\ n \in Nat
  BY HeaderLengths, BodyBytes
<1>2. size + n <= 603
  BY FrameFacts
<1> HIDE DEF size, n
<1>3. n \in 0 .. 598 /\ size + n \in 5 .. 603 /\ size - 3 + n \in LengthValues
  BY <1>1, <1>2 DEF LengthValues
<1> QED  BY Zenon, <1>3 DEF size, n, FrameLimits

(* Where what feed, apps and udp_tx look at is in a frame.                  *)
HeaderFields(f, bytes) ==
  /\ bytes[1] = f.dst /\ bytes[3] = f.type
  /\ f.type = 1 => bytes[6] = f.socket /\ bytes[8] = f.ddpType
  /\ f.type = 2 => bytes[12] = f.node /\ bytes[14] = f.socket /\ bytes[16] = f.ddpType

LengthField(bytes) == 256 * (bytes[4] % 4) + bytes[5]

(* Whatever is in the six bits before the length, it is read as it is.      *)
LengthIn(upper, lower, n) ==
  upper \in 0 .. 255 /\ lower \in 0 .. 255 /\ 256 * (upper % 4) + lower = n

LEMMA LengthBytes ==
  ASSUME NEW high \in 0 .. 63, NEW n \in LengthValues
  PROVE  LengthIn(4 * high + (n \div 256), n % 256, n)
<1> DEFINE q == n \div 256
<1>1. q \in 0 .. 3 /\ n % 256 \in 0 .. 255 /\ 256 * q + (n % 256) = n
  BY SMT DEF LengthValues
<1> HIDE DEF q
<1>2. 4 * high + q \in 0 .. 255 /\ (4 * high + q) % 4 = q
  BY SMT, <1>1
<1>3. 256 * ((4 * high + q) % 4) + (n % 256) = n
  BY ZenonT(60), <1>1, <1>2
<1> QED  BY Zenon, <1>1, <1>2, <1>3 DEF q, LengthIn

(* A header has its fields where HeaderFields looks, and tells the length.  *)
LEMMA HeaderBytes ==
  ASSUME NEW f \in Frames, NEW n \in LengthValues
  PROVE  /\ Header(f, n) \in Seq(uint8_t) /\ Len(Header(f, n)) = HeaderLength(f)
         /\ HeaderFields(f, Header(f, n))
         /\ LengthField(Header(f, n)) = n
<1> DEFINE upper == 4 * f.high + (n \div 256)
           lower == n % 256
           link == <<f.dst, f.src, f.type, upper, lower>>
           d == DdpHeader(f)
           h == link \o d
<1>1. /\ f.dst \in uint8_t /\ f.src \in uint8_t /\ f.type \in uint8_t
      /\ d \in Seq(uint8_t) /\ HeaderLength(f) = 5 + Len(d)
  BY FrameFacts, DdpHeaderBytes DEF HeaderLength
<1>2. upper \in uint8_t /\ lower \in uint8_t /\ 256 * (upper % 4) + lower = n
  <2> DEFINE high == f.high
  <2>1. high \in 0 .. 63
    BY FrameFacts
  <2> HIDE DEF high
  <2>2. LengthIn(4 * high + (n \div 256), n % 256, n)
    BY Zenon, <2>1, LengthBytes
  <2> QED  BY Zenon, <2>2 DEF LengthIn, uint8_t, high
<1>3. Header(f, n) = h
  BY Zenon DEF Header
<1> HIDE DEF upper, lower
<1>4. /\ link \in Seq(uint8_t) /\ Len(link) = 5
      /\ link[1] = f.dst /\ link[3] = f.type /\ link[4] = upper /\ link[5] = lower
  BY <1>1, <1>2
<1> HIDE DEF link, d
<1>5. /\ h \in Seq(uint8_t) /\ Len(h) = Len(link) + Len(d)
      /\ \A i \in 1 .. Len(link) : h[i] = link[i]
      /\ \A i \in 1 .. Len(d) : h[Len(link) + i] = d[i]
  <2>1. link \in Seq(uint8_t) /\ d \in Seq(uint8_t)
    BY <1>1, <1>4
  <2> QED  BY <2>1, Concat
<1> HIDE DEF h
<1>6. /\ Len(h) = 5 + Len(d) /\ \A i \in 1 .. 5 : h[i] = link[i]
      /\ \A i \in 1 .. Len(d) : h[5 + i] = d[i]
  BY <1>4, <1>5
<1>7. h[1] = f.dst /\ h[3] = f.type /\ h[4] = upper /\ h[5] = lower
  BY <1>4, <1>6
<1>8. f.type = 1 => h[6] = f.socket /\ h[8] = f.ddpType
  <2> SUFFICES ASSUME f.type = 1 PROVE h[6] = f.socket /\ h[8] = f.ddpType
    OBVIOUS
  <2>1. Len(d) = 3 /\ d[1] = f.socket /\ d[3] = f.ddpType
    BY DdpHeaderBytes DEF d
  <2>2. h[5 + 1] = d[1] /\ h[5 + 3] = d[3]
    <3>1. 1 \in 1 .. Len(d) /\ 3 \in 1 .. Len(d)
      BY <2>1
    <3> QED  BY Zenon, <1>6, <3>1
  <2> QED  BY <2>1, <2>2
<1>9. f.type = 2 => h[12] = f.node /\ h[14] = f.socket /\ h[16] = f.ddpType
  <2> SUFFICES ASSUME f.type = 2 PROVE h[12] = f.node /\ h[14] = f.socket /\ h[16] = f.ddpType
    OBVIOUS
  <2>1. Len(d) = 11 /\ d[7] = f.node /\ d[9] = f.socket /\ d[11] = f.ddpType
    BY DdpHeaderBytes DEF d
  <2>2. h[5 + 7] = d[7] /\ h[5 + 9] = d[9] /\ h[5 + 11] = d[11]
    <3>1. 7 \in 1 .. Len(d) /\ 9 \in 1 .. Len(d) /\ 11 \in 1 .. Len(d)
      BY <2>1
    <3> QED  BY Zenon, <1>6, <3>1
  <2> QED  BY <2>1, <2>2
<1>10. HeaderFields(f, h)
  BY Zenon, <1>7, <1>8, <1>9 DEF HeaderFields
<1>11. LengthField(h) = n
  BY Zenon, <1>2, <1>7 DEF LengthField
<1> QED  BY Zenon, <1>1, <1>3, <1>5, <1>6, <1>10, <1>11

(* The bytes of a frame with a length: the header's and those of the rest.  *)
DataBytes(f, bytes) ==
  /\ HeaderFields(f, bytes)
  /\ LengthField(bytes) = HeaderLength(f) - 3 + Len(Body(f))
  /\ \A i \in 1 .. Len(Body(f)) : bytes[HeaderLength(f) + i] = Body(f)[i]

LEMMA HeaderStays ==
  ASSUME NEW f \in Frames, NEW a, NEW b,
         \A i \in 1 .. HeaderLength(f) : a[i] = b[i]
  PROVE  /\ HeaderFields(f, a) => HeaderFields(f, b)
         /\ LengthField(a) = LengthField(b)
<1>1. a[1] = b[1] /\ a[3] = b[3] /\ a[4] = b[4] /\ a[5] = b[5]
  <2>1. 1 \in 1 .. HeaderLength(f) /\ 3 \in 1 .. HeaderLength(f)
        /\ 4 \in 1 .. HeaderLength(f) /\ 5 \in 1 .. HeaderLength(f)
    BY HeaderLengths
  <2> QED  BY Zenon, <2>1
<1>2. f.type = 1 => a[6] = b[6] /\ a[8] = b[8]
  <2> SUFFICES ASSUME f.type = 1 PROVE a[6] = b[6] /\ a[8] = b[8]
    OBVIOUS
  <2>1. HeaderLength(f) = 8
    BY HeaderLengths
  <2>2. 6 \in 1 .. HeaderLength(f) /\ 8 \in 1 .. HeaderLength(f)
    BY <2>1
  <2> QED  BY Zenon, <2>2
<1>3. f.type = 2 => a[12] = b[12] /\ a[14] = b[14] /\ a[16] = b[16]
  <2> SUFFICES ASSUME f.type = 2 PROVE a[12] = b[12] /\ a[14] = b[14] /\ a[16] = b[16]
    OBVIOUS
  <2>1. HeaderLength(f) = 16
    BY HeaderLengths
  <2>2. 12 \in 1 .. HeaderLength(f) /\ 14 \in 1 .. HeaderLength(f) /\ 16 \in 1 .. HeaderLength(f)
    BY <2>1
  <2> QED  BY Zenon, <2>2
<1> QED  BY Zenon, <1>1, <1>2, <1>3 DEF HeaderFields, LengthField

LEMMA EncodeBytes ==
  ASSUME NEW f \in Frames
  PROVE  /\ Encode(f) \in Seq(uint8_t)
         /\ ~IsControl(f) => Len(Encode(f)) = HeaderLength(f) + Len(Body(f)) /\ DataBytes(f, Encode(f))
         /\ IsControl(f) => Len(Encode(f)) = 3 /\ Encode(f)[1] = f.dst /\ Encode(f)[3] = f.type
<1>1. CASE ~IsControl(f)
  <2> DEFINE body == Body(f)
             size == HeaderLength(f)
             n == size - 3 + Len(body)
             head == Header(f, n)
  <2>1. body \in Seq(uint8_t) /\ n \in LengthValues
    <3>1. n \in LengthValues
      BY Zenon, <1>1, FrameLength DEF FrameLimits
    <3> QED  BY BodyBytes, <3>1
  <2>2. head \in Seq(uint8_t) /\ Len(head) = size /\ HeaderFields(f, head) /\ LengthField(head) = n
    <3> HIDE DEF n
    <3> QED  BY Zenon, <2>1, HeaderBytes
  <2>3. Encode(f) = head \o body
    BY <1>1 DEF Encode
  <2> HIDE DEF head, body, n, size
  <2>5. /\ head \o body \in Seq(uint8_t) /\ Len(head \o body) = Len(head) + Len(body)
        /\ \A i \in 1 .. Len(head) : (head \o body)[i] = head[i]
        /\ \A i \in 1 .. Len(body) : (head \o body)[Len(head) + i] = body[i]
    <3>1. head \in Seq(uint8_t)
      BY <2>2
    <3> QED  BY <2>1, <3>1, Concat
  <2>6. \A i \in 1 .. size : head[i] = (head \o body)[i]
    BY <2>2, <2>5
  <2>7. HeaderFields(f, head \o body) /\ LengthField(head \o body) = n
    <3> DEFINE whole == head \o body
    <3>1. \A i \in 1 .. size : head[i] = whole[i]
      BY <2>6
    <3> HIDE DEF whole
    <3>2. (HeaderFields(f, head) => HeaderFields(f, whole)) /\ LengthField(head) = LengthField(whole)
      BY <3>1, HeaderStays DEF size
    <3> QED  BY <2>2, <3>2 DEF whole
  <2>8. \A i \in 1 .. Len(body) : (head \o body)[size + i] = body[i]
    BY <2>2, <2>5
  <2>9. DataBytes(f, Encode(f))
    BY Zenon, <2>3, <2>7, <2>8 DEF DataBytes, size, body, n
  <2> QED  BY Zenon, <1>1, <2>2, <2>3, <2>5, <2>9 DEF size, body
<1>2. CASE IsControl(f)
  <2>1. f.type \in uint8_t /\ f.dst \in uint8_t /\ f.src \in uint8_t
    BY FrameFacts
  <2>2. Encode(f) = <<f.dst, f.src, f.type>>
    BY <1>2 DEF Encode
  <2> QED  BY <1>2, <2>1, <2>2
<1> QED  BY <1>1, <1>2

(* A frame as it is on LocalTalk.                                           *)
Wire(f) == WithFcs(Encode(f))

(* All that the proofs below use of it.                                     *)
LEMMA WireBytes ==
  ASSUME NEW f \in Frames
  PROVE  /\ Wire(f) \in Seq(uint8_t) /\ Len(Wire(f)) \in 5 .. 605
         /\ Len(Wire(f)) = Len(Encode(f)) + 2
         /\ SubSeq(Wire(f), 1, Len(Wire(f)) - 2) = Encode(f)
         /\ Wire(f)[1] = f.dst /\ Wire(f)[3] = f.type
         /\ ~IsControl(f) => /\ Len(Wire(f)) = HeaderLength(f) + Len(Body(f)) + 2
                             /\ DataBytes(f, Wire(f))
                             /\ LengthField(Wire(f)) = Len(Wire(f)) - 5
         /\ IsControl(f) => Len(Wire(f)) = 5
<1> DEFINE e == Encode(f)
           fcs == Fcs(crc_state_append_all(crc_state_init, e))
           w == e \o fcs
           n == Len(e)
<1>1. /\ e \in Seq(uint8_t)
      /\ ~IsControl(f) => n = HeaderLength(f) + Len(Body(f)) /\ DataBytes(f, e)
      /\ IsControl(f) => n = 3 /\ e[1] = f.dst /\ e[3] = f.type
  BY EncodeBytes
<1>2. Wire(f) = w /\ fcs \in Seq(uint8_t)
  <2> HIDE DEF fcs
  <2>1. WithFcs(e) = e \o fcs /\ fcs \in Seq(uint8_t)
    <3> HIDE DEF e
    <3> QED  BY <1>1, WithFcsIs DEF fcs
  <2> QED  BY <2>1 DEF Wire
<1>3. Len(fcs) = 2
  BY DEF Fcs
<1>4. /\ HeaderLength(f) \in {5, 8, 16}
      /\ ~IsControl(f) => Len(Body(f)) \in 0 .. 598 /\ HeaderLength(f) + Len(Body(f)) \in 5 .. 603
  <2>1. HeaderLength(f) \in {5, 8, 16}
    BY HeaderLengths
  <2>2. ASSUME ~IsControl(f)
        PROVE  Len(Body(f)) \in 0 .. 598 /\ HeaderLength(f) + Len(Body(f)) \in 5 .. 603
    BY ZenonT(60), <2>2, FrameLength DEF FrameLimits
  <2> QED  BY <2>1, <2>2
<1> HIDE DEF e, fcs
<1>5. /\ w \in Seq(uint8_t) /\ Len(w) = Len(e) + Len(fcs) /\ Len(e) \in Nat
      /\ \A i \in 1 .. Len(e) : w[i] = e[i]
  BY <1>1, <1>2, Concat
<1> HIDE DEF w
<1>6. Len(w) = n + 2 /\ n \in Nat /\ \A i \in 1 .. n : w[i] = e[i]
  BY <1>3, <1>5
<1>7. SubSeq(w, 1, n) = e
  <2>1. SubSeq(w, 1, n) \in Seq(uint8_t) /\ Len(SubSeq(w, 1, n)) = n
        /\ \A i \in 1 .. n : SubSeq(w, 1, n)[i] = w[i]
    <3> HIDE DEF n
    <3> QED  BY <1>5, <1>6
  <2>2. \A i \in 1 .. Len(e) : SubSeq(w, 1, n)[i] = e[i]
    BY <1>6, <2>1
  <2> DEFINE s == SubSeq(w, 1, n)
  <2>3. s \in Seq(uint8_t) /\ Len(s) = Len(e) /\ \A i \in 1 .. Len(e) : s[i] = e[i]
    BY <2>1, <2>2
  <2> HIDE DEF s
  <2>4. s = e
    BY <1>1, <2>3
  <2> QED  BY <2>4 DEF s
<1> HIDE DEF n
<1>8. CASE ~IsControl(f)
  <2> DEFINE size == HeaderLength(f)
             rest == Len(Body(f))
  <2>1. /\ size \in {5, 8, 16} /\ rest \in 0 .. 598 /\ size + rest \in 5 .. 603
        /\ n = size + rest /\ DataBytes(f, e)
    BY <1>1, <1>4, <1>8
  <2> HIDE DEF size, rest
  <2>2. \A i \in 1 .. size : i \in 1 .. n
    BY <2>1
  <2>3. \A i \in 1 .. size : e[i] = w[i]
    BY <1>6, <2>2
  <2>4. (HeaderFields(f, e) => HeaderFields(f, w)) /\ LengthField(e) = LengthField(w)
    <3>1. \A i \in 1 .. HeaderLength(f) : e[i] = w[i]
      BY <2>3 DEF size
    <3> QED  BY <3>1, HeaderStays
  <2>5. HeaderFields(f, w) /\ LengthField(w) = size - 3 + rest
    BY <2>1, <2>4 DEF DataBytes, size, rest
  <2>6. \A i \in 1 .. rest : w[size + i] = Body(f)[i]
    <3> SUFFICES ASSUME NEW i \in 1 .. rest PROVE w[size + i] = Body(f)[i]
      OBVIOUS
    <3>1. size + i \in 1 .. n
      BY <2>1
    <3>2. e[size + i] = Body(f)[i]
      BY <2>1 DEF DataBytes, size, rest
    <3> QED  BY <1>6, <3>1, <3>2
  <2>7. DataBytes(f, w)
    BY <2>5, <2>6 DEF DataBytes, size, rest
  <2>8. Len(w) = size + rest + 2 /\ LengthField(w) = Len(w) - 5 /\ Len(w) \in 5 .. 605 /\ Len(w) - 2 = n
    BY <1>6, <2>1, <2>5
  <2>9. w[1] = f.dst /\ w[3] = f.type
    BY <2>5 DEF HeaderFields
  <2> QED  BY <1>2, <1>5, <1>6, <1>7, <1>8, <2>7, <2>8, <2>9 DEF size, rest, n, e
<1>9. CASE IsControl(f)
  <2>1. n = 3 /\ e[1] = f.dst /\ e[3] = f.type
    BY <1>1, <1>9
  <2>2. w[1] = e[1] /\ w[3] = e[3]
    BY <1>6, <2>1
  <2>3. Len(w) = 5 /\ Len(w) \in 5 .. 605 /\ Len(w) - 2 = n
    BY <1>6, <2>1
  <2> QED  BY <1>2, <1>5, <1>6, <1>7, <1>9, <2>1, <2>2, <2>3 DEF n, e
<1> QED  BY <1>8, <1>9

-----------------------------------------------------------------------------
(* The invariant: what a packet, its CRC and what apps made of it are, by   *)
(* what of the frame has come.                                              *)
Arrived == SubSeq(wire, 1, taken)

Datagram(p) == SubSeq(<<0, 0, 0, 0>> \o p, 1, Len(p) + 2)

FrameInv ==
  /\ frame \in Frames /\ wire = Wire(frame) /\ taken \in 0 .. Len(wire)
  /\ at \in {"feed", "apps", "udp_tx", "udp_rx", "uart_tx",
             "rebooted", "dropped", "refused", "sent"}
  /\ crc = crc_state_append_all(crc_state_init, Arrived)

PacketInv ==
  /\ at \in {"feed", "apps", "udp_tx", "rebooted"} => packet = Arrived
  /\ at = "udp_rx" => packet = Datagram(Arrived)
  /\ at = "dropped" => \/ packet = Arrived /\ RtsOrCts(Arrived)
                       \/ packet = Datagram(Arrived) /\ Len(Datagram(Arrived)) <= 7
  /\ at \in {"uart_tx", "sent", "refused"} =>
       packet = ToPacket(Datagram(Arrived)) /\ Len(Datagram(Arrived)) > 7
  /\ at = "sent" => tashtalk_tx_validate(packet)
  /\ at = "refused" => ~tashtalk_tx_validate(packet)

AppsInv ==
  /\ at \in {"rebooted", "udp_tx"} => looked = is_our_nbp_lkup(Arrived, NbpType)
  /\ at = "rebooted" => handle_configuration_packet(Arrived)
  /\ at = "udp_tx" => ~handle_configuration_packet(Arrived)

Inv == FrameInv /\ PacketInv /\ AppsInv

LEMMA Beginning ==
  ASSUME NEW S, NEW s \in Seq(S), NEW n \in 0 .. Len(s)
  PROVE  /\ SubSeq(s, 1, n) \in Seq(S) /\ Len(SubSeq(s, 1, n)) = n
         /\ \A i \in 1 .. n : SubSeq(s, 1, n)[i] = s[i]
         /\ SubSeq(s, 1, 0) = <<>> /\ SubSeq(s, 1, Len(s)) = s
         /\ n < Len(s) => s[n + 1] \in S /\ SubSeq(s, 1, n + 1) = Append(SubSeq(s, 1, n), s[n + 1])
<1>1. Len(s) \in Nat
  OBVIOUS
<1>2. /\ SubSeq(s, 1, n) \in Seq(S) /\ Len(SubSeq(s, 1, n)) = n
      /\ \A i \in 1 .. n : SubSeq(s, 1, n)[i] = s[i]
  BY <1>1
<1>3. SubSeq(s, 1, 0) = <<>>
  BY <1>1
<1>4. SubSeq(s, 1, Len(s)) = s
  BY <1>1
<1>5. ASSUME n < Len(s)
      PROVE  s[n + 1] \in S /\ SubSeq(s, 1, n + 1) = Append(SubSeq(s, 1, n), s[n + 1])
  <2> DEFINE a == SubSeq(s, 1, n)
             b == SubSeq(s, 1, n + 1)
             x == s[n + 1]
  <2>1. n + 1 \in 1 .. Len(s)
    BY <1>1, <1>5
  <2>2. x \in S
    BY <2>1
  <2>3. b \in Seq(S) /\ Len(b) = n + 1 /\ \A i \in 1 .. n + 1 : b[i] = s[i]
    BY <1>1, <2>1
  <2> HIDE DEF a, b, x
  <2>4. Append(a, x) \in Seq(S) /\ Len(Append(a, x)) = n + 1
        /\ Append(a, x)[n + 1] = x /\ \A i \in 1 .. n : Append(a, x)[i] = a[i]
    BY <1>2, <2>2 DEF a
  <2>5. \A i \in 1 .. n + 1 : b[i] = Append(a, x)[i]
    <3> SUFFICES ASSUME NEW i \in 1 .. n + 1 PROVE b[i] = Append(a, x)[i]
      OBVIOUS
    <3>1. CASE i = n + 1
      BY <2>3, <2>4, <3>1 DEF x
    <3>2. CASE i # n + 1
      <4>1. i \in 1 .. n
        BY <3>2
      <4>2. b[i] = s[i] /\ a[i] = s[i]
        BY <1>2, <2>3, <4>1 DEF a
      <4> QED  BY <2>4, <4>1, <4>2
    <3> QED  BY <3>1, <3>2
  <2> DEFINE c == Append(a, x)
             m == n + 1
  <2>6. c \in Seq(S) /\ Len(c) = m /\ b \in Seq(S) /\ Len(b) = m /\ \A i \in 1 .. m : b[i] = c[i]
    BY <2>3, <2>4, <2>5
  <2> HIDE DEF c, m
  <2>7. b = c
    BY <2>6
  <2> QED  BY <2>2, <2>7 DEF a, b, c, x
<1> QED  BY <1>2, <1>3, <1>4, <1>5

LEMMA SomeLength ==
  ASSUME NEW n \in 5 .. 605
  PROVE  n \in Nat /\ 0 \in 0 .. n
OBVIOUS

LEMMA ArrivedBytes ==
  ASSUME FrameInv
  PROVE  /\ wire \in Seq(uint8_t) /\ Len(wire) \in 5 .. 605 /\ taken \in 0 .. Len(wire)
         /\ Len(wire) \in Nat /\ 0 \in 0 .. Len(wire)
         /\ Arrived \in Seq(uint8_t) /\ Len(Arrived) = taken
         /\ \A i \in 1 .. taken : Arrived[i] = wire[i]
<1>1. wire \in Seq(uint8_t) /\ Len(wire) \in 5 .. 605 /\ taken \in 0 .. Len(wire)
  BY ZenonT(60), WireBytes DEF FrameInv
<1>2. Len(wire) \in Nat /\ 0 \in 0 .. Len(wire)
  BY <1>1, SomeLength
<1> QED  BY ZenonT(60), <1>1, <1>2, Beginning DEF Arrived

LEMMA ArrivedSame ==
  ASSUME UNCHANGED <<wire, taken>>
  PROVE  Arrived' = Arrived
BY DEF Arrived

LEMMA InvInit == Init => Inv
<1> SUFFICES ASSUME Init PROVE Inv
  OBVIOUS
<1>1. /\ frame \in Frames /\ wire = Wire(frame) /\ packet = <<>>
      /\ crc = crc_state_init /\ at = "feed" /\ taken = 0
  BY DEF Init, Wire
<1>2. wire \in Seq(uint8_t) /\ 0 \in 0 .. Len(wire)
  <2>1. wire \in Seq(uint8_t) /\ Len(wire) \in 5 .. 605
    BY ZenonT(60), <1>1, WireBytes
  <2> QED  BY <2>1, SomeLength
<1>3. Arrived = <<>>
  <2>1. SubSeq(wire, 1, 0) = <<>>
    BY <1>2, Beginning
  <2> QED  BY <1>1, <2>1 DEF Arrived
<1>4. crc_state_append_all(crc_state_init, <<>>) = crc_state_init
  BY InitialRegister, AppendAllEmpty
<1> QED  BY Zenon, <1>1, <1>2, <1>3, <1>4 DEF Inv, FrameInv, PacketInv, AppsInv

LEMMA FeedStep ==
  ASSUME Inv, Feed
  PROVE  /\ Inv'
         /\ packet' = Append(packet, wire[taken + 1]) /\ wire[taken + 1] \in uint8_t
         /\ packet \in Seq(uint8_t) /\ crc \in crc_state_t
         /\ crc' = crc_state_append(crc, wire[taken + 1])
<1> DEFINE byte == wire[taken + 1]
<1>1. /\ FrameInv /\ packet = Arrived /\ at = "feed" /\ taken < Len(wire)
      /\ packet' = Append(packet, byte) /\ crc' = crc_state_append(crc, byte)
      /\ taken' = taken + 1 /\ UNCHANGED <<frame, wire, at, looked>>
  BY DEF Inv, PacketInv, Feed
<1>2. /\ wire \in Seq(uint8_t) /\ taken \in 0 .. Len(wire) /\ Len(wire) \in Nat
      /\ Arrived \in Seq(uint8_t)
  BY <1>1, ArrivedBytes
<1>3. byte \in uint8_t /\ Arrived' = Append(Arrived, byte)
  <2>1. byte \in uint8_t /\ SubSeq(wire, 1, taken + 1) = Append(SubSeq(wire, 1, taken), byte)
    BY <1>1, <1>2, Beginning
  <2> QED  BY <1>1, <2>1 DEF Arrived
<1>4. taken + 1 \in 0 .. Len(wire)
  BY <1>1, <1>2
<1> HIDE DEF byte
<1>5. crc = crc_state_append_all(crc_state_init, Arrived) /\ crc \in crc_state_t
  BY <1>1, <1>2, InitialRegister, AppendAllType DEF FrameInv
<1>6. crc_state_append_all(crc_state_init, Append(Arrived, byte)) = crc_state_append(crc, byte)
  BY <1>2, <1>3, <1>5, InitialRegister, AppendAllNext
<1>7. FrameInv'
  BY Zenon, <1>1, <1>3, <1>4, <1>6 DEF FrameInv
<1>8. PacketInv' /\ AppsInv'
  BY Zenon, <1>1, <1>3 DEF PacketInv, AppsInv
<1> QED  BY <1>1, <1>2, <1>3, <1>5, <1>7, <1>8 DEF Inv, byte

(* After Feed the frame and what has come of it stay as they are.           *)
LEMMA FrameStays ==
  ASSUME FrameInv, UNCHANGED <<frame, wire, crc, taken>>,
         at' \in {"feed", "apps", "udp_tx", "udp_rx", "uart_tx",
                  "rebooted", "dropped", "refused", "sent"}
  PROVE  FrameInv' /\ Arrived' = Arrived
BY ArrivedSame DEF FrameInv

LEMMA InvStep ==
  ASSUME Inv, [Next]_vars
  PROVE  Inv'
<1> USE DEF Inv
<1>1. CASE Feed
  BY <1>1, FeedStep
<1>2. CASE EndFrame
  <2>1. /\ at = "feed" /\ at' = "apps" /\ UNCHANGED <<frame, wire, packet, crc, looked, taken>>
    BY <1>2 DEF EndFrame
  <2>2. FrameInv' /\ Arrived' = Arrived
    BY <2>1, FrameStays
  <2> QED  BY Zenon, <2>1, <2>2 DEF PacketInv, AppsInv
<1>3. CASE apps
  <2>1. /\ at = "apps" /\ looked' = is_our_nbp_lkup(packet, NbpType)
        /\ at' = IF handle_configuration_packet(packet) THEN "rebooted" ELSE "udp_tx"
        /\ UNCHANGED <<frame, wire, packet, crc, taken>>
    BY <1>3 DEF apps
  <2>2. FrameInv' /\ Arrived' = Arrived
    BY <2>1, FrameStays
  <2>3. packet = Arrived
    BY <2>1 DEF PacketInv
  <2>4. PacketInv'
    BY Zenon, <2>1, <2>2, <2>3 DEF PacketInv
  <2>5. AppsInv'
    BY Zenon, <2>1, <2>2, <2>3 DEF AppsInv
  <2> QED  BY <2>2, <2>4, <2>5
<1>4. CASE udp_tx
  <2>1. /\ at = "udp_tx" /\ packet = Arrived
        /\ UNCHANGED <<frame, wire, crc, looked, taken>>
        /\ IF RtsOrCts(packet) THEN at' = "dropped" /\ UNCHANGED packet
           ELSE at' = "udp_rx" /\ packet' = Datagram(packet)
    BY <1>4 DEF udp_tx, PacketInv, Datagram
  <2>2. FrameInv' /\ Arrived' = Arrived
    BY <2>1, FrameStays
  <2> QED  BY Zenon, <2>1, <2>2 DEF PacketInv, AppsInv
<1>5. CASE udp_rx
  <2>1. /\ at = "udp_rx" /\ packet = Datagram(Arrived)
        /\ UNCHANGED <<frame, wire, crc, looked, taken>>
        /\ IF Len(packet) > 7 THEN at' = "uart_tx" /\ packet' = ToPacket(packet)
           ELSE at' = "dropped" /\ UNCHANGED packet
    BY <1>5 DEF udp_rx, PacketInv
  <2>2. FrameInv' /\ Arrived' = Arrived
    BY <2>1, FrameStays
  <2>3. ~(Len(packet) > 7) => Len(packet) <= 7
    <3>1. Len(packet) \in Nat
      <4>0. Arrived \in Seq(uint8_t)
        BY ArrivedBytes
      <4>1. Arrived \in Seq(uint8_t) /\ <<0, 0, 0, 0>> \in Seq(uint8_t)
        BY <4>0 DEF uint8_t
      <4>2. <<0, 0, 0, 0>> \o Arrived \in Seq(uint8_t) /\ Len(<<0, 0, 0, 0>> \o Arrived) = Len(Arrived) + 4
        BY <4>1
      <4>3. Datagram(Arrived) \in Seq(uint8_t)
        BY <4>1, <4>2 DEF Datagram
      <4> QED  BY <2>1, <4>3
    <3> QED  BY <3>1
  <2> QED  BY Zenon, <2>1, <2>2, <2>3 DEF PacketInv, AppsInv
<1>6. CASE uart_tx
  <2>1. /\ at = "uart_tx" /\ UNCHANGED <<frame, wire, packet, crc, looked, taken>>
        /\ at' = IF tashtalk_tx_validate(packet) THEN "sent" ELSE "refused"
    BY <1>6 DEF uart_tx
  <2>2. FrameInv' /\ Arrived' = Arrived
    BY <2>1, FrameStays
  <2> QED  BY Zenon, <2>1, <2>2 DEF PacketInv, AppsInv
<1>7. CASE Again
  <2>1. /\ packet' = <<>> /\ crc' = crc_state_init /\ at' = "feed"
        /\ taken' = 0 /\ UNCHANGED <<frame, wire>>
    BY <1>7 DEF Again
  <2>2. wire \in Seq(uint8_t) /\ 0 \in 0 .. Len(wire)
    BY ArrivedBytes
  <2>3. Arrived' = <<>>
    <3>1. SubSeq(wire, 1, 0) = <<>>
      BY <2>2, Beginning
    <3> QED  BY <2>1, <3>1 DEF Arrived
  <2>4. crc_state_append_all(crc_state_init, <<>>) = crc_state_init
    BY InitialRegister, AppendAllEmpty
  <2> QED  BY Zenon, <2>1, <2>2, <2>3, <2>4 DEF FrameInv, PacketInv, AppsInv
<1>8. CASE UNCHANGED vars
  <2>1. UNCHANGED <<frame, wire, packet, crc, at, looked, taken>>
    BY <1>8 DEF vars
  <2>2. FrameInv' /\ Arrived' = Arrived
    BY <2>1, FrameStays DEF FrameInv
  <2> QED  BY Zenon, <2>1, <2>2 DEF PacketInv, AppsInv
<1> QED  BY <1>1, <1>2, <1>3, <1>4, <1>5, <1>6, <1>7, <1>8 DEF Next

(* A packet is made of what has come of the frame, wherever it is, and its  *)
(* way is decided by that.                                                  *)
THEOREM PacketsInvariant == Spec => []Inv
BY InvInit, InvStep, PTL DEF Spec

-----------------------------------------------------------------------------
(* Datagrams.                                                               *)

LEMMA DatagramBytes ==
  ASSUME NEW p \in Seq(uint8_t)
  PROVE  /\ Datagram(p) \in Seq(uint8_t) /\ Len(Datagram(p)) = Len(p) + 2
         /\ Len(p) > 5 => /\ SubSeq(Datagram(p), 5, Len(p) + 2) = SubSeq(p, 1, Len(p) - 2)
                          /\ SubSeq(p, 1, Len(p) - 2) \in Seq(uint8_t)
<1> DEFINE n == Len(p)
           zeros == <<0, 0, 0, 0>>
           all == zeros \o p
           d == SubSeq(all, 1, n + 2)
<1>1. n \in Nat /\ zeros \in Seq(uint8_t) /\ Len(zeros) = 4
  <2>1. 0 \in uint8_t
    BY DEF uint8_t
  <2> QED  BY <2>1
<1>2. Datagram(p) = d
  BY Zenon DEF Datagram
<1> HIDE DEF zeros
<1>3. /\ all \in Seq(uint8_t) /\ Len(all) = 4 + n
      /\ \A i \in 1 .. n : all[4 + i] = p[i]
  <2> DEFINE four == Len(zeros)
  <2>1. /\ all \in Seq(uint8_t) /\ Len(all) = four + n
        /\ \A i \in 1 .. n : all[four + i] = p[i]
    <3>1. zeros \in Seq(uint8_t)
      BY <1>1
    <3> QED  BY <3>1, Concat
  <2>2. four = 4
    BY <1>1
  <2> HIDE DEF four, all
  <2> QED  BY <2>1, <2>2
<1> HIDE DEF all
<1>4. /\ d \in Seq(uint8_t) /\ Len(d) = n + 2
      /\ \A i \in 1 .. n + 2 : d[i] = all[i]
  <2>1. n + 2 \in 0 .. Len(all)
    BY <1>1, <1>3
  <2> DEFINE m == n + 2
  <2> HIDE DEF m, n
  <2>2. m \in 0 .. Len(all)
    BY <2>1 DEF m
  <2>3. /\ SubSeq(all, 1, m) \in Seq(uint8_t) /\ Len(SubSeq(all, 1, m)) = m
        /\ \A i \in 1 .. m : SubSeq(all, 1, m)[i] = all[i]
    BY <1>3, <2>2, Beginning
  <2> QED  BY <2>3 DEF m
<1> HIDE DEF d
<1>5. ASSUME n > 5
      PROVE  SubSeq(d, 5, n + 2) = SubSeq(p, 1, n - 2) /\ SubSeq(p, 1, n - 2) \in Seq(uint8_t)
  <2> DEFINE a == SubSeq(d, 5, n + 2)
             b == SubSeq(p, 1, n - 2)
             m == n - 2
  <2>1. m \in 0 .. n /\ m \in Nat /\ n + 2 - 5 + 1 = m
    BY <1>1, <1>5
  <2>2. b \in Seq(uint8_t) /\ Len(b) = m /\ \A i \in 1 .. m : b[i] = p[i]
    <3> HIDE DEF m
    <3>1. /\ SubSeq(p, 1, m) \in Seq(uint8_t) /\ Len(SubSeq(p, 1, m)) = m
          /\ \A i \in 1 .. m : SubSeq(p, 1, m)[i] = p[i]
      BY <2>1, Beginning DEF n
    <3> QED  BY <3>1 DEF m
  <2>3. a \in Seq(uint8_t) /\ Len(a) = m /\ \A i \in 1 .. m : a[i] = d[i + 4]
    <3>1. n + 2 \in Nat /\ 5 <= n + 2 + 1 /\ n + 2 <= Len(d)
      BY <1>1, <1>4, <1>5
    <3> HIDE DEF n
    <3>2. a \in Seq(uint8_t) /\ Len(a) = n + 2 - 5 + 1 /\ \A i \in 1 .. n + 2 - 5 + 1 : a[i] = d[5 + i - 1]
      BY <1>1, <1>4, <3>1
    <3>3. \A i \in 1 .. m : 5 + i - 1 = i + 4
      BY <2>1
    <3> HIDE DEF a, m
    <3> QED  BY <2>1, <3>2, <3>3
  <2>4. \A i \in 1 .. m : a[i] = b[i]
    <3> SUFFICES ASSUME NEW i \in 1 .. m PROVE a[i] = b[i]
      OBVIOUS
    <3>1. i + 4 \in 1 .. n + 2 /\ i \in 1 .. n /\ i + 4 = 4 + i
      BY <2>1
    <3> HIDE DEF a, b, m
    <3>2. a[i] = d[i + 4] /\ d[i + 4] = all[i + 4] /\ all[4 + i] = p[i] /\ b[i] = p[i]
      BY <1>3, <1>4, <2>2, <2>3, <3>1
    <3> QED  BY <3>1, <3>2
  <2> HIDE DEF a, b, m
  <2>5. a = b
    BY <2>2, <2>3, <2>4
  <2> QED  BY <2>2, <2>5 DEF a, b
<1> QED  BY Zenon, <1>2, <1>4, <1>5 DEF n

(* udp_rx of the other bridge gives what came of the frame, without its     *)
(* last two bytes, a frame check sequence of its own.                       *)
LEMMA ToPacketIs ==
  ASSUME NEW p \in Seq(uint8_t), Len(Datagram(p)) > 7
  PROVE  /\ Len(p) > 5
         /\ ToPacket(Datagram(p)) = WithFcs(SubSeq(p, 1, Len(p) - 2))
         /\ ToPacket(Datagram(p)) \in Seq(uint8_t) /\ Len(ToPacket(Datagram(p))) = Len(p)
         /\ \A i \in 1 .. Len(p) - 2 : ToPacket(Datagram(p))[i] = p[i]
<1> DEFINE d == Datagram(p)
           n == Len(p)
           m == n - 2
           rest == SubSeq(p, 1, m)
           fcs == Fcs(crc_state_append_all(crc_state_init, rest))
<1>1. n \in Nat /\ Len(d) = n + 2 /\ n > 5
  <2>1. n \in Nat /\ Len(d) = n + 2
    BY DatagramBytes
  <2> QED  BY <2>1
<1>2. SubSeq(d, 5, Len(d)) = rest /\ rest \in Seq(uint8_t)
  <2>1. SubSeq(Datagram(p), 5, Len(p) + 2) = SubSeq(p, 1, Len(p) - 2)
        /\ SubSeq(p, 1, Len(p) - 2) \in Seq(uint8_t)
    BY <1>1, DatagramBytes
  <2> QED  BY <1>1, <2>1
<1>3. ToPacket(d) = SubSeq(d, 5, Len(d)) \o Fcs(crc_state_append_all(crc_state_init, SubSeq(d, 5, Len(d))))
  BY Zenon DEF ToPacket, Fcs
<1>4. m \in 0 .. n
  BY <1>1
<1>5. Len(rest) = m /\ \A i \in 1 .. m : rest[i] = p[i]
  <2> HIDE DEF m
  <2> QED  BY <1>4, Beginning
<1> HIDE DEF rest, d
<1>6. ToPacket(d) = rest \o fcs
  BY Zenon, <1>2, <1>3
<1>7. WithFcs(rest) = rest \o fcs /\ fcs \in Seq(uint8_t)
  BY <1>2, WithFcsIs
<1>8. Len(fcs) = 2
  BY DEF Fcs
<1> HIDE DEF fcs
<1>9. rest \o fcs \in Seq(uint8_t) /\ Len(rest \o fcs) = Len(rest) + Len(fcs)
      /\ \A i \in 1 .. Len(rest) : (rest \o fcs)[i] = rest[i]
  BY <1>2, <1>7, Concat
<1>10. Len(rest \o fcs) = n
  BY <1>1, <1>5, <1>8, <1>9
<1>11. \A i \in 1 .. m : (rest \o fcs)[i] = p[i]
  <2> HIDE DEF m
  <2> QED  BY <1>5, <1>9
<1> QED  BY <1>1, <1>6, <1>7, <1>9, <1>10, <1>11 DEF d, rest

-----------------------------------------------------------------------------
(* The theorems.                                                            *)

(* Whatever the byte and the register, a step of feed through the table is  *)
(* eight steps of the division that a frame check sequence is.              *)
THEOREM TableIsDivision == Spec => CrcDivides
<1>1. ASSUME Inv, [Next]_vars, at = "feed", taken' > taken
      PROVE  crc' = Divide(crc, Last(packet'))
  <2>1. CASE Feed
    <3> DEFINE byte == wire[taken + 1]
               longer == Append(packet, byte)
    <3>1. /\ packet' = longer /\ byte \in uint8_t /\ packet \in Seq(uint8_t)
          /\ crc \in crc_state_t /\ crc' = crc_state_append(crc, byte)
      BY <1>1, <2>1, FeedStep
    <3> HIDE DEF byte
    <3>2. Len(longer) = Len(packet) + 1 /\ longer[Len(packet) + 1] = byte
      BY <3>1
    <3>3. Last(longer) = byte
      <4> HIDE DEF longer
      <4> QED  BY <3>2 DEF Last
    <3>4. crc_state_append(crc, byte) = Divide(crc, byte)
      BY <3>1, AppendDivides DEF uint8_t
    <3> HIDE DEF longer
    <3> QED  BY Zenon, <3>1, <3>3, <3>4
  <2>2. CASE ~Feed
    <3>1. UNCHANGED taken
      BY <1>1, <2>2 DEF Next, EndFrame, apps, udp_tx, udp_rx, uart_tx, Again, vars
    <3>2. taken \in Nat
      <4>1. FrameInv
        BY <1>1 DEF Inv
      <4>2. taken \in 0 .. Len(wire) /\ Len(wire) \in Nat
        BY <4>1, ArrivedBytes
      <4> QED  BY <4>2
    <3> QED  BY <1>1, <3>1, <3>2
  <2> QED  BY <2>1, <2>2
<1>2. Inv /\ [Next]_vars => [at = "feed" /\ taken' > taken => crc' = Divide(crc, Last(packet'))]_vars
  BY <1>1
<1> QED  BY <1>2, PacketsInvariant, PTL DEF Spec, CrcDivides

(* What there is of a packet, wherever it is.                               *)
LEMMA PacketBytes ==
  ASSUME Inv
  PROVE  packet \in Seq(uint8_t) /\ Len(packet) \in {taken, taken + 2}
<1>1. FrameInv /\ PacketInv
  BY DEF Inv
<1>2. Arrived \in Seq(uint8_t) /\ Len(Arrived) = taken
  BY <1>1, ArrivedBytes
<1>3. Datagram(Arrived) \in Seq(uint8_t) /\ Len(Datagram(Arrived)) = taken + 2
  BY <1>2, DatagramBytes
<1>4. CASE packet = Arrived
  BY <1>2, <1>4
<1>5. CASE packet = Datagram(Arrived)
  BY <1>3, <1>5
<1>6. CASE packet = ToPacket(Datagram(Arrived)) /\ Len(Datagram(Arrived)) > 7
  <2>1. packet \in Seq(uint8_t) /\ Len(packet) = Len(Arrived)
    BY <1>2, <1>6, ToPacketIs
  <2> QED  BY <1>2, <2>1
<1>7. \/ packet = Arrived \/ packet = Datagram(Arrived)
      \/ packet = ToPacket(Datagram(Arrived)) /\ Len(Datagram(Arrived)) > 7
  BY Zenon, <1>1 DEF FrameInv, PacketInv
<1> QED  BY <1>4, <1>5, <1>6, <1>7

LEMMA InvTypes ==
  ASSUME Inv
  PROVE  TypeOK
<1>1. FrameInv
  BY DEF Inv
<1>2. taken \in 0 .. Len(wire) /\ Len(wire) \in Nat /\ Arrived \in Seq(uint8_t)
  BY <1>1, ArrivedBytes
<1>3. packet \in Seq(uint8_t) /\ Len(packet) \in {taken, taken + 2}
  BY PacketBytes
<1>4. \A i \in DOMAIN packet : packet[i] \in 0 .. 255
  <2>1. \A i \in DOMAIN packet : packet[i] \in uint8_t
    BY <1>3
  <2> QED  BY <2>1 DEF uint8_t
<1>5. Len(packet) <= Len(wire) + 2
  BY <1>2, <1>3
<1>6. crc \in crc_state_t
  BY <1>1, <1>2, InitialRegister, AppendAllType DEF FrameInv
<1> QED  BY <1>1, <1>2, <1>4, <1>5, <1>6 DEF TypeOK, FrameInv

(* Every byte of every packet and datagram is one, rxstate.crc has 16 bits, *)
(* and neither gets longer than the frame with its four bytes in front.     *)
THEOREM PacketTypes == Spec => []TypeOK
BY PacketsInvariant, InvTypes, PTL

LEMMA AtWithin ==
  ASSUME NEW p, NEW o \in Nat, NEW k \in Nat, k = o + 1, Len(p) \in Nat
  PROVE  /\ k <= Len(p) => At(p, o) = p[k]
         /\ k > Len(p) => At(p, o) = 0
         /\ Has(p, o) <=> k <= Len(p)
<1>1. /\ k <= Len(p) => o < Len(p)
      /\ k > Len(p) => ~(o < Len(p))
      /\ Len(p) > o <=> k <= Len(p)
  OBVIOUS
<1> QED  BY <1>1 DEF At, Has

LEMMA WireLength ==
  ASSUME NEW f \in Frames
  PROVE  /\ Len(Wire(f)) \in Nat
         /\ ~IsControl(f) => Len(Wire(f)) \in 7 .. 605 /\ LengthField(Wire(f)) = Len(Wire(f)) - 5
         /\ IsControl(f) => Len(Wire(f)) = 5
<1> DEFINE size == HeaderLength(f)
           rest == Len(Body(f))
           n == Len(Wire(f))
<1>1. ~IsControl(f) => size + rest \in 5 .. 603
  <2> SUFFICES ASSUME ~IsControl(f) PROVE size + rest \in 5 .. 603
    OBVIOUS
  <2> QED  BY ZenonT(60), FrameLength DEF FrameLimits
<1>2. /\ n \in 5 .. 605
      /\ ~IsControl(f) => n = size + rest + 2 /\ LengthField(Wire(f)) = n - 5
      /\ IsControl(f) => n = 5
  BY ZenonT(60), WireBytes
<1> HIDE DEF n
<1>3. n \in Nat
  BY <1>2
<1>4. ~IsControl(f) => n \in 7 .. 605
  <2> DEFINE sum == size + rest
  <2>1. ~IsControl(f) => sum \in 5 .. 603 /\ n = sum + 2
    BY <1>1, <1>2
  <2> HIDE DEF sum
  <2> QED  BY <2>1
<1> QED  BY <1>2, <1>3, <1>4 DEF n

(* A frame that has come whole.                                             *)
LEMMA WholeAtUart ==
  ASSUME Inv, Whole, at \in {"uart_tx", "sent", "refused"}
  PROVE  packet = wire
<1>1. FrameInv /\ packet = ToPacket(Datagram(Arrived)) /\ Len(Datagram(Arrived)) > 7
  BY Zenon DEF Inv, PacketInv
<1>2. frame \in Frames /\ wire = Wire(frame) /\ wire \in Seq(uint8_t) /\ Len(wire) \in Nat
  BY <1>1, ArrivedBytes DEF FrameInv
<1>3. Arrived = wire
  <2>1. Len(wire) \in 0 .. Len(wire)
    BY <1>2
  <2>2. SubSeq(wire, 1, Len(wire)) = wire
    BY <1>2, <2>1, Beginning
  <2> QED  BY <2>2 DEF Arrived, Whole
<1>4. packet = WithFcs(SubSeq(wire, 1, Len(wire) - 2))
  BY <1>1, <1>2, <1>3, ToPacketIs
<1>5. SubSeq(wire, 1, Len(wire) - 2) = Encode(frame)
  BY <1>2, WireBytes
<1> QED  BY Zenon, <1>2, <1>4, <1>5 DEF Wire

LEMMA WireValid ==
  ASSUME NEW f \in Frames
  PROVE  tashtalk_tx_validate(Wire(f))
<1> DEFINE w == Wire(f)
           n == Len(w)
<1>1. /\ n \in Nat
      /\ ~IsControl(f) => n \in 7 .. 605 /\ LengthField(w) = n - 5
      /\ IsControl(f) => n = 5
  BY WireLength
<1>2. w[3] = f.type /\ n \in 5 .. 605
  BY ZenonT(60), WireBytes
<1>3. crc_state_ok(crc_state_append_all(crc_state_init, w))
  BY EncodeBytes, FcsIsGood DEF Wire
<1> HIDE DEF w
<1>4. At(w, 2) = w[3] /\ (n >= 7 => At(w, 3) = w[4] /\ At(w, 4) = w[5])
  <2>1. 3 <= n /\ (n >= 7 => 4 <= n /\ 5 <= n)
    <3> HIDE DEF n
    <3> QED  BY <1>1, <1>2
  <2>2. 3 = 2 + 1 /\ 4 = 3 + 1 /\ 5 = 4 + 1 /\ \A i \in {2, 3, 4, 5} : i \in Nat
    OBVIOUS
  <2>3. At(w, 2) = w[3]
    BY <1>1, <2>1, <2>2, AtWithin
  <2>4. n >= 7 => At(w, 3) = w[4]
    BY <1>1, <2>1, <2>2, AtWithin
  <2>5. n >= 7 => At(w, 4) = w[5]
    BY <1>1, <2>1, <2>2, AtWithin
  <2> QED  BY <2>3, <2>4, <2>5
<1>5. n >= 5 /\ n # 6 /\ (n >= 7 => 256 * (At(w, 3) % 4) + At(w, 4) = n - 5)
  <2>1. n >= 7 => LengthField(w) = n - 5
    <3> HIDE DEF n
    <3> QED  BY <1>1
  <2>2. n >= 5 /\ n # 6
    <3> HIDE DEF n
    <3> QED  BY <1>1
  <2> HIDE DEF n
  <2> QED  BY Zenon, <1>4, <2>1, <2>2 DEF LengthField
<1>6. n = 5 <=> At(w, 2) >= 128
  <2> DEFINE type == f.type
             control == IsControl(f)
             two == At(w, 2)
  <2>1. control <=> type >= 128
    BY HeaderLengths
  <2>2. two = type
    BY <1>2, <1>4
  <2>3. (~control => n \in 7 .. 605) /\ (control => n = 5)
    BY <1>1
  <2> HIDE DEF type, two, n, control
  <2>4. n = 5 <=> two >= 128
    BY <2>1, <2>2, <2>3
  <2> QED  BY <2>4 DEF two
<1> QED  BY Zenon, <1>3, <1>5, <1>6 DEF tashtalk_tx_validate, w, n

LEMMA InvArrives ==
  ASSUME Inv
  PROVE  WholeFramesArrive
<1>1. FrameInv /\ PacketInv
  BY DEF Inv
<1>2. /\ frame \in Frames /\ wire = Wire(frame) /\ wire \in Seq(uint8_t)
      /\ Arrived \in Seq(uint8_t) /\ Len(Arrived) = taken /\ Len(wire) \in Nat
  BY <1>1, ArrivedBytes DEF FrameInv
<1>3. ASSUME Whole PROVE crc_state_ok(crc)
  <2>1. Arrived = wire
    <3>1. Len(wire) \in 0 .. Len(wire)
      BY <1>2
    <3>2. SubSeq(wire, 1, Len(wire)) = wire
      BY <1>2, <3>1, Beginning
    <3> QED  BY <1>3, <3>2 DEF Arrived, Whole
  <2>2. crc_state_ok(crc_state_append_all(crc_state_init, Wire(frame)))
    BY <1>2, EncodeBytes, FcsIsGood DEF Wire
  <2> QED  BY <1>1, <1>2, <2>1, <2>2 DEF FrameInv
<1>4. ASSUME Whole PROVE at # "refused"
  <2> SUFFICES ASSUME at = "refused" PROVE FALSE
    OBVIOUS
  <2>1. packet = wire
    BY <1>4, WholeAtUart
  <2>2. ~tashtalk_tx_validate(packet)
    BY <1>1 DEF PacketInv
  <2> QED  BY <1>2, <2>1, <2>2, WireValid
<1>5. Whole => Len(Arrived) = Len(wire)
  BY <1>2 DEF Whole
<1>6. Len(Datagram(Arrived)) = Len(Arrived) + 2
  BY <1>2, DatagramBytes
<1> DEFINE a == Len(Arrived)
           d == Len(Datagram(Arrived))
           n == Len(wire)
           control == IsControl(frame)
<1>7. (control => n = 5) /\ (~control => n \in 7 .. 605)
  BY <1>2, WireLength
<1>8. ASSUME Whole, at = "dropped" PROVE control
  <2>1. a = 5 \/ d <= 7
    BY <1>1, <1>8 DEF PacketInv, RtsOrCts
  <2>2. a = n /\ d = a + 2
    BY <1>5, <1>6, <1>8
  <2> HIDE DEF a, d, n, control
  <2> QED  BY <1>7, <2>1, <2>2
<1>9. ASSUME Whole, at = "sent" PROVE packet = wire /\ ~control
  <2>1. packet = wire
    BY <1>9, WholeAtUart
  <2>2. d > 7
    BY <1>1, <1>9 DEF PacketInv
  <2>3. a = n /\ d = a + 2
    BY <1>5, <1>6, <1>9
  <2> HIDE DEF a, d, n, control
  <2> QED  BY <1>7, <2>1, <2>2, <2>3
<1> QED  BY Zenon, <1>3, <1>4, <1>8, <1>9, InvTypes DEF WholeFramesArrive

(* A frame that feed gets whole has a good CRC and is sent by the other     *)
(* bridge's uart_tx as it was here, byte for byte, whatever is in it; but   *)
(* no control frame is.                                                     *)
THEOREM WholeFrames == Spec => []WholeFramesArrive
BY PacketsInvariant, InvArrives, PTL

(* The length field is that of the whole frame, and the packet as long as   *)
(* what has come of it.                                                     *)
LEMMA InvTruncated ==
  ASSUME Inv
  PROVE  TruncatedNeverSent
<1> SUFFICES ASSUME at = "sent" PROVE Whole
  BY DEF TruncatedNeverSent
<1>1. /\ FrameInv /\ packet = ToPacket(Datagram(Arrived)) /\ Len(Datagram(Arrived)) > 7
      /\ tashtalk_tx_validate(packet)
  BY Zenon DEF Inv, PacketInv
<1>2. /\ frame \in Frames /\ wire = Wire(frame) /\ Arrived \in Seq(uint8_t) /\ Len(Arrived) = taken
      /\ taken \in 0 .. Len(wire) /\ Len(wire) \in 5 .. 605 /\ Len(wire) \in Nat
      /\ \A i \in 1 .. taken : Arrived[i] = wire[i]
  BY <1>1, ArrivedBytes DEF FrameInv
<1>3. taken > 5 /\ Len(packet) = taken /\ \A i \in 1 .. taken - 2 : packet[i] = Arrived[i]
  BY <1>1, <1>2, ToPacketIs
<1>4. taken # 6 /\ (taken >= 7 => 256 * (At(packet, 3) % 4) + At(packet, 4) = taken - 5)
  BY <1>1, <1>3 DEF tashtalk_tx_validate
<1> DEFINE n == Len(wire)
<1>5. taken \in Nat /\ taken >= 7 /\ n # 5
  <2>1. taken \in 0 .. n /\ n \in Nat /\ taken > 5 /\ taken # 6
    BY <1>2, <1>3, <1>4
  <2> HIDE DEF n
  <2> QED  BY <2>1
<1>6. packet[4] = wire[4] /\ packet[5] = wire[5]
  <2>1. 4 \in 1 .. taken - 2 /\ 5 \in 1 .. taken - 2 /\ 4 \in 1 .. taken /\ 5 \in 1 .. taken
    BY <1>5
  <2> QED  BY <1>2, <1>3, <2>1
<1>7. At(packet, 3) = wire[4] /\ At(packet, 4) = wire[5]
  <2>1. 4 = 3 + 1 /\ 5 = 4 + 1 /\ 4 <= taken /\ 5 <= taken /\ \A i \in {3, 4, 5} : i \in Nat
    BY <1>5
  <2>2. At(packet, 3) = packet[4] /\ At(packet, 4) = packet[5]
    BY <1>3, <1>5, <2>1, AtWithin
  <2> QED  BY <1>6, <2>2
<1>8. LengthField(wire) = taken - 5
  BY Zenon, <1>4, <1>5, <1>7 DEF LengthField
<1>9. LengthField(wire) = n - 5
  BY <1>2, <1>5, WireLength
<1>10. n \in Nat
  BY <1>2
<1> HIDE DEF n
<1>11. taken = n
  BY <1>5, <1>8, <1>9, <1>10
<1> QED  BY <1>11 DEF Whole, n

(* What was cut off is refused by tashtalk_tx_validate, wherever that was.  *)
THEOREM NoTruncatedFrames == Spec => []TruncatedNeverSent
BY PacketsInvariant, InvTruncated, PTL

-----------------------------------------------------------------------------
(* What the accessors read of the beginning of a frame.                     *)
BeginningOf(p, f) ==
  /\ p \in Seq(uint8_t) /\ Len(p) \in 0 .. Len(Wire(f))
  /\ \A i \in 1 .. Len(p) : p[i] = Wire(f)[i]

LEMMA BytesAt ==
  ASSUME NEW f, NEW p, BeginningOf(p, f), NEW k \in Nat, NEW o \in Nat, k = o + 1
  PROVE  /\ k <= Len(p) => At(p, o) = Wire(f)[k] /\ Byte(p, o) = Wire(f)[k]
         /\ k > Len(p) => At(p, o) = 0 /\ Byte(p, o) = 0
         /\ Has(p, o) <=> k <= Len(p)
         /\ Len(p) \in Nat
<1>1. Len(p) \in Nat /\ \A i \in 1 .. Len(p) : p[i] = Wire(f)[i]
  BY DEF BeginningOf
<1>2. /\ k <= Len(p) => At(p, o) = p[k]
      /\ k > Len(p) => At(p, o) = 0
      /\ Has(p, o) <=> k <= Len(p)
  BY <1>1, AtWithin
<1>3. k <= Len(p) => p[k] = Wire(f)[k]
  <2>1. k <= Len(p) => k \in 1 .. Len(p)
    BY <1>1
  <2> QED  BY <1>1, <2>1
<1>4. k > Len(p) => ~(k <= Len(p))
  BY <1>1
<1> QED  BY <1>1, <1>2, <1>3, <1>4 DEF Byte, Guarded

LEMMA FrameBeginning ==
  ASSUME FrameInv
  PROVE  BeginningOf(Arrived, frame) /\ frame \in Frames /\ wire = Wire(frame) /\ Len(Arrived) = taken
<1>1. frame \in Frames /\ wire = Wire(frame)
  BY DEF FrameInv
<1>2. /\ Arrived \in Seq(uint8_t) /\ Len(Arrived) = taken /\ taken \in 0 .. Len(wire)
      /\ \A i \in 1 .. taken : Arrived[i] = wire[i]
  BY ArrivedBytes
<1> QED  BY Zenon, <1>1, <1>2 DEF BeginningOf

LEMMA Offsets ==
  ASSUME NEW f \in Frames, NEW p, BeginningOf(p, f), Len(p) > 2
  PROVE  /\ At(p, 2) = f.type
         /\ is_ddp_packet(p) <=> Len(p) > 3 /\ IsDdp(f)
         /\ f.type = 1 => \A long, short : Ddp(p, long, short) = 3 + short
         /\ f.type = 2 => \A long, short : Ddp(p, long, short) = 3 + long
         /\ IsDdp(f) => /\ ddp_payload_offset(p) = HeaderLength(f)
                        /\ ddp_type(p) = IF Len(p) >= HeaderLength(f) THEN f.ddpType ELSE 0
<1> DEFINE w == Wire(f)
<1>1. Len(p) \in Nat /\ At(p, 2) = w[3]
  <2>1. 3 = 2 + 1 /\ 2 \in Nat /\ 3 \in Nat
    OBVIOUS
  <2>2. Len(p) \in Nat
    BY DEF BeginningOf
  <2>3. 3 <= Len(p)
    BY <2>2
  <2> QED  BY <2>1, <2>2, <2>3, BytesAt
<1>2. At(p, 2) = f.type
  BY <1>1, WireBytes
<1>3. is_ddp_packet(p) <=> Len(p) > 3 /\ IsDdp(f)
  BY <1>2 DEF is_ddp_packet, LLAP_TYPE_OFFSET, IsDdp
<1>4. f.type = 1 => \A long, short : Ddp(p, long, short) = 3 + short
  BY <1>2 DEF Ddp, ddp_has_long_header, LLAP_TYPE_OFFSET, LLAP_PAYLOAD_OFFSET
<1>5. f.type = 2 => \A long, short : Ddp(p, long, short) = 3 + long
  BY <1>2 DEF Ddp, ddp_has_long_header, LLAP_TYPE_OFFSET, LLAP_PAYLOAD_OFFSET
<1>6. ASSUME IsDdp(f)
      PROVE  /\ ddp_payload_offset(p) = HeaderLength(f)
             /\ ddp_type(p) = IF Len(p) >= HeaderLength(f) THEN f.ddpType ELSE 0
  <2>1. DataBytes(f, w)
    BY <1>6, HeaderLengths, WireBytes
  <2>2. HeaderFields(f, w)
    BY <2>1 DEF DataBytes
  <2>3. CASE f.type = 1
    <3>1. HeaderLength(f) = 8 /\ w[8] = f.ddpType
      BY <2>2, <2>3, HeaderLengths DEF HeaderFields
    <3>2. ddp_payload_offset(p) = 8 /\ Ddp(p, 12, 4) = 7
      BY <1>4, <2>3 DEF ddp_payload_offset
    <3>3. 8 = 7 + 1 /\ 7 \in Nat /\ 8 \in Nat /\ (Len(p) >= 8 <=> 8 <= Len(p)) /\ (8 > Len(p) <=> ~(8 <= Len(p)))
      BY <1>1
    <3>4. (8 <= Len(p) => Byte(p, 7) = w[8]) /\ (8 > Len(p) => Byte(p, 7) = 0)
      BY <3>3, BytesAt
    <3> HIDE DEF w
    <3> QED  BY <3>1, <3>2, <3>3, <3>4 DEF ddp_type
  <2>4. CASE f.type = 2
    <3>1. HeaderLength(f) = 16 /\ w[16] = f.ddpType
      BY <2>2, <2>4, HeaderLengths DEF HeaderFields
    <3>2. ddp_payload_offset(p) = 16 /\ Ddp(p, 12, 4) = 15
      BY <1>5, <2>4 DEF ddp_payload_offset
    <3>3. 16 = 15 + 1 /\ 15 \in Nat /\ 16 \in Nat /\ (Len(p) >= 16 <=> 16 <= Len(p)) /\ (16 > Len(p) <=> ~(16 <= Len(p)))
      BY <1>1
    <3>4. (16 <= Len(p) => Byte(p, 15) = w[16]) /\ (16 > Len(p) => Byte(p, 15) = 0)
      BY <3>3, BytesAt
    <3> HIDE DEF w
    <3> QED  BY <3>1, <3>2, <3>3, <3>4 DEF ddp_type
  <2> QED  BY <1>6, <2>3, <2>4, HeaderLengths
<1> QED  BY <1>2, <1>3, <1>4, <1>5, <1>6

(* Of a datagram whose header has come, the header is read right ...        *)
LEMMA HeaderRead ==
  ASSUME NEW f \in Frames, NEW p, BeginningOf(p, f), IsDdp(f), Len(p) >= HeaderLength(f)
  PROVE  /\ Len(p) \in Nat /\ Len(p) > 3
         /\ ddp_type(p) = f.ddpType
         /\ ddp_destination_node(p) = f.node
         /\ ddp_destination_socket(p) = f.socket
         /\ ddp_payload_offset(p) = HeaderLength(f)
<1> DEFINE w == Wire(f)
<1>1. Len(p) \in Nat /\ HeaderFields(f, w) /\ w[1] = f.dst
  <2>1. DataBytes(f, w) /\ w[1] = f.dst
    BY ZenonT(60), HeaderLengths, WireBytes
  <2> QED  BY <2>1 DEF BeginningOf, DataBytes
<1>2. HeaderLength(f) \in {8, 16} /\ f.type \in {1, 2}
  BY HeaderLengths
<1>3. Len(p) >= 8 /\ Len(p) > 3 /\ Len(p) > 2
  BY <1>1, <1>2
<1>4. ddp_type(p) = f.ddpType /\ ddp_payload_offset(p) = HeaderLength(f)
  BY <1>3, Offsets
<1>5. At(p, 2) = f.type
  BY <1>3, Offsets
<1>6. CASE f.type = 1
  <2>1. w[6] = f.socket
    BY <1>1, <1>6 DEF HeaderFields
  <2>2. Ddp(p, 10, 4) = 7 /\ Ddp(p, 10, 2) = 5
    BY <1>3, <1>6, Offsets
  <2>3. /\ 1 = 0 + 1 /\ 6 = 5 + 1 /\ 8 = 7 + 1 /\ 1 <= Len(p) /\ 6 <= Len(p) /\ 8 <= Len(p)
        /\ \A i \in {0, 1, 5, 6, 7, 8} : i \in Nat
    BY <1>1, <1>3
  <2>4. At(p, 0) = w[1] /\ At(p, 5) = w[6] /\ Has(p, 7)
    <3>1. At(p, 0) = w[1]
      BY <2>3, BytesAt
    <3>2. At(p, 5) = w[6]
      BY <2>3, BytesAt
    <3>3. Has(p, 7)
      BY <2>3, BytesAt
    <3> QED  BY <3>1, <3>2, <3>3
  <2>5. ddp_destination_socket(p) = f.socket
    BY Zenon, <2>1, <2>2, <2>4 DEF ddp_destination_socket, Guarded
  <2>6. ~ddp_has_long_header(p)
    BY <1>5, <1>6 DEF ddp_has_long_header, LLAP_TYPE_OFFSET
  <2>7. f.node = f.dst
    BY <1>6, FrameFacts
  <2>8. ddp_destination_node(p) = f.node
    BY Zenon, <1>1, <2>4, <2>6, <2>7 DEF ddp_destination_node
  <2> QED  BY <1>1, <1>3, <1>4, <2>5, <2>8
<1>7. CASE f.type = 2
  <2>1. w[12] = f.node /\ w[14] = f.socket
    BY <1>1, <1>7 DEF HeaderFields
  <2>2. Ddp(p, 10, 4) = 13 /\ Ddp(p, 10, 2) = 13 /\ LLAP_PAYLOAD_OFFSET + 8 = 11
    BY <1>3, <1>7, Offsets DEF LLAP_PAYLOAD_OFFSET
  <2>3. /\ 12 = 11 + 1 /\ 14 = 13 + 1 /\ 12 <= Len(p) /\ 14 <= Len(p)
        /\ \A i \in {11, 12, 13, 14} : i \in Nat
    <3>1. HeaderLength(f) = 16
      BY <1>7, HeaderLengths
    <3> QED  BY <1>1, <3>1
  <2>4. Byte(p, 11) = w[12] /\ At(p, 13) = w[14] /\ Has(p, 13)
    <3>1. Byte(p, 11) = w[12]
      BY <2>3, BytesAt
    <3>2. At(p, 13) = w[14] /\ Has(p, 13)
      BY <2>3, BytesAt
    <3> QED  BY <3>1, <3>2
  <2>5. ddp_destination_socket(p) = f.socket
    BY Zenon, <2>1, <2>2, <2>4 DEF ddp_destination_socket, Guarded
  <2>6. ddp_has_long_header(p)
    BY <1>5, <1>7 DEF ddp_has_long_header, LLAP_TYPE_OFFSET
  <2>8. ddp_destination_node(p) = f.node
    BY Zenon, <2>1, <2>2, <2>4, <2>6 DEF ddp_destination_node
  <2> QED  BY <1>1, <1>3, <1>4, <2>5, <2>8
<1> QED  BY <1>2, <1>6, <1>7

(* ... and no other packet is taken for one of a given protocol.            *)
LEMMA ProtocolRead ==
  ASSUME NEW f \in Frames, NEW p, BeginningOf(p, f), NEW type \in Nat, type # 0
  PROVE  is_ddp_packet(p) /\ ddp_type(p) = type <=>
           IsDdp(f) /\ Len(p) >= HeaderLength(f) /\ f.ddpType = type
<1>1. Len(p) \in Nat
  BY DEF BeginningOf
<1>2. ASSUME is_ddp_packet(p), ddp_type(p) = type
      PROVE  IsDdp(f) /\ Len(p) >= HeaderLength(f) /\ f.ddpType = type
  <2>1. Len(p) > 3 /\ Len(p) > 2
    <3>1. Len(p) > 3
      BY <1>2 DEF is_ddp_packet
    <3> QED  BY <1>1, <3>1
  <2>2. IsDdp(f)
    BY <1>2, <2>1, Offsets
  <2>3. ddp_type(p) = IF Len(p) >= HeaderLength(f) THEN f.ddpType ELSE 0
    BY <2>1, <2>2, Offsets
  <2> QED  BY <1>2, <2>2, <2>3
<1>3. ASSUME IsDdp(f), Len(p) >= HeaderLength(f), f.ddpType = type
      PROVE  is_ddp_packet(p) /\ ddp_type(p) = type
  <2>1. Len(p) > 3 /\ ddp_type(p) = f.ddpType
    BY <1>3, HeaderRead
  <2>2. Len(p) > 2
    BY <1>1, <2>1
  <2> QED  BY <1>3, <2>1, <2>2, Offsets
<1> QED  BY <1>2, <1>3

(* The bytes that follow the header.                                        *)
LEMMA BodyRead ==
  ASSUME NEW f \in Frames, NEW p, BeginningOf(p, f), IsDdp(f),
         NEW i \in Nat, 1 <= i, i <= Len(Body(f)), NEW o, o + 1 = HeaderLength(f) + i, o \in Nat
  PROVE  /\ HeaderLength(f) + i <= Len(p) => At(p, o) = Body(f)[i] /\ Byte(p, o) = Body(f)[i]
         /\ HeaderLength(f) + i > Len(p) => At(p, o) = 0 /\ Byte(p, o) = 0
<1> DEFINE k == HeaderLength(f) + i
<1>1. k \in Nat /\ k = o + 1
  BY HeaderLengths
<1>2. Wire(f)[k] = Body(f)[i]
  <2>1. DataBytes(f, Wire(f))
    BY HeaderLengths, WireBytes
  <2>2. Len(Body(f)) \in Nat
    <3>1. Body(f) \in Seq(uint8_t)
      BY BodyBytes
    <3> QED  BY <3>1
  <2>3. i \in 1 .. Len(Body(f))
    BY <2>2
  <2> QED  BY <2>1, <2>3 DEF DataBytes
<1> HIDE DEF k
<1>3. /\ k <= Len(p) => At(p, o) = Wire(f)[k] /\ Byte(p, o) = Wire(f)[k]
      /\ k > Len(p) => At(p, o) = 0 /\ Byte(p, o) = 0
  BY <1>1, BytesAt
<1> QED  BY <1>2, <1>3 DEF k

-----------------------------------------------------------------------------
(* Set-up requests.                                                         *)

LEMMA RequestBody ==
  ASSUME NEW f \in Frames, IsAtp(f)
  PROVE  /\ Len(Body(f)) \in Nat /\ Len(Body(f)) >= 8
         /\ Body(f)[1] = 64 * f.function + f.flags
         /\ f.function \in 0 .. 3 /\ f.flags \in 0 .. 63
<1> DEFINE first == 64 * f.function + f.flags
           head == <<first>> \o f.atp
<1>1. f.function \in 0 .. 3 /\ f.flags \in 0 .. 63
  BY FrameFacts DEF IsAtp
<1>2. /\ Body(f) = head \o f.payload /\ head \in Seq(uint8_t) /\ f.payload \in Seq(uint8_t)
      /\ Len(head) = 8 /\ head[1] = first
  BY AtpBytes
<1> HIDE DEF first, head
<1>3. /\ Len(head \o f.payload) = Len(head) + Len(f.payload) /\ Len(f.payload) \in Nat
      /\ \A i \in 1 .. Len(head) : (head \o f.payload)[i] = head[i]
  <2>1. head \in Seq(uint8_t) /\ f.payload \in Seq(uint8_t)
    BY <1>2
  <2> QED  BY <2>1, Concat
<1>4. Len(head \o f.payload) >= 8 /\ Len(head \o f.payload) \in Nat
  BY <1>2, <1>3
<1>5. (head \o f.payload)[1] = first
  <2>1. 1 \in 1 .. Len(head)
    BY <1>2
  <2> QED  BY <1>2, <1>3, <2>1
<1> QED  BY <1>1, <1>2, <1>4, <1>5 DEF first

NameOffset(f) == HeaderLength(f) + 8

(* The comparison that does not look at the length finds the name where the *)
(* name is, since there is no 0 in it.                                      *)
LEMMA NameRead ==
  ASSUME NEW f \in Frames, NEW p, BeginningOf(p, f), IsDdp(f)
  PROVE  (\A i \in 1 .. Len(Magic) : At(p, NameOffset(f) + i) = Magic[i]) <=>
           /\ Len(p) >= NameOffset(f) + 1 + Len(Magic)
           /\ SubSeq(Wire(f), NameOffset(f) + 2, NameOffset(f) + 1 + Len(Magic)) = Magic
<1> DEFINE w == Wire(f)
           n == Len(p)
           m == Len(Magic)
           o == NameOffset(f)
<1>1. Magic \in Seq(1 .. 255) /\ m \in Nat /\ m >= 1
  <2>1. Magic \in Seq(1 .. 255) /\ Magic # <<>>
    BY NamesAssumption
  <2> QED  BY <2>1
<1>2. n \in Nat /\ Len(w) \in Nat /\ n <= Len(w) /\ w \in Seq(uint8_t)
  <2>1. Len(w) \in Nat /\ w \in Seq(uint8_t)
    BY ZenonT(60), WireBytes, WireLength
  <2>2. n \in 0 .. Len(w)
    BY DEF BeginningOf
  <2> HIDE DEF n, w
  <2> QED  BY <2>1, <2>2
<1>3. o \in Nat
  <2>1. HeaderLength(f) \in {8, 16}
    BY HeaderLengths
  <2> QED  BY <2>1 DEF NameOffset
<1>4. \A i \in 1 .. m : Magic[i] \in 1 .. 255
  <2> DEFINE chars == 1 .. 255
  <2>1. Magic \in Seq(chars)
    BY <1>1
  <2> HIDE DEF chars
  <2>2. \A i \in 1 .. Len(Magic) : Magic[i] \in chars
    BY <2>1
  <2> QED  BY <2>2 DEF chars
<1> HIDE DEF o, m
<1>5. \A i \in 1 .. m : /\ o + 1 + i <= n => At(p, o + i) = w[o + 1 + i]
                        /\ o + 1 + i > n => At(p, o + i) = 0
  <2> SUFFICES ASSUME NEW i \in 1 .. m
               PROVE  /\ o + 1 + i <= n => At(p, o + i) = w[o + 1 + i]
                      /\ o + 1 + i > n => At(p, o + i) = 0
    OBVIOUS
  <2> DEFINE j == o + i
             k == o + 1 + i
  <2>1. j \in Nat /\ k \in Nat /\ k = j + 1
    BY <1>3
  <2> HIDE DEF j, k
  <2>2. /\ k <= Len(p) => At(p, j) = Wire(f)[k]
        /\ k > Len(p) => At(p, j) = 0
    BY <2>1, BytesAt
  <2> QED  BY <2>2 DEF j, k
<1> HIDE DEF w, n
<1>6. ASSUME o + 1 + m <= Len(w)
      PROVE  LET s == SubSeq(w, o + 2, o + 1 + m)
             IN  Len(s) = m /\ s \in Seq(uint8_t) /\ \A i \in 1 .. m : s[i] = w[o + 1 + i]
  <2> DEFINE s == SubSeq(w, o + 2, o + 1 + m)
             from == o + 2
             to == o + 1 + m
  <2>1. from \in Nat /\ to \in Nat /\ from >= 1 /\ from <= to /\ to <= Len(w) /\ to - from + 1 = m
    BY <1>1, <1>3, <1>6
  <2>2. s = SubSeq(w, from, to)
    OBVIOUS
  <2>3. \A i \in 1 .. m : from + i - 1 = o + 1 + i
    BY <1>1, <1>3
  <2> HIDE DEF s, from, to
  <2>4. s \in Seq(uint8_t) /\ Len(s) = to - from + 1 /\ \A i \in 1 .. to - from + 1 : s[i] = w[from + i - 1]
    BY <1>2, <2>1, <2>2
  <2>5. s \in Seq(uint8_t) /\ Len(s) = m /\ \A i \in 1 .. m : s[i] = w[o + 1 + i]
    BY <2>1, <2>3, <2>4
  <2> QED  BY <2>5 DEF s
<1>7. ASSUME \A i \in 1 .. m : At(p, o + i) = Magic[i]
      PROVE  n >= o + 1 + m /\ SubSeq(w, o + 2, o + 1 + m) = Magic
  <2>1. \A i \in 1 .. m : ~(o + 1 + i > n)
    <3> SUFFICES ASSUME NEW i \in 1 .. m, o + 1 + i > n PROVE FALSE
      OBVIOUS
    <3>1. At(p, o + i) = 0 /\ At(p, o + i) = Magic[i]
      BY <1>5, <1>7
    <3>2. Magic[i] # 0
      <4>1. Magic[i] \in 1 .. 255
        BY <1>4
      <4> HIDE DEF m
      <4> QED  BY <4>1
    <3> QED  BY <3>1, <3>2
  <2>2. ~(o + 1 + m > n)
    <3>1. m \in 1 .. m
      BY <1>1
    <3> QED  BY <2>1, <3>1
  <2>3. n >= o + 1 + m /\ o + 1 + m <= Len(w)
    BY <1>1, <1>2, <1>3, <2>2
  <2> DEFINE s == SubSeq(w, o + 2, o + 1 + m)
  <2>4. Len(s) = m /\ s \in Seq(uint8_t) /\ \A i \in 1 .. m : s[i] = w[o + 1 + i]
    BY <1>6, <2>3
  <2>5. \A i \in 1 .. m : s[i] = Magic[i]
    <3> SUFFICES ASSUME NEW i \in 1 .. m PROVE s[i] = Magic[i]
      OBVIOUS
    <3>1. o + 1 + i <= n
      BY <1>1, <1>2, <1>3, <2>3
    <3> HIDE DEF s
    <3> QED  BY <1>5, <1>7, <2>4, <3>1
  <2> HIDE DEF s
  <2>6. s = Magic
    BY <1>1, <2>4, <2>5 DEF m
  <2> QED  BY <2>3, <2>6 DEF s
<1>8. ASSUME n >= o + 1 + m, SubSeq(w, o + 2, o + 1 + m) = Magic
      PROVE  \A i \in 1 .. m : At(p, o + i) = Magic[i]
  <2> SUFFICES ASSUME NEW i \in 1 .. m PROVE At(p, o + i) = Magic[i]
    OBVIOUS
  <2>1. o + 1 + m <= Len(w) /\ o + 1 + i <= n
    BY <1>1, <1>2, <1>3, <1>8
  <2>2. Magic[i] = w[o + 1 + i]
    BY <1>6, <1>8, <2>1
  <2> QED  BY <1>5, <2>1, <2>2
<1> QED  BY Zenon, <1>7, <1>8 DEF o, m, n, w

LEMMA SetupRead ==
  ASSUME NEW f \in Frames, NEW p, BeginningOf(p, f), ~f.raw
  PROVE  handle_configuration_packet(p) <=>
           /\ IsRequest(f) /\ Len(p) >= NameOffset(f) + 1 + Len(Magic)
           /\ SubSeq(Wire(f), NameOffset(f) + 2, NameOffset(f) + 1 + Len(Magic)) = Magic
<1> DEFINE named == /\ Len(p) >= NameOffset(f) + 1 + Len(Magic)
                    /\ SubSeq(Wire(f), NameOffset(f) + 2, NameOffset(f) + 1 + Len(Magic)) = Magic
<1>1. is_atp_packet(p) <=> IsDdp(f) /\ Len(p) >= HeaderLength(f) /\ f.ddpType = 3
  <2>1. 3 \in Nat /\ 3 # 0
    OBVIOUS
  <2> QED  BY <2>1, ProtocolRead DEF is_atp_packet
<1>2. named => Len(p) >= HeaderLength(f) + 1
  <2> SUFFICES ASSUME Len(p) >= NameOffset(f) + 1 + Len(Magic) PROVE Len(p) >= HeaderLength(f) + 1
    OBVIOUS
  <2>1. Len(p) \in Nat /\ HeaderLength(f) \in {5, 8, 16}
    BY HeaderLengths DEF BeginningOf
  <2>2. Len(Magic) \in Nat
    <3>1. Magic \in Seq(1 .. 255)
      BY NamesAssumption
    <3> QED  BY <3>1
  <2> DEFINE n == Len(p)
             m == Len(Magic)
             h == HeaderLength(f)
  <2>3. n >= (h + 8) + 1 + m /\ n \in Nat /\ m \in Nat /\ h \in {5, 8, 16}
    BY <2>1, <2>2 DEF NameOffset
  <2> HIDE DEF n, m, h
  <2>4. n >= h + 1
    BY <2>3
  <2> QED  BY <2>4 DEF n, h
<1> HIDE DEF named
<1>3. ASSUME IsDdp(f), Len(p) >= HeaderLength(f), f.ddpType = 3
      PROVE  handle_configuration_packet(p) <=> IsRequest(f) /\ named
  <2> DEFINE h == HeaderLength(f)
             n == Len(p)
             high == f.function
             low == f.flags
  <2>1. /\ n \in Nat /\ ddp_destination_node(p) = f.node
        /\ ddp_destination_socket(p) = f.socket /\ ddp_payload_offset(p) = h
    BY <1>3, HeaderRead
  <2>2. h \in {8, 16}
    BY <1>3, HeaderLengths
  <2>3. /\ high \in 0 .. 3 /\ low \in 0 .. 63 /\ Body(f)[1] = 64 * high + low
        /\ Len(Body(f)) \in Nat /\ Len(Body(f)) >= 8
    BY <1>3, RequestBody DEF IsAtp
  <2>4. /\ h + 1 <= n => Byte(p, h) = 64 * high + low
        /\ h + 1 > n => Byte(p, h) = 0
    <3>1. h \in Nat /\ 1 \in Nat /\ 1 <= Len(Body(f)) /\ h + 1 = HeaderLength(f) + 1 /\ 1 <= 1
      BY <2>2, <2>3
    <3> QED  BY <1>3, <2>3, <3>1, BodyRead
  <2>5. (64 * high + low) \div 64 = high /\ 0 \div 64 = 0
    <3> HIDE DEF high, low
    <3>1. (64 * high + low) \div 64 = high
      BY <2>3, ControlByte
    <3> QED  BY <3>1
  <2>6. /\ h + 1 <= n => atp_function_code(p) = high
        /\ h + 1 > n => atp_function_code(p) = 0
    BY Zenon, <2>1, <2>4, <2>5 DEF atp_function_code
  <2>7. (\A i \in 1 .. Len(Magic) : At(p, atp_payload_offset(p) + i) = Magic[i]) <=> named
    <3>1. atp_payload_offset(p) = NameOffset(f)
      BY <2>1 DEF atp_payload_offset, NameOffset
    <3> QED  BY Zenon, <1>3, <3>1, NameRead DEF named
  <2>8. is_atp_packet(p)
    BY <1>1, <1>3
  <2>9. h + 1 <= n \/ h + 1 > n
    <3> HIDE DEF h, n
    <3> QED  BY <2>1, <2>2
  <2>10. named => h + 1 <= n
    <3>1. named => n >= h + 1
      BY <1>2
    <3> HIDE DEF h, n
    <3> QED  BY <2>1, <2>2, <3>1
  <2> HIDE DEF h, n
  <2>11. ATP_TREQ = 1 /\ 0 # 1
    BY DEF ATP_TREQ
  <2>12. CASE h + 1 <= n
    <3>1. atp_function_code(p) = high
      BY <2>6, <2>12
    <3> QED  BY Zenon, <1>3, <2>1, <2>7, <2>8, <3>1 DEF handle_configuration_packet, IsRequest, IsAtp, high
  <2>13. CASE ~(h + 1 <= n)
    <3>1. atp_function_code(p) # ATP_TREQ /\ ~named
      BY <2>6, <2>9, <2>10, <2>11, <2>13
    <3> QED  BY Zenon, <3>1 DEF handle_configuration_packet
  <2> QED  BY <2>12, <2>13
<1>4. ASSUME ~(IsDdp(f) /\ Len(p) >= HeaderLength(f) /\ f.ddpType = 3)
      PROVE  ~handle_configuration_packet(p) /\ ~(IsRequest(f) /\ named)
  <2>1. ~handle_configuration_packet(p)
    BY <1>1, <1>4 DEF handle_configuration_packet
  <2>2. named => Len(p) >= HeaderLength(f)
    <3>1. Len(p) \in Nat /\ HeaderLength(f) \in {5, 8, 16}
      BY HeaderLengths DEF BeginningOf
    <3> QED  BY <1>2, <3>1
  <2> QED  BY <1>4, <2>1, <2>2 DEF IsRequest, IsAtp
<1> QED  BY Zenon, <1>3, <1>4 DEF named

LEMMA InvSetup ==
  ASSUME Inv
  PROVE  SetupAsSent
<1> DEFINE name == HeaderLength(frame) + 9
           end == name + Len(Magic)
<1> SUFFICES ASSUME at \in {"rebooted", "udp_tx"}, ~frame.raw
             PROVE  at = "rebooted" <=>
                      IsRequest(frame) /\ taken >= end /\ SubSeq(wire, name + 1, end) = Magic
  BY DEF SetupAsSent
<1>1. at = "rebooted" <=> handle_configuration_packet(Arrived)
  BY DEF Inv, AppsInv
<1>2. BeginningOf(Arrived, frame) /\ frame \in Frames /\ wire = Wire(frame) /\ Len(Arrived) = taken
  BY FrameBeginning DEF Inv
<1>3. handle_configuration_packet(Arrived) <=>
        /\ IsRequest(frame) /\ taken >= NameOffset(frame) + 1 + Len(Magic)
        /\ SubSeq(wire, NameOffset(frame) + 2, NameOffset(frame) + 1 + Len(Magic)) = Magic
  BY <1>2, SetupRead
<1>4. name + 1 = NameOffset(frame) + 2 /\ end = NameOffset(frame) + 1 + Len(Magic)
  <2>1. HeaderLength(frame) \in {5, 8, 16}
    BY <1>2, HeaderLengths
  <2>2. name + 1 = NameOffset(frame) + 2 /\ name = NameOffset(frame) + 1
    BY <2>1 DEF NameOffset
  <2> QED  BY <2>2
<1> QED  BY Zenon, <1>1, <1>3, <1>4

(* handle_configuration_packet restarts the firmware for set-up requests,   *)
(* and for nothing else, for any name.                                      *)
THEOREM RestartsAsAsked == Spec => []SetupAsSent
BY PacketsInvariant, InvSetup, PTL

-----------------------------------------------------------------------------
(* Tuples: where their pieces are.                                          *)

PStringAt(bytes, o, str) ==
  /\ bytes[o + 1] = Len(str)
  /\ \A i \in 1 .. Len(str) : bytes[o + 1 + i] = str[i]

FieldsAt(bytes, o, t) ==
  /\ t.network = 256 * bytes[o + 1] + bytes[o + 2]
  /\ t.node = bytes[o + 3] /\ t.socket = bytes[o + 4] /\ t.enumerator = bytes[o + 5]

TypeOffset(o, t) == o + 6 + Len(t.object)
ZoneOffset(o, t) == o + 7 + Len(t.object) + Len(t.type)
NextTuple(o, t) == o + 8 + Len(t.object) + Len(t.type) + Len(t.zone)

TupleAt(bytes, o, t) ==
  /\ FieldsAt(bytes, o, t)
  /\ PStringAt(bytes, o + 5, t.object)
  /\ PStringAt(bytes, TypeOffset(o, t), t.type)
  /\ PStringAt(bytes, ZoneOffset(o, t), t.zone)

(* A string among other bytes.                                              *)
LEMMA PStringPlaced ==
  ASSUME NEW str \in PStrings, NEW before \in Seq(uint8_t), NEW after \in Seq(uint8_t)
  PROVE  /\ PStringAt((before \o PString(str)) \o after, Len(before), str)
         /\ PStringAt(before \o PString(str), Len(before), str)
<1> DEFINE s == PString(str)
           a == before \o s
           b == a \o after
           n == Len(before)
           m == Len(str)
<1>1. /\ s \in Seq(uint8_t) /\ Len(s) = m + 1 /\ s[1] = m /\ m \in Nat
      /\ \A i \in 1 .. m : s[i + 1] = str[i]
  BY PStringBytes
<1> HIDE DEF s, m
<1>2. /\ a \in Seq(uint8_t) /\ Len(a) = n + Len(s) /\ n \in Nat
      /\ \A i \in 1 .. Len(s) : a[n + i] = s[i]
  <2>1. s \in Seq(uint8_t)
    BY <1>1
  <2> QED  BY <2>1, Concat
<1> HIDE DEF a
<1>3. \A i \in 1 .. Len(a) : b[i] = a[i]
  BY <1>2, Concat
<1> HIDE DEF b, n
<1>4. a[n + 1] = m /\ \A i \in 1 .. m : a[n + 1 + i] = str[i]
  <2>1. 1 \in 1 .. Len(s)
    BY <1>1
  <2>2. a[n + 1] = m
    BY <1>1, <1>2, <2>1
  <2>3. ASSUME NEW i \in 1 .. m PROVE a[n + 1 + i] = str[i]
    <3>1. i + 1 \in 1 .. Len(s) /\ n + (i + 1) = n + 1 + i
      BY <1>1, <1>2
    <3>2. a[n + (i + 1)] = s[i + 1]
      BY <1>2, <3>1
    <3> QED  BY <1>1, <3>1, <3>2
  <2> QED  BY <2>2, <2>3
<1>5. b[n + 1] = m /\ \A i \in 1 .. m : b[n + 1 + i] = str[i]
  <2>1. n + 1 \in 1 .. Len(a) /\ \A i \in 1 .. m : n + 1 + i \in 1 .. Len(a)
    BY <1>1, <1>2
  <2> QED  BY <1>3, <1>4, <2>1
<1> QED  BY <1>4, <1>5 DEF PStringAt, a, b, n, m, s

LEMMA TuplePieces ==
  ASSUME NEW t \in Tuples
  PROVE  TupleAt(EncodeTuple(t), 0, t)
<1> DEFINE h == Fields(t)
           a == PString(t.object)
           b == PString(t.type)
           c == PString(t.zone)
           ha == h \o a
           hab == ha \o b
           all == hab \o c
           bc == b \o c
<1>1. /\ h \in Seq(uint8_t) /\ Len(h) = 5
      /\ t.object \in PStrings /\ t.type \in PStrings /\ t.zone \in PStrings
      /\ t.network = 256 * h[1] + h[2] /\ h[3] = t.node /\ h[4] = t.socket /\ h[5] = t.enumerator
  BY TupleFields
<1>2. /\ a \in Seq(uint8_t) /\ Len(a) = Len(t.object) + 1 /\ Len(t.object) \in Nat
      /\ b \in Seq(uint8_t) /\ Len(b) = Len(t.type) + 1 /\ Len(t.type) \in Nat
      /\ c \in Seq(uint8_t)
  <2> HIDE DEF h
  <2> QED  BY <1>1, PStringBytes
<1>3. EncodeTuple(t) = all
  BY Zenon, TupleBytes
<1> DEFINE x == Len(t.object)
           y == Len(t.type)
<1> HIDE DEF h
<1>4. ha \in Seq(uint8_t) /\ Len(ha) = Len(h) + Len(a) /\ \A i \in 1 .. Len(h) : ha[i] = h[i]
  <2>1. h \in Seq(uint8_t) /\ a \in Seq(uint8_t)
    BY <1>1, <1>2
  <2> HIDE DEF a
  <2> QED  BY <2>1, Concat
<1>5. hab \in Seq(uint8_t) /\ Len(hab) = Len(ha) + Len(b) /\ \A i \in 1 .. Len(ha) : hab[i] = ha[i]
  <2>1. ha \in Seq(uint8_t) /\ b \in Seq(uint8_t)
    BY <1>2, <1>4
  <2> HIDE DEF ha, b
  <2> QED  BY <2>1, Concat
<1>6. all \in Seq(uint8_t) /\ \A i \in 1 .. Len(hab) : all[i] = hab[i]
  <2>1. hab \in Seq(uint8_t) /\ c \in Seq(uint8_t)
    BY <1>2, <1>5
  <2> HIDE DEF hab, c
  <2> QED  BY <2>1, Concat
<1>7. Len(ha) = 6 + x /\ Len(hab) = 7 + x + y /\ x \in Nat /\ y \in Nat /\ Len(h) = 5
  <2> HIDE DEF x, y, ha, hab, a, b
  <2>1. x \in Nat /\ y \in Nat /\ Len(a) = x + 1 /\ Len(b) = y + 1
    BY <1>2 DEF x, y
  <2> QED  BY <1>1, <1>4, <1>5, <2>1
<1>8. FieldsAt(all, 0, t)
  <2>1. \A i \in {1, 2, 3, 4, 5} : all[i] = h[i]
    <3> HIDE DEF ha, hab, all, x, y
    <3> SUFFICES ASSUME NEW i \in {1, 2, 3, 4, 5} PROVE all[i] = h[i]
      OBVIOUS
    <3>1. i \in 1 .. Len(h) /\ i \in 1 .. Len(ha) /\ i \in 1 .. Len(hab)
      BY <1>7
    <3> QED  BY <1>4, <1>5, <1>6, <3>1
  <2> HIDE DEF all
  <2>2. t.network = 256 * all[1] + all[2] /\ t.node = all[3] /\ t.socket = all[4] /\ t.enumerator = all[5]
    BY <1>1, <2>1
  <2>3. 0 + 1 = 1 /\ 0 + 2 = 2 /\ 0 + 3 = 3 /\ 0 + 4 = 4 /\ 0 + 5 = 5
    OBVIOUS
  <2> QED  BY Zenon, <2>2, <2>3 DEF FieldsAt
<1>9. PStringAt(all, 0 + 5, t.object)
  <2>1. all = ha \o bc /\ bc \in Seq(uint8_t)
    <3>1. h \in Seq(uint8_t) /\ a \in Seq(uint8_t) /\ b \in Seq(uint8_t) /\ c \in Seq(uint8_t)
          /\ ha \in Seq(uint8_t)
      BY <1>1, <1>2, <1>4
    <3> HIDE DEF a, b, c, ha
    <3>2. (ha \o b) \o c = ha \o (b \o c) /\ b \o c \in Seq(uint8_t)
      BY SMTT(40), <3>1
    <3> QED  BY <3>2
  <2>2. PStringAt((h \o a) \o bc, Len(h), t.object)
    <3> HIDE DEF bc
    <3> QED  BY <1>1, <2>1, PStringPlaced
  <2>3. 0 + 5 = Len(h)
    BY <1>7
  <2> HIDE DEF bc
  <2> QED  BY Zenon, <2>1, <2>2, <2>3
<1>10. PStringAt(all, TypeOffset(0, t), t.type)
  <2>1. PStringAt((ha \o b) \o c, Len(ha), t.type)
    <3>1. ha \in Seq(uint8_t) /\ c \in Seq(uint8_t) /\ t.type \in PStrings
      BY <1>1, <1>2, <1>4
    <3> HIDE DEF ha, c
    <3> QED  BY <3>1, PStringPlaced
  <2>2. TypeOffset(0, t) = Len(ha)
    <3> HIDE DEF ha
    <3> QED  BY <1>7 DEF TypeOffset
  <2> QED  BY Zenon, <2>1, <2>2
<1>11. PStringAt(all, ZoneOffset(0, t), t.zone)
  <2>1. PStringAt(hab \o c, Len(hab), t.zone)
    <3>1. hab \in Seq(uint8_t) /\ t.zone \in PStrings
      BY <1>1, <1>5
    <3> HIDE DEF hab
    <3> QED  BY <3>1, PStringPlaced
  <2>2. ZoneOffset(0, t) = Len(hab)
    <3> HIDE DEF hab
    <3> QED  BY <1>7 DEF ZoneOffset
  <2> QED  BY Zenon, <2>1, <2>2
<1> QED  BY Zenon, <1>3, <1>8, <1>9, <1>10, <1>11 DEF TupleAt

(* The tuples before a tuple are at the beginning of those up to it.        *)
LEMMA TuplesBegin ==
  ASSUME NEW tuples \in Seq(Tuples), NEW k \in 0 .. Len(tuples), NEW m \in k .. Len(tuples)
  PROVE  /\ Len(EncodeTuples(tuples, k)) <= Len(EncodeTuples(tuples, m))
         /\ \A i \in 1 .. Len(EncodeTuples(tuples, k)) :
              EncodeTuples(tuples, m)[i] = EncodeTuples(tuples, k)[i]
<1> DEFINE n == Len(tuples)
           enc(i) == EncodeTuples(tuples, i)
           Begins(i) == /\ Len(enc(k)) <= Len(enc(i))
                        /\ \A j \in 1 .. Len(enc(k)) : enc(i)[j] = enc(k)[j]
           Fails == {i \in k .. n : ~Begins(i)}
<1>1. n \in Nat /\ \A i \in 0 .. n : enc(i) \in Seq(uint8_t) /\ Len(enc(i)) \in Nat
  <2>1. \A i \in 0 .. n : enc(i) \in Seq(uint8_t)
    BY TuplesBytes
  <2> QED  BY <2>1
<1>2. \A i \in 1 .. n : enc(i) = enc(i - 1) \o EncodeTuple(tuples[i])
  BY TuplesBytes
<1> HIDE DEF enc
<1>3. SUFFICES ASSUME Fails # {} PROVE FALSE
  <2>1. Begins(m)
    BY <1>3
  <2> QED  BY <2>1 DEF enc
<1>4. PICK i \in Fails : \A y \in Fails : i <= y
  <2>1. Fails \in SUBSET Nat
    OBVIOUS
  <2> HIDE DEF Fails
  <2> QED  BY <1>3, <2>1, LeastNumber
<1>5. i \in k .. n /\ ~Begins(i)
  BY <1>4
<1>6. Begins(k)
  BY <1>1
<1> HIDE DEF Begins
<1>7. i # k
  BY <1>5, <1>6
<1>8. i - 1 \in k .. n /\ ~(i <= i - 1) /\ i \in 1 .. n /\ i - 1 \in 0 .. n /\ i \in 0 .. n
  BY <1>1, <1>5, <1>7
<1>9. Begins(i - 1)
  <2>1. i - 1 \notin Fails
    <3> HIDE DEF Fails
    <3> QED  BY <1>4, <1>8
  <2> QED  BY <1>8, <2>1
<1>10. tuples[i] \in Tuples
  BY <1>8
<1> DEFINE short == enc(i - 1)
           long == enc(i)
           t == EncodeTuple(tuples[i])
<1>11. t \in Seq(uint8_t) /\ short \in Seq(uint8_t) /\ long = short \o t /\ Len(enc(k)) \in Nat
  BY <1>1, <1>2, <1>8, <1>10, TupleBytes
<1>12. Len(enc(k)) <= Len(short) /\ \A j \in 1 .. Len(enc(k)) : short[j] = enc(k)[j]
  BY <1>9 DEF Begins
<1> HIDE DEF short, long, t
<1>13. Len(short \o t) = Len(short) + Len(t) /\ Len(short) \in Nat /\ Len(t) \in Nat
       /\ \A j \in 1 .. Len(short) : (short \o t)[j] = short[j]
  BY <1>11, Concat
<1>14. Len(enc(k)) <= Len(long)
  BY <1>11, <1>12, <1>13
<1>15. \A j \in 1 .. Len(enc(k)) : long[j] = enc(k)[j]
  <2> SUFFICES ASSUME NEW j \in 1 .. Len(enc(k)) PROVE long[j] = enc(k)[j]
    OBVIOUS
  <2>1. j \in 1 .. Len(short)
    BY <1>11, <1>12, <1>13
  <2> QED  BY <1>11, <1>12, <1>13, <2>1
<1> QED  BY <1>5, <1>14, <1>15 DEF Begins, long

(* Strings and tuples that are part of more bytes.                          *)
LEMMA PStringMoves ==
  ASSUME NEW a, NEW b, NEW o \in Nat, NEW e \in Nat, NEW str \in PStrings, NEW size \in Nat,
         PStringAt(a, o, str), o + 1 + Len(str) <= size,
         \A j \in 1 .. size : b[e + j] = a[j]
  PROVE  PStringAt(b, e + o, str)
<1> DEFINE n == Len(str)
<1>1. n \in Nat
  BY PStringBytes
<1>2. a[o + 1] = n /\ \A i \in 1 .. n : a[o + 1 + i] = str[i]
  BY DEF PStringAt
<1>3. o + 1 + n <= size
  OBVIOUS
<1> HIDE DEF n
<1>4. b[e + o + 1] = n
  <2>1. o + 1 \in 1 .. size /\ e + (o + 1) = e + o + 1
    BY <1>1, <1>3
  <2>2. b[e + (o + 1)] = a[o + 1]
    BY <2>1
  <2> QED  BY <1>2, <2>1, <2>2
<1>5. ASSUME NEW i \in 1 .. n PROVE b[e + o + 1 + i] = str[i]
  <2>1. o + 1 + i \in 1 .. size /\ e + (o + 1 + i) = e + o + 1 + i
    BY <1>1, <1>3
  <2>2. b[e + (o + 1 + i)] = a[o + 1 + i]
    BY <2>1
  <2> QED  BY <1>2, <2>1, <2>2
<1> QED  BY <1>4, <1>5 DEF PStringAt, n

LEMMA TupleMoves ==
  ASSUME NEW a, NEW b, NEW e \in Nat, NEW t \in Tuples, TupleAt(a, 0, t),
         \A j \in 1 .. NextTuple(0, t) : b[e + j] = a[j]
  PROVE  TupleAt(b, e, t)
<1> DEFINE size == NextTuple(0, t)
           x == Len(t.object)
           y == Len(t.type)
           z == Len(t.zone)
<1>1. t.object \in PStrings /\ t.type \in PStrings /\ t.zone \in PStrings
  BY TupleFields
<1>2. x \in Nat /\ y \in Nat /\ z \in Nat
  BY <1>1, PStringBytes
<1>3. /\ FieldsAt(a, 0, t) /\ PStringAt(a, 0 + 5, t.object)
      /\ PStringAt(a, TypeOffset(0, t), t.type) /\ PStringAt(a, ZoneOffset(0, t), t.zone)
  BY DEF TupleAt
<1>4. /\ size \in Nat /\ size = 8 + x + y + z
      /\ TypeOffset(0, t) = 6 + x /\ ZoneOffset(0, t) = 7 + x + y /\ 0 + 5 = 5
      /\ TypeOffset(e, t) = e + (6 + x) /\ ZoneOffset(e, t) = e + (7 + x + y)
  <2>1. /\ size = 0 + 8 + x + y + z /\ TypeOffset(0, t) = 0 + 6 + x /\ ZoneOffset(0, t) = 0 + 7 + x + y
        /\ TypeOffset(e, t) = e + 6 + x /\ ZoneOffset(e, t) = e + 7 + x + y
    BY DEF NextTuple, TypeOffset, ZoneOffset
  <2> HIDE DEF size, x, y, z
  <2> QED  BY <1>2, <2>1
<1>5. \A j \in 1 .. size : b[e + j] = a[j]
  OBVIOUS
<1> HIDE DEF size
<1>6. FieldsAt(b, e, t)
  <2>1. \A j \in {1, 2, 3, 4, 5} : b[e + j] = a[j]
    <3> HIDE DEF x, y, z
    <3>1. \A j \in {1, 2, 3, 4, 5} : j \in 1 .. size
      BY <1>2, <1>4
    <3> QED  BY <1>5, <3>1
  <2>2. /\ t.network = 256 * a[1] + a[2]
        /\ t.node = a[3] /\ t.socket = a[4] /\ t.enumerator = a[5]
    <3>1. 0 + 1 = 1 /\ 0 + 2 = 2 /\ 0 + 3 = 3 /\ 0 + 4 = 4 /\ 0 + 5 = 5
      OBVIOUS
    <3> QED  BY Zenon, <1>3, <3>1 DEF FieldsAt
  <2>3. /\ b[e + 1] = a[1] /\ b[e + 2] = a[2] /\ b[e + 3] = a[3] /\ b[e + 4] = a[4]
        /\ b[e + 5] = a[5]
    BY <2>1
  <2> QED  BY Zenon, <2>2, <2>3 DEF FieldsAt
<1>7. PStringAt(b, e + 5, t.object)
  <2> DEFINE o == 5
  <2>1. o \in Nat /\ o + 1 + x <= size
    <3> HIDE DEF x, y, z
    <3> QED  BY <1>2, <1>4
  <2>2. PStringAt(a, o, t.object)
    BY <1>3, <1>4
  <2> HIDE DEF o
  <2>3. PStringAt(b, e + o, t.object)
    BY <1>1, <1>4, <1>5, <2>1, <2>2, PStringMoves
  <2> QED  BY <2>3 DEF o
<1>8. PStringAt(b, TypeOffset(e, t), t.type)
  <2> DEFINE o == 6 + x
  <2>1. o \in Nat /\ o + 1 + y <= size
    <3> HIDE DEF x, y, z
    <3> QED  BY <1>2, <1>4
  <2>2. PStringAt(a, o, t.type) /\ TypeOffset(e, t) = e + o
    BY <1>3, <1>4
  <2> HIDE DEF o
  <2>3. PStringAt(b, e + o, t.type)
    BY ZenonT(60), <1>1, <1>4, <1>5, <2>1, <2>2, PStringMoves
  <2> QED  BY <2>2, <2>3
<1>9. PStringAt(b, ZoneOffset(e, t), t.zone)
  <2> DEFINE o == 7 + x + y
  <2>1. o \in Nat /\ o + 1 + z <= size
    <3> HIDE DEF x, y, z
    <3> QED  BY <1>2, <1>4
  <2>2. PStringAt(a, o, t.zone) /\ ZoneOffset(e, t) = e + o
    BY <1>3, <1>4
  <2> HIDE DEF o
  <2>3. PStringAt(b, e + o, t.zone)
    BY ZenonT(60), <1>1, <1>4, <1>5, <2>1, <2>2, PStringMoves
  <2> QED  BY <2>2, <2>3
<1> QED  BY <1>6, <1>7, <1>8, <1>9 DEF TupleAt

(* Where count tuples of a frame end.                                       *)
EndOf(f, count) == HeaderLength(f) + 2 + Len(EncodeTuples(f.tuples, count))

LEMMA Ends ==
  ASSUME NEW f \in Frames, IsNbp(f)
  PROVE  /\ \A k \in 0 .. Len(f.tuples) :
              /\ EndOf(f, k) \in Nat /\ EndOf(f, k) <= Len(Wire(f)) - 2
              /\ HeaderLength(f) + Len(NbpBody(f, k)) = EndOf(f, k)
         /\ EndOf(f, 0) = HeaderLength(f) + 2
         /\ EndOf(f, Len(f.tuples)) = Len(Wire(f)) - 2
<1> DEFINE n == Len(f.tuples)
           h == HeaderLength(f)
           size(k) == Len(EncodeTuples(f.tuples, k))
<1>1. IsDdp(f) /\ f.tuples \in Seq(Tuples) /\ n \in Nat
  <2>1. f.tuples \in Seq(Tuples)
    BY FrameFacts
  <2> QED  BY <2>1 DEF IsNbp
<1>2. h \in {8, 16} /\ ~IsControl(f)
  BY <1>1, HeaderLengths
<1>3. \A k \in 0 .. n : size(k) \in Nat /\ size(k) <= size(n)
  <2> SUFFICES ASSUME NEW k \in 0 .. n PROVE size(k) \in Nat /\ size(k) <= size(n)
    OBVIOUS
  <2>1. n \in k .. n
    BY <1>1
  <2>2. EncodeTuples(f.tuples, k) \in Seq(uint8_t)
    BY <1>1, TuplesBytes
  <2> QED  BY <1>1, <2>1, <2>2, TuplesBegin
<1>4. \A k \in 0 .. n : Len(NbpBody(f, k)) = 2 + size(k)
  BY <1>1, NbpBytes
<1>5. Len(Wire(f)) = h + (2 + size(n)) + 2
  <2>1. Body(f) = NbpBody(f, n)
    BY DEF Body, IsNbp, IsAtp
  <2>2. Len(Wire(f)) = h + Len(Body(f)) + 2
    BY <1>2, WireBytes
  <2>3. Len(NbpBody(f, n)) = 2 + size(n)
    BY <1>1, <1>4
  <2> QED  BY <2>1, <2>2, <2>3
<1>6. size(0) = 0
  <2>1. EncodeTuples(f.tuples, 0) = <<>>
    BY <1>1, TuplesBytes
  <2> QED  BY <2>1
<1>7. \A k : EndOf(f, k) = h + 2 + size(k)
  BY DEF EndOf
<1> HIDE DEF n, h, size
<1>8. ASSUME NEW k \in 0 .. n
      PROVE  /\ EndOf(f, k) \in Nat /\ EndOf(f, k) <= Len(Wire(f)) - 2
             /\ HeaderLength(f) + Len(NbpBody(f, k)) = EndOf(f, k)
  <2> DEFINE s == size(k)
             all == size(n)
  <2>1. n \in 0 .. n
    BY <1>1
  <2>2. s \in Nat /\ s <= all /\ all \in Nat /\ EndOf(f, k) = h + 2 + s
        /\ Len(Wire(f)) = h + (2 + all) + 2 /\ Len(NbpBody(f, k)) = 2 + s
    BY <1>3, <1>4, <1>5, <1>7, <2>1
  <2> HIDE DEF s, all
  <2>3. h + Len(NbpBody(f, k)) = EndOf(f, k)
    BY <1>2, <2>2
  <2>4. EndOf(f, k) \in Nat /\ EndOf(f, k) <= Len(Wire(f)) - 2
    BY <1>2, <2>2
  <2> QED  BY <2>3, <2>4 DEF h
<1>9. EndOf(f, 0) = h + 2
  BY <1>2, <1>6, <1>7
<1>10. EndOf(f, n) = Len(Wire(f)) - 2
  <2> DEFINE all == size(n)
  <2>1. n \in 0 .. n
    BY <1>1
  <2>2. all \in Nat /\ EndOf(f, n) = h + 2 + all /\ Len(Wire(f)) = h + (2 + all) + 2
    BY <1>3, <1>5, <1>7, <2>1
  <2> HIDE DEF all
  <2> QED  BY <1>2, <2>2
<1> QED  BY <1>8, <1>9, <1>10 DEF n, h

(* Each tuple is where those before it end.                                 *)
LEMMA TuplesInFrame ==
  ASSUME NEW f \in Frames, IsNbp(f), NEW k \in 1 .. Len(f.tuples)
  PROVE  /\ TupleAt(Wire(f), EndOf(f, k - 1), f.tuples[k])
         /\ EndOf(f, k) = NextTuple(EndOf(f, k - 1), f.tuples[k])
         /\ f.tuples[k] \in Tuples /\ EndOf(f, k - 1) \in Nat /\ k - 1 \in 0 .. Len(f.tuples)
<1> DEFINE n == Len(f.tuples)
           t == f.tuples[k]
           short == EncodeTuples(f.tuples, k - 1)
           long == EncodeTuples(f.tuples, k)
           all == EncodeTuples(f.tuples, n)
           enc == EncodeTuple(t)
           e == EndOf(f, k - 1)
           w == Wire(f)
           h == HeaderLength(f)
<1>1. IsDdp(f) /\ f.tuples \in Seq(Tuples) /\ n \in Nat
  <2>1. f.tuples \in Seq(Tuples)
    BY FrameFacts
  <2> QED  BY <2>1 DEF IsNbp
<1>2. /\ t \in Tuples /\ k - 1 \in 0 .. n /\ k \in 0 .. n /\ n \in k .. n /\ n \in 0 .. n
  BY <1>1
<1>3. /\ short \in Seq(uint8_t) /\ long = short \o enc /\ all \in Seq(uint8_t)
  <2> HIDE DEF short, long, all, enc
  <2> QED  BY <1>1, <1>2, TuplesBytes DEF short, long, all, enc
<1>4. enc \in Seq(uint8_t) /\ Len(enc) = NextTuple(0, t) /\ TupleAt(enc, 0, t)
  <2>1. enc \in Seq(uint8_t) /\ Len(enc) = 8 + Len(t.object) + Len(t.type) + Len(t.zone)
    BY <1>2, TupleBytes
  <2>2. TupleAt(enc, 0, t)
    BY <1>2, TuplePieces
  <2>3. NextTuple(0, t) = 8 + Len(t.object) + Len(t.type) + Len(t.zone)
    BY DEF NextTuple
  <2> QED  BY Zenon, <2>1, <2>2, <2>3
<1>5. Len(long) <= Len(all) /\ \A i \in 1 .. Len(long) : all[i] = long[i]
  BY <1>1, <1>2, TuplesBegin
<1>6. e = h + 2 + Len(short) /\ e \in Nat /\ EndOf(f, k) = h + 2 + Len(long)
  <2>1. e \in Nat
    BY <1>2, Ends
  <2> QED  BY <2>1 DEF EndOf
<1>7. \A i \in 1 .. 2 + Len(all) : w[h + i] = Body(f)[i]
  <2>1. Body(f) = NbpBody(f, n)
    BY DEF Body, IsNbp, IsAtp
  <2>2. Len(Body(f)) = 2 + Len(all)
    BY <1>1, <1>2, <2>1, NbpBytes
  <2>3. DataBytes(f, w)
    BY <1>1, HeaderLengths, WireBytes
  <2> QED  BY <2>2, <2>3 DEF DataBytes
<1>8. \A i \in 1 .. Len(all) : Body(f)[2 + i] = all[i]
  <2>1. Body(f) = NbpBody(f, n)
    BY DEF Body, IsNbp, IsAtp
  <2> QED  BY <1>1, <1>2, <2>1, NbpBytes
<1>9. h \in Nat
  BY HeaderLengths
<1> HIDE DEF n, t, short, long, all, enc, e, w, h
<1>10. /\ Len(short \o enc) = Len(short) + Len(enc) /\ Len(short) \in Nat /\ Len(enc) \in Nat
       /\ \A i \in 1 .. Len(enc) : (short \o enc)[Len(short) + i] = enc[i]
  <2>1. short \in Seq(uint8_t) /\ enc \in Seq(uint8_t)
    BY <1>3, <1>4
  <2> QED  BY <2>1, Concat
<1>11. \A j \in 1 .. Len(enc) : w[e + j] = enc[j]
  <2> SUFFICES ASSUME NEW j \in 1 .. Len(enc) PROVE w[e + j] = enc[j]
    OBVIOUS
  <2> DEFINE s == Len(short)
             i == s + j
             total == Len(all)
  <2>1. s \in Nat /\ i \in 1 .. Len(long) /\ total \in Nat /\ i \in 1 .. total
    <3>1. s \in Nat /\ Len(long) = s + Len(enc) /\ Len(enc) \in Nat /\ Len(long) <= total
          /\ total \in Nat
      BY <1>3, <1>5, <1>10
    <3> HIDE DEF s, total
    <3> QED  BY <3>1
  <2>2. 2 + i \in 1 .. 2 + total /\ h + (2 + i) = e + j
    <3> HIDE DEF i, total
    <3>1. i = s + j /\ e = h + 2 + s
      BY <1>6 DEF i
    <3> HIDE DEF s
    <3> QED  BY <1>9, <2>1, <3>1
  <2>3. w[h + (2 + i)] = Body(f)[2 + i]
    <3> HIDE DEF i
    <3> QED  BY <1>7, <2>2
  <2>4. Body(f)[2 + i] = all[i] /\ all[i] = long[i]
    <3> HIDE DEF i
    <3> QED  BY <1>5, <1>8, <2>1
  <2>5. long[i] = enc[j]
    BY <1>3, <1>10
  <2> QED  BY Zenon, <2>2, <2>3, <2>4, <2>5
<1>12. TupleAt(w, e, t)
  <2>1. \A j \in 1 .. NextTuple(0, t) : w[e + j] = enc[j]
    BY <1>4, <1>11
  <2> QED  BY <1>2, <1>4, <1>6, <2>1, TupleMoves
<1>13. EndOf(f, k) = NextTuple(e, t)
  <2> DEFINE x == Len(t.object)
             y == Len(t.type)
             z == Len(t.zone)
             s == Len(short)
  <2>1. NextTuple(e, t) = e + 8 + x + y + z /\ NextTuple(0, t) = 0 + 8 + x + y + z
    BY DEF NextTuple
  <2>2. t.object \in PStrings /\ t.type \in PStrings /\ t.zone \in PStrings
    BY <1>2, TupleFields
  <2>3. x \in Nat /\ y \in Nat /\ z \in Nat /\ s \in Nat
    BY <1>10, <2>2, PStringBytes
  <2>4. Len(long) = s + Len(enc) /\ Len(enc) = 0 + 8 + x + y + z
    BY <1>3, <1>4, <1>10, <2>1
  <2>5. e = h + 2 + s
    BY <1>6
  <2> HIDE DEF x, y, z, s
  <2>6. h + 2 + Len(long) = e + 8 + x + y + z
    BY <1>9, <2>3, <2>4, <2>5
  <2> QED  BY <1>6, <2>1, <2>6
<1> QED  BY <1>2, <1>6, <1>12, <1>13 DEF e, t, w, n

-----------------------------------------------------------------------------
(* Tuples: how they are read.                                               *)

LEMMA ShortEnough ==
  ASSUME NEW f \in Frames, NEW p, BeginningOf(p, f)
  PROVE  Len(p) \in 0 .. 605 /\ Len(p) \in Nat /\ Len(p) <= Len(Wire(f)) /\ PastTheEnd = 1024
<1> DEFINE n == Len(p)
           m == Len(Wire(f))
<1>1. n \in 0 .. m /\ m \in 5 .. 605
  BY ZenonT(60), WireBytes DEF BeginningOf
<1> HIDE DEF n, m
<1>2. n \in 0 .. 605 /\ n \in Nat /\ n <= m
  BY <1>1
<1> QED  BY <1>2 DEF n, m, PastTheEnd

StringRead(p, o, str) ==
  /\ Len(p) >= o + 1 + Len(str) => /\ read_pstring(p, o).ok
                                   /\ read_pstring(p, o).str = str
                                   /\ read_pstring(p, o).next = o + 1 + Len(str)
  /\ Len(p) < o + 1 + Len(str) => /\ ~read_pstring(p, o).ok
                                  /\ read_pstring(p, o).next = PastTheEnd
  /\ Len(p) >= o + 1 => skip_pstring(p, o) = o + 1 + Len(str)
  /\ Len(p) < o + 1 => skip_pstring(p, o) = PastTheEnd

(* A string is read if all of it has come, and skipped if its length has.   *)
LEMMA ReadString ==
  ASSUME NEW f \in Frames, NEW p, BeginningOf(p, f), NEW str \in PStrings, NEW o \in Nat,
         PStringAt(Wire(f), o, str)
  PROVE  StringRead(p, o, str)
<1> DEFINE w == Wire(f)
           n == Len(p)
           m == Len(str)
           r == read_pstring(p, o)
<1>1. n \in Nat /\ m \in Nat /\ str \in Seq(uint8_t)
  <2>1. n \in Nat
    BY ZenonT(60), ShortEnough
  <2>2. str \in Seq(uint8_t)
    BY Zenon DEF PStrings
  <2> QED  BY <2>1, <2>2
<1>2. w[o + 1] = m /\ \A i \in 1 .. m : w[o + 1 + i] = str[i]
  BY DEF PStringAt
<1>3. \A i \in Nat : /\ o + i + 1 <= n => At(p, o + i) = w[o + i + 1]
                     /\ Has(p, o + i) <=> o + i + 1 <= n
  <2> SUFFICES ASSUME NEW i \in Nat
               PROVE  /\ o + i + 1 <= n => At(p, o + i) = w[o + i + 1]
                      /\ Has(p, o + i) <=> o + i + 1 <= n
    OBVIOUS
  <2> DEFINE j == o + i
             k == o + i + 1
  <2>1. j \in Nat /\ k \in Nat /\ k = j + 1
    OBVIOUS
  <2> HIDE DEF j, k
  <2>2. /\ k <= Len(p) => At(p, j) = Wire(f)[k]
        /\ Has(p, j) <=> k <= Len(p)
    BY <2>1, BytesAt
  <2> QED  BY <2>2 DEF j, k
<1> HIDE DEF w, n, m
<1>4. /\ o + 1 <= n => At(p, o) = m
      /\ Has(p, o) <=> o + 1 <= n
  <2>1. 0 \in Nat /\ o + 0 = o
    OBVIOUS
  <2>2. /\ o + 0 + 1 <= n => At(p, o + 0) = w[o + 0 + 1]
        /\ Has(p, o + 0) <=> o + 0 + 1 <= n
    BY <1>3, <2>1
  <2> QED  BY <1>2, <2>1, <2>2
<1>5. Has(p, o + m) <=> o + m + 1 <= n
  BY <1>1, <1>3
<1>6. /\ n >= o + 1 => skip_pstring(p, o) = o + 1 + m
      /\ n < o + 1 => skip_pstring(p, o) = PastTheEnd
  <2>1. CASE n >= o + 1
    <3>1. Has(p, o) /\ At(p, o) = m
      BY <1>1, <1>4, <2>1
    <3>2. skip_pstring(p, o) = o + m + 1
      BY <3>1 DEF skip_pstring
    <3> QED  BY <1>1, <2>1, <3>2
  <2>2. CASE n < o + 1
    <3>1. ~Has(p, o)
      BY <1>1, <1>4, <2>2
    <3> QED  BY <1>1, <2>2, <3>1 DEF skip_pstring
  <2> QED  BY <1>1, <2>1, <2>2
<1>7. ASSUME n >= o + 1 + m
      PROVE  r.ok /\ r.str = str /\ r.next = o + 1 + m
  <2>1. o + 1 <= n /\ o + m + 1 <= n
    BY <1>1, <1>7
  <2>2. Has(p, o) /\ At(p, o) = m /\ Has(p, o + m)
    BY <1>4, <1>5, <2>1
  <2>3. r = [ok |-> TRUE, str |-> [i \in 1 .. m |-> At(p, o + i)], next |-> o + m + 1]
    BY <2>2 DEF read_pstring
  <2>4. [i \in 1 .. m |-> At(p, o + i)] = str
    <3>1. \A i \in 1 .. m : At(p, o + i) = str[i]
      <4> SUFFICES ASSUME NEW i \in 1 .. m PROVE At(p, o + i) = str[i]
        OBVIOUS
      <4>1. i \in Nat /\ o + i + 1 <= n /\ o + i + 1 = o + 1 + i
        BY <1>1, <1>7
      <4>2. At(p, o + i) = w[o + i + 1]
        BY <1>3, <4>1
      <4> QED  BY <1>2, <4>1, <4>2
    <3> DEFINE read == [i \in 1 .. m |-> At(p, o + i)]
    <3>2. str = [i \in 1 .. m |-> str[i]]
      BY <1>1 DEF m
    <3> QED  BY <3>1, <3>2
  <2>5. o + m + 1 = o + 1 + m
    BY <1>1
  <2> HIDE DEF r
  <2> QED  BY <2>3, <2>4, <2>5
<1>8. ASSUME n < o + 1 + m
      PROVE  ~r.ok /\ r.next = PastTheEnd
  <2>1. ~(Has(p, o) /\ Has(p, o + At(p, o)))
    <3>1. CASE o + 1 <= n
      <4>1. At(p, o) = m /\ ~(o + m + 1 <= n)
        BY <1>1, <1>4, <1>8, <3>1
      <4> QED  BY <1>5, <4>1
    <3>2. CASE ~(o + 1 <= n)
      BY <1>4, <3>2
    <3> QED  BY <3>1, <3>2
  <2>2. r = [ok |-> FALSE, str |-> <<>>, next |-> PastTheEnd]
    BY <2>1 DEF read_pstring
  <2> HIDE DEF r
  <2> QED  BY <2>2
<1> QED  BY <1>6, <1>7, <1>8 DEF n, m, StringRead

(* Past the end there is no string, ...                                     *)
LEMMA PastIsPast ==
  ASSUME NEW f \in Frames, NEW p, BeginningOf(p, f), NEW o \in Nat, o >= 1024
  PROVE  /\ ~Has(p, o) /\ skip_pstring(p, o) = PastTheEnd
         /\ ~read_pstring(p, o).ok /\ read_pstring(p, o).next = PastTheEnd
<1>1. ~Has(p, o)
  <2> DEFINE n == Len(p)
  <2>1. n \in 0 .. 605
    BY ZenonT(60), ShortEnough
  <2> HIDE DEF n
  <2>2. ~(n > o)
    BY <2>1
  <2> QED  BY <2>2 DEF Has, n
<1>2. read_pstring(p, o) = [ok |-> FALSE, str |-> <<>>, next |-> PastTheEnd]
  BY <1>1 DEF read_pstring
<1> QED  BY <1>1, <1>2 DEF skip_pstring

LEMMA PastAgain ==
  ASSUME NEW f \in Frames, NEW p, BeginningOf(p, f)
  PROVE  /\ ~Has(p, PastTheEnd) /\ skip_pstring(p, PastTheEnd) = PastTheEnd
         /\ ~read_pstring(p, PastTheEnd).ok
         /\ read_pstring(p, PastTheEnd).next = PastTheEnd
<1>1. PastTheEnd \in Nat /\ PastTheEnd >= 1024
  <2>1. PastTheEnd = 1024
    BY ZenonT(60), ShortEnough
  <2> QED  BY <2>1
<1> QED  BY <1>1, PastIsPast

(* What nbp_tuple reads at its cursor.                                      *)
ReadAt(p, cursor) ==
  LET object == read_pstring(p, cursor + 5)
      type == read_pstring(p, object.next)
      zone == read_pstring(p, type.next)
  IN  IF ~Has(p, cursor + 4) \/ ~zone.ok THEN NotOk
      ELSE [ok |-> TRUE,
            network |-> 256 * At(p, cursor) + At(p, cursor + 1),
            node |-> At(p, cursor + 2),
            socket |-> At(p, cursor + 3),
            enumerator |-> At(p, cursor + 4),
            object |-> object.str, type |-> type.str, zone |-> zone.str]

LEMMA TupleIsReadAt == \A p, k : nbp_tuple(p, k) = ReadAt(p, TupleOffset(p, k))
BY DEF nbp_tuple, ReadAt

(* A tuple read as it was sent.                                             *)
ReadsAs(r, t) == r.ok /\ \A field \in DOMAIN t : r[field] = t[field]

LEMMA SameFields ==
  ASSUME NEW t \in Tuples, NEW r,
         r = [ok |-> TRUE, network |-> t.network, node |-> t.node, socket |-> t.socket,
              enumerator |-> t.enumerator, object |-> t.object, type |-> t.type, zone |-> t.zone]
  PROVE  ReadsAs(r, t)
<1>1. r.ok
  OBVIOUS
<1>2. DOMAIN t = {"network", "node", "socket", "enumerator", "object", "type", "zone"}
  BY DEF Tuples
<1>3. ASSUME NEW field \in DOMAIN t PROVE r[field] = t[field]
  BY <1>2
<1> QED  BY <1>1, <1>3 DEF ReadsAs

(* A tuple is read if all of it has come.                                   *)
LEMMA ReadTuple ==
  ASSUME NEW f \in Frames, NEW p, BeginningOf(p, f), NEW t \in Tuples, NEW e \in Nat,
         TupleAt(Wire(f), e, t)
  PROVE  /\ Len(p) >= NextTuple(e, t) => ReadsAs(ReadAt(p, e), t)
         /\ Len(p) < NextTuple(e, t) => ReadAt(p, e) = NotOk
<1> DEFINE w == Wire(f)
           n == Len(p)
           x == Len(t.object)
           y == Len(t.type)
           z == Len(t.zone)
           e1 == e + 5
           e2 == TypeOffset(e, t)
           e3 == ZoneOffset(e, t)
           object == read_pstring(p, e + 5)
           type == read_pstring(p, object.next)
           zone == read_pstring(p, type.next)
<1>1. t.object \in PStrings /\ t.type \in PStrings /\ t.zone \in PStrings
  BY TupleFields
<1>2. x \in Nat /\ y \in Nat /\ z \in Nat /\ n \in Nat
  <2>1. n \in Nat
    BY ZenonT(60), ShortEnough
  <2>2. x \in Nat /\ y \in Nat /\ z \in Nat
    BY <1>1, PStringBytes
  <2> QED  BY <2>1, <2>2
<1>3. /\ e1 = e + 5 /\ e2 = e + 6 + x /\ e3 = e + 7 + x + y
      /\ NextTuple(e, t) = e + 8 + x + y + z
  BY DEF TypeOffset, ZoneOffset, NextTuple
<1>4. /\ FieldsAt(w, e, t) /\ PStringAt(w, e1, t.object) /\ PStringAt(w, e2, t.type)
      /\ PStringAt(w, e3, t.zone)
  BY DEF TupleAt
<1> HIDE DEF e1, e2, e3, x, y, z, n
<1>5. e1 \in Nat /\ e2 \in Nat /\ e3 \in Nat /\ e2 = e1 + 1 + x /\ e3 = e2 + 1 + y
      /\ NextTuple(e, t) = e3 + 1 + z
  BY <1>2, <1>3
<1>6. /\ n >= e2 => object.ok /\ object.str = t.object /\ object.next = e2
      /\ n < e2 => object.next = PastTheEnd
  <2> DEFINE r == read_pstring(p, e1)
  <2>1. /\ n >= e1 + 1 + x => r.ok /\ r.str = t.object /\ r.next = e1 + 1 + x
        /\ n < e1 + 1 + x => ~r.ok /\ r.next = PastTheEnd
    <3> DEFINE str == t.object
    <3>1. str \in PStrings /\ e1 \in Nat /\ PStringAt(Wire(f), e1, str)
      BY <1>1, <1>4, <1>5 DEF w
    <3> HIDE DEF str
    <3>2. StringRead(p, e1, str)
      BY <3>1, ReadString
    <3> QED  BY Zenon, <3>2 DEF str, n, x, StringRead
  <2>2. object = r
    BY <1>3
  <2> HIDE DEF r, object
  <2> QED  BY <1>5, <2>1, <2>2
<1>7. /\ n >= e3 => type.ok /\ type.str = t.type /\ type.next = e3
      /\ n < e3 => type.next = PastTheEnd
  <2> DEFINE r == read_pstring(p, e2)
  <2>1. /\ n >= e2 + 1 + y => r.ok /\ r.str = t.type /\ r.next = e2 + 1 + y
        /\ n < e2 + 1 + y => ~r.ok /\ r.next = PastTheEnd
    <3> DEFINE str == t.type
    <3>1. str \in PStrings /\ e2 \in Nat /\ PStringAt(Wire(f), e2, str)
      BY <1>1, <1>4, <1>5 DEF w
    <3> HIDE DEF str
    <3>2. StringRead(p, e2, str)
      BY <3>1, ReadString
    <3> QED  BY Zenon, <3>2 DEF str, n, y, StringRead
  <2>2. CASE n >= e2
    <3>1. type = r
      BY <1>6, <2>2
    <3> HIDE DEF r, type
    <3> QED  BY <1>5, <2>1, <3>1
  <2>3. CASE n < e2
    <3>1. type.next = PastTheEnd
      <4>1. object.next = PastTheEnd
        BY <1>6, <2>3
      <4>2. read_pstring(p, PastTheEnd).next = PastTheEnd
        BY PastAgain
      <4> HIDE DEF object
      <4> QED  BY Zenon, <4>1, <4>2
    <3>2. ~(n >= e3)
      BY <1>2, <1>5, <2>3
    <3> HIDE DEF type
    <3> QED  BY <3>1, <3>2
  <2> QED  BY <1>2, <1>5, <2>2, <2>3
<1>8. /\ n >= NextTuple(e, t) => zone.ok /\ zone.str = t.zone
      /\ n < NextTuple(e, t) => ~zone.ok
  <2> DEFINE r == read_pstring(p, e3)
  <2>1. /\ n >= e3 + 1 + z => r.ok /\ r.str = t.zone
        /\ n < e3 + 1 + z => ~r.ok
    <3> DEFINE str == t.zone
    <3>1. str \in PStrings /\ e3 \in Nat /\ PStringAt(Wire(f), e3, str)
      BY <1>1, <1>4, <1>5 DEF w
    <3> HIDE DEF str
    <3>2. StringRead(p, e3, str)
      BY <3>1, ReadString
    <3> QED  BY Zenon, <3>2 DEF str, n, z, StringRead
  <2>2. CASE n >= e3
    <3>1. zone = r
      BY <1>7, <2>2
    <3> HIDE DEF r, zone
    <3> QED  BY <1>5, <2>1, <3>1
  <2>3. CASE n < e3
    <3>1. ~zone.ok
      <4>1. type.next = PastTheEnd
        BY <1>7, <2>3
      <4>2. ~read_pstring(p, PastTheEnd).ok
        BY PastAgain
      <4> HIDE DEF type
      <4> QED  BY Zenon, <4>1, <4>2
    <3>2. ~(n >= NextTuple(e, t))
      BY <1>2, <1>5, <2>3
    <3> HIDE DEF zone
    <3> QED  BY <3>1, <3>2
  <2> QED  BY <1>2, <1>5, <2>2, <2>3
<1>9. ReadAt(p, e) =
        IF ~Has(p, e + 4) \/ ~zone.ok THEN NotOk
        ELSE [ok |-> TRUE, network |-> 256 * At(p, e) + At(p, e + 1), node |-> At(p, e + 2),
              socket |-> At(p, e + 3), enumerator |-> At(p, e + 4),
              object |-> object.str, type |-> type.str, zone |-> zone.str]
  BY Zenon DEF ReadAt
<1> HIDE DEF object, type, zone
<1>10. ASSUME n >= NextTuple(e, t) PROVE ReadsAs(ReadAt(p, e), t)
  <2>1. \A i \in {0, 1, 2, 3, 4} : At(p, e + i) = w[e + i + 1] /\ Has(p, e + i)
    <3> SUFFICES ASSUME NEW i \in {0, 1, 2, 3, 4} PROVE At(p, e + i) = w[e + i + 1] /\ Has(p, e + i)
      OBVIOUS
    <3> DEFINE j == e + i
               k == e + i + 1
    <3>1. j \in Nat /\ k \in Nat /\ k = j + 1 /\ k <= n
      BY <1>2, <1>3, <1>10
    <3> HIDE DEF j, k
    <3>2. At(p, j) = w[k] /\ Has(p, j)
      BY <3>1, BytesAt DEF n
    <3> QED  BY <3>2 DEF j, k
  <2>2. e + 0 = e /\ e + 0 + 1 = e + 1 /\ e + 1 + 1 = e + 2 /\ e + 2 + 1 = e + 3
        /\ e + 3 + 1 = e + 4 /\ e + 4 + 1 = e + 5
    OBVIOUS
  <2>3. /\ At(p, e) = w[e + 1] /\ At(p, e + 1) = w[e + 2] /\ At(p, e + 2) = w[e + 3]
        /\ At(p, e + 3) = w[e + 4] /\ At(p, e + 4) = w[e + 5] /\ Has(p, e + 4)
    BY <2>1, <2>2
  <2>4. /\ t.network = 256 * w[e + 1] + w[e + 2]
        /\ t.node = w[e + 3] /\ t.socket = w[e + 4] /\ t.enumerator = w[e + 5]
    BY <1>4 DEF FieldsAt
  <2>5. object.str = t.object /\ type.str = t.type /\ zone.ok /\ zone.str = t.zone
    <3>1. n >= e2 /\ n >= e3
      BY <1>2, <1>5, <1>10
    <3> QED  BY <1>6, <1>7, <1>8, <1>10, <3>1
  <2>6. ReadAt(p, e) =
          [ok |-> TRUE, network |-> t.network, node |-> t.node, socket |-> t.socket,
           enumerator |-> t.enumerator, object |-> t.object, type |-> t.type, zone |-> t.zone]
    <3>1. ~(~Has(p, e + 4) \/ ~zone.ok)
      BY <2>3, <2>5
    <3>2. ReadAt(p, e) =
            [ok |-> TRUE, network |-> 256 * At(p, e) + At(p, e + 1), node |-> At(p, e + 2),
             socket |-> At(p, e + 3), enumerator |-> At(p, e + 4),
             object |-> object.str, type |-> type.str, zone |-> zone.str]
      BY Zenon, <1>9, <3>1
    <3>3. /\ 256 * At(p, e) + At(p, e + 1) = t.network /\ At(p, e + 2) = t.node
          /\ At(p, e + 3) = t.socket /\ At(p, e + 4) = t.enumerator
      BY Zenon, <2>3, <2>4
    <3> QED  BY <3>2, <3>3, <2>5
  <2> QED  BY Zenon, <2>6, SameFields
<1>11. ASSUME n < NextTuple(e, t) PROVE ReadAt(p, e) = NotOk
  BY <1>8, <1>9, <1>11
<1> QED  BY Zenon, <1>10, <1>11 DEF n

(* The three strings of a tuple, skipped.                                   *)
Skip(p, c) == skip_pstring(p, skip_pstring(p, skip_pstring(p, c + 5)))
SkipStep(p, n) == [i \in 1 .. n |-> [cursor \in Nat |-> Skip(p, cursor)]]

LEMMA TupleOffsetIs ==
  \A p, n : TupleOffset(p, n) = Loop(SkipStep(p, n), ddp_payload_offset(p) + 2, n)
BY DEF TupleOffset, SkipStep, Skip

LEMMA SkipType ==
  ASSUME NEW p \in Seq(uint8_t), NEW c \in Nat
  PROVE  skip_pstring(p, c) \in Nat
<1> DEFINE a == At(p, c)
           n == Len(p)
<1>1. n \in Nat
  OBVIOUS
<1>2. Has(p, c) => a \in Nat
  <2> SUFFICES ASSUME Has(p, c) PROVE a \in Nat
    OBVIOUS
  <2>1. c < n /\ c + 1 \in 1 .. n
    BY <1>1 DEF Has
  <2>2. p[c + 1] \in uint8_t
    BY <2>1
  <2>3. a = p[c + 1]
    BY <2>1 DEF At
  <2>4. p[c + 1] \in Nat
    <3> DEFINE x == p[c + 1]
    <3>1. x \in uint8_t
      BY <2>2
    <3> HIDE DEF x
    <3>2. x \in Nat
      BY <3>1 DEF uint8_t
    <3> QED  BY <3>2 DEF x
  <2> QED  BY <2>3, <2>4
<1>3. PastTheEnd \in Nat
  BY DEF PastTheEnd
<1> HIDE DEF a
<1>4. a \in Nat => c + a + 1 \in Nat
  OBVIOUS
<1>5. skip_pstring(p, c) = IF Has(p, c) THEN c + a + 1 ELSE PastTheEnd
  BY DEF skip_pstring, a
<1> QED  BY <1>2, <1>3, <1>4, <1>5

LEMMA SkipInNat ==
  ASSUME NEW p \in Seq(uint8_t), NEW c \in Nat
  PROVE  Skip(p, c) \in Nat
<1> DEFINE s == skip_pstring(p, c + 5)
           u == skip_pstring(p, s)
<1>1. c + 5 \in Nat
  OBVIOUS
<1>2. s \in Nat
  BY <1>1, SkipType
<1> HIDE DEF s
<1>3. u \in Nat
  BY <1>2, SkipType
<1> HIDE DEF u
<1>4. skip_pstring(p, u) \in Nat
  BY <1>3, SkipType
<1> QED  BY <1>4 DEF Skip, u, s

(* Where nbp_tuple looks for each tuple.                                    *)
LEMMA Cursors ==
  ASSUME NEW p \in Seq(uint8_t), NEW n \in Nat, NEW start \in Nat,
         ddp_payload_offset(p) + 2 = start
  PROVE  /\ TupleOffset(p, 0) = start
         /\ \A k \in 1 .. n : TupleOffset(p, k) = Skip(p, TupleOffset(p, k - 1))
         /\ \A k \in 0 .. n : TupleOffset(p, k) \in Nat
<1> DEFINE a == SkipStep(p, n)
<1>1. \A k \in Nat : \A i \in 1 .. k : \A c \in Nat : SkipStep(p, k)[i][c] = Skip(p, c)
  BY DEF SkipStep
<1>2. \A k \in Nat : StepsWithin(Nat, SkipStep(p, k), k)
  BY <1>1, SkipInNat DEF StepsWithin
<1>3. \A k \in 0 .. n : StepsAgree(Nat, SkipStep(p, k), a, k)
  <2> SUFFICES ASSUME NEW k \in 0 .. n, NEW i \in 1 .. k, NEW c \in Nat
               PROVE  SkipStep(p, k)[i][c] = a[i][c]
    BY DEF StepsAgree
  <2>1. i \in 1 .. n /\ k \in Nat
    OBVIOUS
  <2> HIDE DEF a
  <2> QED  BY <1>1, <2>1 DEF a
<1>4. /\ Loop(a, start, 0) = start
      /\ \A k \in 1 .. n : Loop(a, start, k) = a[k][Loop(a, start, k - 1)]
      /\ \A k \in 0 .. n : Loop(a, start, k) \in Nat
  <2> DEFINE S == Nat
  <2>1. StepsWithin(S, a, n) /\ start \in S
    BY <1>2
  <2> HIDE DEF a, S
  <2>2. /\ Loop(a, start, 0) = start
        /\ \A k \in 1 .. n : Loop(a, start, k) = a[k][Loop(a, start, k - 1)]
        /\ \A k \in 0 .. n : Loop(a, start, k) \in S
    <3> DEFINE from == start
    <3>1. from \in S
      BY <2>1
    <3> HIDE DEF from
    <3>2. /\ Loop(a, from, 0) = from
          /\ \A k \in 1 .. n : Loop(a, from, k) = a[k][Loop(a, from, k - 1)]
          /\ \A k \in 0 .. n : Loop(a, from, k) \in S
      BY <2>1, <3>1, LoopSteps
    <3> QED  BY Zenon, <3>2 DEF from
  <2> QED  BY <2>2 DEF S
<1>5. \A k \in 0 .. n : TupleOffset(p, k) = Loop(a, start, k)
  <2> SUFFICES ASSUME NEW k \in 0 .. n PROVE TupleOffset(p, k) = Loop(a, start, k)
    OBVIOUS
  <2> DEFINE b == SkipStep(p, k)
  <2>1. StepsWithin(Nat, b, k) /\ StepsAgree(Nat, b, a, k) /\ k \in Nat
    BY <1>2, <1>3
  <2>2. TupleOffset(p, k) = Loop(b, start, k)
    BY Zenon, TupleOffsetIs
  <2> HIDE DEF a, b
  <2>3. Loop(b, start, k) = Loop(a, start, k)
    BY <2>1, SameLoops
  <2> QED  BY Zenon, <2>2, <2>3
<1>6. TupleOffset(p, 0) = start
  <2>1. 0 \in 0 .. n
    OBVIOUS
  <2> HIDE DEF a
  <2> QED  BY Zenon, <1>4, <1>5, <2>1
<1>7. \A k \in 0 .. n : TupleOffset(p, k) \in Nat
  <2> HIDE DEF a
  <2> QED  BY Zenon, <1>4, <1>5
<1>8. ASSUME NEW k \in 1 .. n PROVE TupleOffset(p, k) = Skip(p, TupleOffset(p, k - 1))
  <2>1. k \in 0 .. n /\ k - 1 \in 0 .. n
    OBVIOUS
  <2>2. TupleOffset(p, k) = a[k][TupleOffset(p, k - 1)]
    <3> HIDE DEF a
    <3> QED  BY Zenon, <1>4, <1>5, <2>1
  <2> QED  BY <1>1, <1>7, <2>1, <2>2
<1> QED  BY <1>6, <1>7, <1>8

(* Over a tuple, nbp_tuple skips to the next, or past the end.              *)
LEMMA SkipTuple ==
  ASSUME NEW f \in Frames, NEW p, BeginningOf(p, f), NEW t \in Tuples, NEW e \in Nat,
         TupleAt(Wire(f), e, t)
  PROVE  \/ Skip(p, e) = NextTuple(e, t)
         \/ Skip(p, e) = PastTheEnd /\ Len(p) < NextTuple(e, t)
<1> DEFINE w == Wire(f)
           n == Len(p)
           x == Len(t.object)
           y == Len(t.type)
           z == Len(t.zone)
           e1 == e + 5
           e2 == TypeOffset(e, t)
           e3 == ZoneOffset(e, t)
           a == skip_pstring(p, e + 5)
           b == skip_pstring(p, a)
           c == skip_pstring(p, b)
<1>1. t.object \in PStrings /\ t.type \in PStrings /\ t.zone \in PStrings
  BY TupleFields
<1>2. x \in Nat /\ y \in Nat /\ z \in Nat /\ n \in Nat
  <2>1. n \in Nat
    BY ZenonT(60), ShortEnough
  <2>2. x \in Nat /\ y \in Nat /\ z \in Nat
    BY <1>1, PStringBytes
  <2> QED  BY <2>1, <2>2
<1>3. /\ e1 = e + 5 /\ e2 = e + 6 + x /\ e3 = e + 7 + x + y
      /\ NextTuple(e, t) = e + 8 + x + y + z
  BY DEF TypeOffset, ZoneOffset, NextTuple
<1>4. /\ PStringAt(w, e1, t.object) /\ PStringAt(w, e2, t.type) /\ PStringAt(w, e3, t.zone)
  BY DEF TupleAt
<1> HIDE DEF e1, e2, e3, x, y, z, n
<1>5. e1 \in Nat /\ e2 \in Nat /\ e3 \in Nat /\ e2 = e1 + 1 + x /\ e3 = e2 + 1 + y
      /\ NextTuple(e, t) = e3 + 1 + z
  BY <1>2, <1>3
<1>6. StringRead(p, e1, t.object) /\ StringRead(p, e2, t.type) /\ StringRead(p, e3, t.zone)
  <2>1. StringRead(p, e1, t.object)
    <3> DEFINE str == t.object
    <3>1. str \in PStrings /\ e1 \in Nat /\ PStringAt(Wire(f), e1, str)
      BY <1>1, <1>4, <1>5 DEF w
    <3> HIDE DEF str
    <3>2. StringRead(p, e1, str)
      BY <3>1, ReadString
    <3> QED  BY <3>2 DEF str
  <2>2. StringRead(p, e2, t.type)
    <3> DEFINE str == t.type
    <3>1. str \in PStrings /\ e2 \in Nat /\ PStringAt(Wire(f), e2, str)
      BY <1>1, <1>4, <1>5 DEF w
    <3> HIDE DEF str
    <3>2. StringRead(p, e2, str)
      BY <3>1, ReadString
    <3> QED  BY <3>2 DEF str
  <2>3. StringRead(p, e3, t.zone)
    <3> DEFINE str == t.zone
    <3>1. str \in PStrings /\ e3 \in Nat /\ PStringAt(Wire(f), e3, str)
      BY <1>1, <1>4, <1>5 DEF w
    <3> HIDE DEF str
    <3>2. StringRead(p, e3, str)
      BY <3>1, ReadString
    <3> QED  BY <3>2 DEF str
  <2> QED  BY <2>1, <2>2, <2>3
<1>7. /\ n >= e1 + 1 => skip_pstring(p, e1) = e1 + 1 + x
      /\ n < e1 + 1 => skip_pstring(p, e1) = PastTheEnd
  BY Zenon, <1>6 DEF StringRead, n, x
<1>8. /\ n >= e2 + 1 => skip_pstring(p, e2) = e2 + 1 + y
      /\ n < e2 + 1 => skip_pstring(p, e2) = PastTheEnd
  BY Zenon, <1>6 DEF StringRead, n, y
<1>9. /\ n >= e3 + 1 => skip_pstring(p, e3) = e3 + 1 + z
      /\ n < e3 + 1 => skip_pstring(p, e3) = PastTheEnd
  BY Zenon, <1>6 DEF StringRead, n, z
<1>10. skip_pstring(p, PastTheEnd) = PastTheEnd
  BY PastAgain
<1>11. skip_pstring(p, e1) = a /\ skip_pstring(p, a) = b /\ skip_pstring(p, b) = c
       /\ Skip(p, e) = c
  BY <1>3 DEF Skip
<1> HIDE DEF a, b, c
<1>12. a = e2 \/ (a = PastTheEnd /\ n < e1 + 1)
  BY <1>2, <1>5, <1>7, <1>11
<1>13. b = e3 \/ (b = PastTheEnd /\ n < e2 + 1)
  <2>1. CASE a = e2
    BY <1>2, <1>5, <1>8, <1>11, <2>1
  <2>2. CASE a = PastTheEnd /\ n < e1 + 1
    <3>1. b = PastTheEnd
      BY <1>10, <1>11, <2>2
    <3>2. n < e2 + 1
      BY <1>2, <1>5, <2>2
    <3> QED  BY <3>1, <3>2
  <2> QED  BY <1>12, <2>1, <2>2
<1>14. c = NextTuple(e, t) \/ (c = PastTheEnd /\ n < NextTuple(e, t))
  <2>1. CASE b = e3
    <3>1. c = NextTuple(e, t) \/ (c = PastTheEnd /\ n < e3 + 1)
      BY <1>2, <1>5, <1>9, <1>11, <2>1
    <3>2. n < e3 + 1 => n < NextTuple(e, t)
      BY <1>2, <1>5
    <3> QED  BY <3>1, <3>2
  <2>2. CASE b = PastTheEnd /\ n < e2 + 1
    <3>1. c = PastTheEnd
      BY <1>10, <1>11, <2>2
    <3>2. n < NextTuple(e, t)
      BY <1>2, <1>5, <2>2
    <3> QED  BY <3>1, <3>2
  <2> QED  BY <1>13, <2>1, <2>2
<1> QED  BY <1>11, <1>14 DEF n

LEMMA SkipPast ==
  ASSUME NEW f \in Frames, NEW p, BeginningOf(p, f)
  PROVE  Skip(p, PastTheEnd) = PastTheEnd /\ ReadAt(p, PastTheEnd) = NotOk
<1> DEFINE o == PastTheEnd + 5
           q == PastTheEnd + 4
<1>1. o \in Nat /\ o >= 1024 /\ q \in Nat /\ q >= 1024
  <2>1. PastTheEnd = 1024
    BY ZenonT(60), ShortEnough
  <2> QED  BY <2>1
<1> HIDE DEF o, q
<1>2. skip_pstring(p, o) = PastTheEnd /\ ~Has(p, q)
  BY <1>1, PastIsPast
<1>3. skip_pstring(p, PastTheEnd) = PastTheEnd
  BY PastAgain
<1>4. Skip(p, PastTheEnd) = PastTheEnd
  BY Zenon, <1>2, <1>3 DEF Skip, o
<1>5. ReadAt(p, PastTheEnd) = NotOk
  BY Zenon, <1>2 DEF ReadAt, q
<1> QED  BY <1>4, <1>5

(* Where nbp_tuple looks for each tuple of a frame.                         *)
LEMMA CursorInFrame ==
  ASSUME NEW f \in Frames, NEW p, BeginningOf(p, f), IsNbp(f), Len(p) > 2,
         NEW k \in 0 .. Len(f.tuples)
  PROVE  \/ TupleOffset(p, k) = EndOf(f, k)
         \/ TupleOffset(p, k) = PastTheEnd /\ Len(p) < EndOf(f, k)
<1> DEFINE n == Len(f.tuples)
           m == Len(p)
           off(i) == TupleOffset(p, i)
           end(i) == EndOf(f, i)
           Right(i) == off(i) = end(i) \/ (off(i) = PastTheEnd /\ m < end(i))
           Wrong == {i \in 0 .. n : ~Right(i)}
<1>1. n \in Nat /\ m \in Nat
  <2>1. f.tuples \in Seq(Tuples)
    BY FrameFacts
  <2>2. n \in Nat
    BY <2>1
  <2>3. m \in Nat
    BY ZenonT(60), ShortEnough
  <2> QED  BY <2>2, <2>3
<1>2. /\ off(0) = end(0)
      /\ \A i \in 1 .. n : off(i) = Skip(p, off(i - 1))
  <2> DEFINE start == HeaderLength(f) + 2
  <2>1. start \in Nat
    BY HeaderLengths
  <2>2. ddp_payload_offset(p) + 2 = start
    <3>1. IsDdp(f)
      BY DEF IsNbp
    <3>2. ddp_payload_offset(p) = HeaderLength(f)
      BY <3>1, Offsets
    <3> QED  BY <3>2
  <2>3. end(0) = start
    BY Ends
  <2>4. p \in Seq(uint8_t)
    BY DEF BeginningOf
  <2> HIDE DEF start, n
  <2> QED  BY <1>1, <2>1, <2>2, <2>3, <2>4, Cursors
<1>3. ASSUME NEW i \in 1 .. n
      PROVE  /\ TupleAt(Wire(f), end(i - 1), f.tuples[i])
             /\ end(i) = NextTuple(end(i - 1), f.tuples[i])
             /\ f.tuples[i] \in Tuples /\ end(i - 1) \in Nat /\ i - 1 \in 0 .. n
             /\ end(i) \in Nat /\ end(i - 1) <= end(i)
  <2> DEFINE t == f.tuples[i]
             x == Len(t.object)
             y == Len(t.type)
             z == Len(t.zone)
             e == end(i - 1)
  <2>1. /\ TupleAt(Wire(f), e, t) /\ end(i) = NextTuple(e, t)
        /\ t \in Tuples /\ e \in Nat /\ i - 1 \in 0 .. n
    BY TuplesInFrame
  <2>2. x \in Nat /\ y \in Nat /\ z \in Nat
    <3>1. t.object \in PStrings /\ t.type \in PStrings /\ t.zone \in PStrings
      BY <2>1, TupleFields
    <3> QED  BY <3>1, PStringBytes
  <2>3. NextTuple(e, t) = e + 8 + x + y + z
    BY DEF NextTuple
  <2> HIDE DEF x, y, z, e
  <2>4. NextTuple(e, t) \in Nat /\ e <= NextTuple(e, t)
    BY <2>1, <2>2, <2>3
  <2> QED  BY Zenon, <2>1, <2>4 DEF e
<1> HIDE DEF off, end
<1>4. SUFFICES ASSUME Wrong # {} PROVE FALSE
  <2>1. k \notin Wrong
    BY <1>4
  <2>2. Right(k)
    BY <2>1
  <2> QED  BY <2>2 DEF off, end
<1>5. PICK i \in Wrong : \A j \in Wrong : i <= j
  <2>1. Wrong \in SUBSET Nat
    OBVIOUS
  <2> HIDE DEF Wrong
  <2> QED  BY <1>4, <2>1, LeastNumber
<1>6. i \in 0 .. n /\ ~Right(i)
  BY <1>5
<1>7. i # 0
  BY <1>2, <1>6
<1> HIDE DEF Right
<1>8. i \in 1 .. n /\ i - 1 \in 0 .. n /\ ~(i <= i - 1)
  BY <1>1, <1>6, <1>7
<1>9. Right(i - 1)
  <2>1. i - 1 \notin Wrong
    <3> HIDE DEF Wrong
    <3> QED  BY <1>5, <1>8
  <2> QED  BY <1>8, <2>1
<1>10. /\ TupleAt(Wire(f), end(i - 1), f.tuples[i])
       /\ end(i) = NextTuple(end(i - 1), f.tuples[i])
       /\ f.tuples[i] \in Tuples /\ end(i - 1) \in Nat
       /\ end(i) \in Nat /\ end(i - 1) <= end(i)
  BY <1>3, <1>8
<1>11. CASE off(i - 1) = end(i - 1)
  <2>1. \/ Skip(p, end(i - 1)) = NextTuple(end(i - 1), f.tuples[i])
        \/ Skip(p, end(i - 1)) = PastTheEnd /\ m < NextTuple(end(i - 1), f.tuples[i])
    <3> DEFINE t == f.tuples[i]
               e == end(i - 1)
    <3>1. TupleAt(Wire(f), e, t) /\ t \in Tuples /\ e \in Nat
      BY <1>10
    <3> HIDE DEF t, e
    <3>2. \/ Skip(p, e) = NextTuple(e, t)
          \/ Skip(p, e) = PastTheEnd /\ Len(p) < NextTuple(e, t)
      BY <3>1, SkipTuple
    <3> QED  BY Zenon, <3>2 DEF t, e
  <2>2. off(i) = Skip(p, end(i - 1))
    BY <1>2, <1>8, <1>11
  <2>3. Right(i)
    BY Zenon, <1>10, <2>1, <2>2 DEF Right
  <2> QED  BY <1>6, <2>3
<1>12. CASE off(i - 1) = PastTheEnd /\ m < end(i - 1)
  <2>1. off(i) = PastTheEnd
    <3>1. Skip(p, PastTheEnd) = PastTheEnd
      BY SkipPast
    <3> QED  BY <1>2, <1>8, <1>12, <3>1
  <2>2. m < end(i)
    <3> HIDE DEF m
    <3> QED  BY <1>1, <1>10, <1>12
  <2> QED  BY <1>6, <2>1, <2>2 DEF Right
<1> QED  BY <1>9, <1>11, <1>12 DEF Right

(* What nbp_tuple reads.                                                    *)
LEMMA TupleRead ==
  ASSUME NEW f \in Frames, NEW p, BeginningOf(p, f), IsNbp(f), Len(p) > 2,
         NEW i \in 1 .. Len(f.tuples) + 1
  PROVE  IF i <= Len(f.tuples) /\ Len(p) >= EndOf(f, i)
         THEN ReadsAs(nbp_tuple(p, i - 1), f.tuples[i])
         ELSE ~nbp_tuple(p, i - 1).ok
<1> DEFINE n == Len(f.tuples)
           m == Len(p)
           c == TupleOffset(p, i - 1)
           e == EndOf(f, i - 1)
<1>1. n \in Nat /\ m \in Nat /\ m <= Len(Wire(f)) /\ Len(Wire(f)) \in Nat
  <2>1. f.tuples \in Seq(Tuples)
    BY FrameFacts
  <2>2. Len(Wire(f)) \in Nat
    <3>1. Wire(f) \in Seq(uint8_t)
      BY WireBytes
    <3> QED  BY <3>1
  <2>3. n \in Nat
    BY <2>1
  <2>4. m \in Nat /\ m <= Len(Wire(f))
    BY ZenonT(60), ShortEnough
  <2> QED  BY <2>2, <2>3, <2>4
<1>2. i - 1 \in 0 .. n
  <2> HIDE DEF n
  <2> QED  BY <1>1 DEF n
<1>3. c = e \/ (c = PastTheEnd /\ m < e)
  BY <1>2, CursorInFrame
<1>4. e \in Nat /\ e <= Len(Wire(f)) - 2
  BY <1>2, Ends
<1>5. nbp_tuple(p, i - 1) = ReadAt(p, c)
  BY Zenon, TupleIsReadAt
<1>6. ~NotOk.ok
  BY DEF NotOk
<1> HIDE DEF n, m, c, e
<1>7. CASE c = PastTheEnd /\ m < e
  <2>1. ~nbp_tuple(p, i - 1).ok
    BY Zenon, <1>5, <1>6, <1>7, SkipPast
  <2>2. ~(i <= n /\ m >= EndOf(f, i))
    <3> SUFFICES ASSUME i <= n PROVE ~(m >= EndOf(f, i))
      OBVIOUS
    <3> DEFINE t == f.tuples[i]
               x == Len(t.object)
               y == Len(t.type)
               z == Len(t.zone)
               next == EndOf(f, i)
    <3>1. i \in 1 .. n
      BY <1>1
    <3>2. next = NextTuple(e, t) /\ t \in Tuples
      BY <3>1, TuplesInFrame DEF n, e
    <3>3. x \in Nat /\ y \in Nat /\ z \in Nat
      <4>1. t.object \in PStrings /\ t.type \in PStrings /\ t.zone \in PStrings
        BY <3>2, TupleFields
      <4> QED  BY <4>1, PStringBytes
    <3>4. NextTuple(e, t) = e + 8 + x + y + z
      BY DEF NextTuple
    <3> HIDE DEF x, y, z, t, next
    <3>5. ~(m >= next)
      BY <1>1, <1>4, <1>7, <3>2, <3>3, <3>4
    <3> QED  BY <3>5 DEF next
  <2> QED  BY <2>1, <2>2 DEF n, m
<1>8. CASE c = e
  <2>1. CASE i <= n
    <3> DEFINE t == f.tuples[i]
    <3>1. i \in 1 .. n
      BY <1>1, <2>1
    <3>2. TupleAt(Wire(f), e, t) /\ EndOf(f, i) = NextTuple(e, t) /\ t \in Tuples
      BY <3>1, TuplesInFrame DEF n, e
    <3>3. EndOf(f, i) \in Nat
      <4>1. i \in 0 .. n
        BY <1>1, <3>1
      <4> QED  BY <4>1, Ends DEF n
    <3> HIDE DEF t
    <3>4. /\ m >= NextTuple(e, t) => ReadsAs(ReadAt(p, e), t)
          /\ m < NextTuple(e, t) => ReadAt(p, e) = NotOk
      BY <1>4, <3>2, ReadTuple DEF m
    <3>5. m >= EndOf(f, i) \/ m < EndOf(f, i)
      BY <1>1, <3>3
    <3>6. CASE m >= EndOf(f, i)
      <4>1. ReadsAs(nbp_tuple(p, i - 1), t)
        BY Zenon, <1>5, <1>8, <3>2, <3>4, <3>6
      <4> QED  BY Zenon, <2>1, <3>6, <4>1 DEF n, m, t
    <3>7. CASE m < EndOf(f, i)
      <4>1. ~nbp_tuple(p, i - 1).ok
        BY Zenon, <1>5, <1>6, <1>8, <3>2, <3>4, <3>7
      <4>2. ~(m >= EndOf(f, i))
        BY <1>1, <3>3, <3>7
      <4> QED  BY Zenon, <4>1, <4>2 DEF m
    <3> QED  BY <3>5, <3>6, <3>7
  <2>2. CASE ~(i <= n)
    <3> DEFINE q == e + 4
    <3>1. i - 1 = n
      BY <1>1, <1>2, <2>2
    <3>2. e = Len(Wire(f)) - 2
      BY <3>1, Ends DEF n, e
    <3>3. ~Has(p, q)
      <4> DEFINE total == Len(Wire(f))
      <4>1. total \in Nat /\ m <= total /\ e = total - 2
        BY <1>1, <3>2
      <4> HIDE DEF total
      <4>2. ~(m > q)
        BY <1>1, <1>4, <4>1
      <4> QED  BY <4>2 DEF Has, m
    <3>4. ReadAt(p, e) = NotOk
      BY Zenon, <3>3 DEF ReadAt
    <3>5. ~nbp_tuple(p, i - 1).ok
      BY Zenon, <1>5, <1>6, <1>8, <3>4
    <3> QED  BY <2>2, <3>5 DEF n
  <2> QED  BY <2>1, <2>2
<1> QED  BY <1>3, <1>7, <1>8

LEMMA InvTuples ==
  ASSUME Inv
  PROVE  TuplesAsSent
<1> SUFFICES ASSUME at = "apps", IsNbp(frame), taken > 2,
                    NEW i \in 1 .. Len(frame.tuples) + 1
             PROVE  IF i <= Len(frame.tuples) /\ taken >= TupleEnd(i)
                    THEN ReadsAs(nbp_tuple(packet, i - 1), frame.tuples[i])
                    ELSE ~nbp_tuple(packet, i - 1).ok
  BY DEF TuplesAsSent, ReadsAs
<1>1. packet = Arrived
  BY DEF Inv, PacketInv
<1>2. BeginningOf(packet, frame) /\ frame \in Frames /\ Len(packet) = taken
  BY <1>1, FrameBeginning DEF Inv
<1>3. IF i <= Len(frame.tuples) /\ taken >= EndOf(frame, i)
      THEN ReadsAs(nbp_tuple(packet, i - 1), frame.tuples[i])
      ELSE ~nbp_tuple(packet, i - 1).ok
  <2> DEFINE f == frame
             p == packet
  <2>1. f \in Frames /\ BeginningOf(p, f) /\ IsNbp(f) /\ Len(p) > 2 /\ i \in 1 .. Len(f.tuples) + 1
    BY <1>2
  <2> HIDE DEF f, p
  <2>2. IF i <= Len(f.tuples) /\ Len(p) >= EndOf(f, i)
        THEN ReadsAs(nbp_tuple(p, i - 1), f.tuples[i])
        ELSE ~nbp_tuple(p, i - 1).ok
    BY <2>1, TupleRead
  <2> QED  BY Zenon, <1>2, <2>2 DEF f, p
<1>4. i <= Len(frame.tuples) => TupleEnd(i) = EndOf(frame, i)
  <2> SUFFICES ASSUME i <= Len(frame.tuples) PROVE TupleEnd(i) = EndOf(frame, i)
    OBVIOUS
  <2> DEFINE n == Len(frame.tuples)
  <2>1. n \in Nat
    <3>1. frame.tuples \in Seq(Tuples)
      BY <1>2, FrameFacts
    <3> QED  BY <3>1
  <2>2. i \in 0 .. n
    <3>1. i <= n /\ i \in 1 .. n + 1
      OBVIOUS
    <3> HIDE DEF n
    <3> QED  BY <2>1, <3>1
  <2>3. HeaderLength(frame) + Len(NbpBody(frame, i)) = EndOf(frame, i)
    BY <1>2, <2>2, Ends
  <2> QED  BY Zenon, <2>3 DEF TupleEnd
<1> QED  BY Zenon, <1>3, <1>4

(* Of the tuples of an NBP frame nbp_tuple reads what was sent, and those   *)
(* only that have come completely, for any tuples and wherever it is cut.   *)
THEOREM TuplesRead == Spec => []TuplesAsSent
BY PacketsInvariant, InvTuples, PTL

-----------------------------------------------------------------------------
(* Names.                                                                   *)
(* pstrncpy stops at the first 0, which a name has none of.                 *)
LEMMA CopyCompares ==
  ASSUME NEW str \in Seq(uint8_t), NEW max \in Nat, Len(str) <= max, NEW name \in Seq(1 .. 255)
  PROVE  pstrncpy(str, max) = name <=> SameCString(str, name)
<1> DEFINE n == Len(str)
           m == Len(name)
           zeros == {i \in 1 .. n : str[i] = 0}
           first == CHOOSE x \in zeros : \A y \in zeros : x <= y
           copied == SubSeq(str, 1, IF n < max THEN n ELSE max)
           zero == IF zeros # {} THEN first ELSE 0
           same == /\ n >= m /\ \A i \in 1 .. m : str[i] = name[i]
                   /\ n > m => str[m + 1] = 0
<1>1. n \in Nat /\ m \in Nat /\ n <= max
  OBVIOUS
<1>2. copied = str
  <2>1. (IF n < max THEN n ELSE max) = n
    <3> HIDE DEF n
    <3> QED  BY <1>1
  <2>2. SubSeq(str, 1, n) = str
    OBVIOUS
  <2> QED  BY Zenon, <2>1, <2>2
<1>3. pstrncpy(str, max) = IF zero = 0 THEN str ELSE SubSeq(str, 1, zero - 1)
  <2>1. SelectInSeq(str, LAMBDA c : c = 0) = zero
    BY Zenon DEF SelectInSeq, Min
  <2> HIDE DEF zero
  <2> QED  BY Zenon, <1>2, <2>1 DEF pstrncpy
<1>4. zeros # {} => first \in zeros /\ \A y \in zeros : first <= y
  <2> SUFFICES ASSUME zeros # {} PROVE \E x \in zeros : \A y \in zeros : x <= y
    BY Zenon
  <2>1. zeros \in SUBSET Nat
    OBVIOUS
  <2> HIDE DEF zeros
  <2> QED  BY <2>1, LeastNumber
<1>5. \A k \in 0 .. n : /\ SubSeq(str, 1, k) \in Seq(uint8_t) /\ Len(SubSeq(str, 1, k)) = k
                        /\ \A i \in 1 .. k : SubSeq(str, 1, k)[i] = str[i]
  BY <1>1, Beginning
<1>6. SameCString(str, name) <=> same
  <2>1. m <= n => (SubSeq(str, 1, m) = name <=> \A i \in 1 .. m : str[i] = name[i])
    <3> SUFFICES ASSUME m <= n PROVE SubSeq(str, 1, m) = name <=> \A i \in 1 .. m : str[i] = name[i]
      OBVIOUS
    <3> DEFINE s == SubSeq(str, 1, m)
    <3>1. s \in Seq(uint8_t) /\ Len(s) = m /\ \A i \in 1 .. m : s[i] = str[i]
      <4>1. m \in 0 .. n
        BY <1>1
      <4> HIDE DEF m, n
      <4> QED  BY <1>5, <4>1
    <3> HIDE DEF s
    <3>2. (\A i \in 1 .. m : s[i] = name[i]) => s = name
      <4> DEFINE chars == 1 .. 255
      <4>1. name \in Seq(chars)
        OBVIOUS
      <4> HIDE DEF chars
      <4> QED  BY <3>1, <4>1
    <3>3. s = name => \A i \in 1 .. m : str[i] = name[i]
      BY <3>1
    <3> QED  BY <3>1, <3>2, <3>3 DEF s
  <2>2. n >= m <=> m <= n
    <3> HIDE DEF n, m
    <3> QED  BY <1>1
  <2> QED  BY Zenon, <2>1, <2>2 DEF SameCString
<1>7. \A i \in 1 .. m : name[i] # 0
  <2> SUFFICES ASSUME NEW i \in 1 .. m PROVE name[i] # 0
    OBVIOUS
  <2> DEFINE chars == 1 .. 255
             c == name[i]
  <2>1. c \in chars
    <3>1. name \in Seq(chars) /\ i \in 1 .. Len(name)
      OBVIOUS
    <3> HIDE DEF chars, m
    <3> QED  BY <3>1
  <2> HIDE DEF c
  <2>2. c # 0
    BY <2>1
  <2> QED  BY <2>2 DEF c
<1> HIDE DEF n, m, first
<1>8. CASE zeros = {}
  <2>1. pstrncpy(str, max) = str
    BY <1>3, <1>8
  <2>2. str = name => same
    <3> SUFFICES ASSUME str = name PROVE same
      OBVIOUS
    <3>1. n = m
      BY DEF n, m
    <3> QED  BY <1>1, <3>1
  <2>3. same => str = name
    <3> SUFFICES ASSUME same PROVE str = name
      OBVIOUS
    <3>1. ~(n > m)
      <4> SUFFICES ASSUME n > m PROVE FALSE
        OBVIOUS
      <4>1. m + 1 \in 1 .. n /\ str[m + 1] = 0
        BY <1>1
      <4>2. m + 1 \in zeros
        BY <4>1
      <4> QED  BY <1>8, <4>2
    <3>2. n = m
      BY <1>1, <3>1
    <3>3. \A i \in 1 .. m : str[i] = name[i]
      OBVIOUS
    <3> HIDE DEF same, zeros
    <3> DEFINE chars == 1 .. 255
    <3>4. name \in Seq(chars) /\ Len(str) = m /\ Len(name) = m
      BY <3>2 DEF n, m
    <3> HIDE DEF chars
    <3> QED  BY <3>3, <3>4
  <2> QED  BY Zenon, <1>6, <2>1, <2>2, <2>3
<1>9. CASE zeros # {}
  <2>1. first \in zeros /\ \A y \in zeros : first <= y
    BY <1>4, <1>9
  <2>2. first \in 1 .. n /\ str[first] = 0
    BY <2>1
  <2>3. first - 1 \in 0 .. n /\ first \in Nat /\ first # 0
    BY <1>1, <2>2
  <2> DEFINE s == SubSeq(str, 1, first - 1)
  <2>4. pstrncpy(str, max) = s
    BY <1>3, <1>9, <2>3
  <2>5. s \in Seq(uint8_t) /\ Len(s) = first - 1 /\ \A i \in 1 .. first - 1 : s[i] = str[i]
    BY <1>5, <2>3
  <2> HIDE DEF s
  <2>6. s = name => same
    <3> SUFFICES ASSUME s = name PROVE same
      OBVIOUS
    <3>1. m = first - 1
      BY <2>5 DEF m
    <3>2. m + 1 = first /\ n > m
      BY <1>1, <2>2, <3>1
    <3>3. \A i \in 1 .. m : str[i] = name[i]
      BY <2>5, <3>1
    <3> QED  BY <1>1, <2>2, <3>2, <3>3
  <2>7. same => s = name
    <3> SUFFICES ASSUME same PROVE s = name
      OBVIOUS
    <3>1. first \notin 1 .. m
      <4> SUFFICES ASSUME first \in 1 .. m PROVE FALSE
        OBVIOUS
      <4>1. str[first] = name[first] /\ name[first] # 0
        BY <1>7
      <4> QED  BY <2>2, <4>1
    <3>2. m + 1 <= first /\ n > m
      BY <1>1, <2>2, <3>1
    <3>3. m + 1 \in zeros
      <4>1. m + 1 \in 1 .. n /\ str[m + 1] = 0
        BY <1>1, <3>2
      <4> QED  BY <4>1
    <3>4. first <= m + 1
      BY <2>1, <3>3
    <3>5. first - 1 = m
      BY <1>1, <2>3, <3>2, <3>4
    <3>6. \A i \in 1 .. m : s[i] = name[i]
      BY <2>5, <3>5
    <3> HIDE DEF same, zeros
    <3> DEFINE chars == 1 .. 255
    <3>7. name \in Seq(chars) /\ Len(s) = m /\ Len(name) = m
      BY <2>5, <3>5 DEF m
    <3> HIDE DEF chars
    <3> QED  BY <2>5, <3>6, <3>7
  <2> QED  BY Zenon, <1>6, <2>4, <2>6, <2>7
<1> QED  BY <1>8, <1>9

LEMMA NbpRead ==
  ASSUME NEW f \in Frames, NEW p, BeginningOf(p, f), IsNbp(f), Len(p) >= HeaderLength(f)
  PROVE  /\ is_nbp_packet(p) /\ ddp_destination_node(p) = f.node
         /\ Len(p) >= HeaderLength(f) + 1 =>
              nbp_function_code(p) = f.function /\ nbp_tuple_count(p) = Len(f.tuples)
         /\ Len(p) < HeaderLength(f) + 1 => nbp_tuple_count(p) = 0
         /\ Len(p) >= HeaderLength(f) + 2 => nbp_id(p) = f.id
<1> DEFINE h == HeaderLength(f)
           n == Len(p)
           high == f.function
           low == Len(f.tuples)
<1>1. IsDdp(f) /\ f.ddpType = 2
  BY DEF IsNbp
<1>2. n \in Nat /\ ddp_payload_offset(p) = h /\ ddp_destination_node(p) = f.node
  BY <1>1, HeaderRead
<1>3. h \in {8, 16}
  BY <1>1, HeaderLengths
<1>4. high \in 0 .. 15 /\ low \in 0 .. 15
  BY FrameFacts
<1>5. Body(f)[1] = 16 * high + low /\ Body(f)[2] = f.id /\ Len(Body(f)) >= 2 /\ Len(Body(f)) \in Nat
  <2>1. Body(f) = NbpBody(f, low)
    BY DEF Body, IsNbp, IsAtp
  <2> DEFINE enc == EncodeTuples(f.tuples, low)
             size == Len(enc)
  <2>2. low \in 0 .. low
    <3> HIDE DEF low
    <3> QED  BY <1>4
  <2>3. /\ NbpBody(f, low)[1] = 16 * high + low /\ NbpBody(f, low)[2] = f.id
        /\ Len(NbpBody(f, low)) = 2 + size
    BY <1>1, <2>2, NbpBytes
  <2>4. size \in Nat
    <3>1. f.tuples \in Seq(Tuples)
      BY FrameFacts
    <3>2. enc \in Seq(uint8_t)
      BY <2>2, <3>1, TuplesBytes
    <3> HIDE DEF enc
    <3> QED  BY <3>2
  <2>5. 2 + size >= 2 /\ 2 + size \in Nat
    <3> HIDE DEF size
    <3> QED  BY <2>4
  <2> QED  BY Zenon, <2>1, <2>3, <2>5
<1>6. is_nbp_packet(p)
  <2>1. 2 \in Nat /\ 2 # 0
    OBVIOUS
  <2>2. is_ddp_packet(p) /\ ddp_type(p) = 2
    BY <1>1, <2>1, ProtocolRead
  <2> QED  BY <2>2 DEF is_nbp_packet
<1>7. /\ h + 1 <= n => Byte(p, h) = 16 * high + low
      /\ h + 1 > n => Byte(p, h) = 0
  <2>1. h \in Nat /\ 1 \in Nat /\ 1 <= Len(Body(f)) /\ h + 1 = HeaderLength(f) + 1 /\ 1 <= 1
    BY <1>3, <1>5
  <2> QED  BY <1>1, <1>5, <2>1, BodyRead
<1>8. h + 2 <= n => Byte(p, h + 1) = f.id
  <2> DEFINE o == h + 1
  <2>1. /\ o \in Nat /\ 2 \in Nat /\ 2 <= Len(Body(f)) /\ o + 1 = HeaderLength(f) + 2 /\ 1 <= 2
    BY <1>3, <1>5
  <2> HIDE DEF o
  <2>2. HeaderLength(f) + 2 <= Len(p) => Byte(p, o) = Body(f)[2]
    BY <1>1, <2>1, BodyRead
  <2> QED  BY Zenon, <1>5, <2>2 DEF o
<1>9. (16 * high + low) \div 16 = high /\ (16 * high + low) % 16 = low /\ 0 % 16 = 0
  <2> HIDE DEF high, low
  <2> QED  BY <1>4
<1>10. /\ nbp_function_code(p) = Byte(p, h) \div 16 /\ nbp_tuple_count(p) = Byte(p, h) % 16
       /\ nbp_id(p) = Byte(p, h + 1)
  BY Zenon, <1>2 DEF nbp_function_code, nbp_tuple_count, nbp_id
<1>11. /\ n >= h + 1 => h + 1 <= n
       /\ n < h + 1 => h + 1 > n
       /\ n >= h + 2 => h + 2 <= n
  <2> HIDE DEF n, h
  <2> QED  BY <1>2, <1>3
<1> QED  BY Zenon, <1>2, <1>6, <1>7, <1>8, <1>9, <1>10, <1>11

(* What is_our_nbp_lkup makes of the beginning of a frame.                  *)
LEMMA LookupRead ==
  ASSUME NEW f \in Frames, NEW p, BeginningOf(p, f), ~f.raw
  PROVE  is_our_nbp_lkup(p, NbpType) =
           IF AsksForUs(f) /\ Len(p) >= EndOf(f, 1)
           THEN <<Head(f.tuples).node, Head(f.tuples).socket, f.id>> ELSE NoLookup
<1> DEFINE h == HeaderLength(f)
           n == Len(p)
           count == Len(f.tuples)
           t == f.tuples[1]
           read == nbp_tuple(p, 0)
           guard == /\ is_nbp_packet(p)
                    /\ ddp_destination_node(p) = 255
                    /\ nbp_function_code(p) = NBP_LKUP
                    /\ nbp_tuple_count(p) > 0
                    /\ read.ok
                    /\ Len(read.type) <= MaxType
                    /\ pstrncpy(read.type, MaxType) = NbpType
           whole == IsNbp(f) /\ count > 0 /\ n >= EndOf(f, 1)
<1>1. is_our_nbp_lkup(p, NbpType) = IF guard THEN <<read.node, read.socket, nbp_id(p)>> ELSE NoLookup
  BY Zenon DEF is_our_nbp_lkup
<1>2. h \in {5, 8, 16} /\ n \in Nat /\ count \in Nat /\ f.tuples \in Seq(Tuples)
  <2>1. h \in {5, 8, 16}
    BY HeaderLengths
  <2>2. f.tuples \in Seq(Tuples)
    BY FrameFacts
  <2>3. n \in Nat
    BY ZenonT(60), ShortEnough
  <2>4. count \in Nat
    BY <2>2
  <2> QED  BY <2>1, <2>2, <2>3, <2>4
<1>3. f.tuples # <<>> <=> count > 0
  BY <1>2
<1>4. count > 0 => Head(f.tuples) = t
  BY <1>2
<1>5. AsksForUs(f) /\ n >= EndOf(f, 1) <=>
        /\ whole /\ f.node = 255 /\ f.function = NBP_LKUP
        /\ Len(t.type) <= MaxType /\ SameCString(t.type, NbpType)
  BY Zenon, <1>3, <1>4 DEF AsksForUs
<1>6. ASSUME whole
      PROVE  /\ guard <=> /\ f.node = 255 /\ f.function = NBP_LKUP
                          /\ Len(t.type) <= MaxType /\ SameCString(t.type, NbpType)
             /\ <<read.node, read.socket, nbp_id(p)>> = <<t.node, t.socket, f.id>>
  <2>1. IsNbp(f) /\ 1 \in 1 .. count /\ 1 \in 1 .. count + 1 /\ 1 <= count /\ 1 - 1 = 0
    <3> HIDE DEF count
    <3> QED  BY <1>2, <1>6
  <2>2. EndOf(f, 1) >= h + 2 /\ t \in Tuples
    <3> DEFINE x == Len(t.object)
               y == Len(t.type)
               z == Len(t.zone)
               e == EndOf(f, 0)
    <3>1. EndOf(f, 1) = NextTuple(e, t) /\ t \in Tuples
      <4>1. EndOf(f, 1) = NextTuple(EndOf(f, 1 - 1), f.tuples[1]) /\ f.tuples[1] \in Tuples
        BY <2>1, TuplesInFrame
      <4> QED  BY Zenon, <2>1, <4>1
    <3>2. e = h + 2
      BY <2>1, Ends
    <3>3. x \in Nat /\ y \in Nat /\ z \in Nat
      <4>1. t.object \in PStrings /\ t.type \in PStrings /\ t.zone \in PStrings
        BY <3>1, TupleFields
      <4> QED  BY <4>1, PStringBytes
    <3>4. NextTuple(e, t) = e + 8 + x + y + z
      BY DEF NextTuple
    <3> HIDE DEF x, y, z, e, h
    <3>5. NextTuple(e, t) >= h + 2
      BY <1>2, <3>2, <3>3, <3>4
    <3> QED  BY <3>1, <3>5
  <2>3. n >= EndOf(f, 1) /\ EndOf(f, 1) \in Nat
    <3>1. 1 \in 0 .. count
      BY <2>1
    <3> QED  BY <1>6, <2>1, <3>1, Ends
  <2>4. n >= h /\ n >= h + 1 /\ n >= h + 2 /\ n > 2
    <3> DEFINE e == EndOf(f, 1)
    <3>1. n >= e /\ e >= h + 2 /\ e \in Nat
      BY <2>2, <2>3
    <3> HIDE DEF n, h, e
    <3> QED  BY <1>2, <3>1
  <2>5. /\ is_nbp_packet(p) /\ ddp_destination_node(p) = f.node
        /\ nbp_function_code(p) = f.function /\ nbp_tuple_count(p) = count /\ nbp_id(p) = f.id
    BY <2>1, <2>4, NbpRead
  <2>6. ReadsAs(read, t)
    <3>1. IF 1 <= count /\ n >= EndOf(f, 1)
          THEN ReadsAs(nbp_tuple(p, 1 - 1), f.tuples[1])
          ELSE ~nbp_tuple(p, 1 - 1).ok
      BY <2>1, <2>4, TupleRead
    <3> QED  BY Zenon, <2>1, <2>3, <3>1
  <2>7. read.ok /\ read.node = t.node /\ read.socket = t.socket /\ read.type = t.type
    <3>1. "node" \in DOMAIN t /\ "socket" \in DOMAIN t /\ "type" \in DOMAIN t
      BY <2>2 DEF Tuples
    <3> HIDE DEF read, t
    <3> QED  BY <2>6, <3>1 DEF ReadsAs
  <2>8. Len(t.type) <= MaxType => (pstrncpy(t.type, MaxType) = NbpType <=> SameCString(t.type, NbpType))
    <3> SUFFICES ASSUME Len(t.type) <= MaxType
                 PROVE  pstrncpy(t.type, MaxType) = NbpType <=> SameCString(t.type, NbpType)
      OBVIOUS
    <3> DEFINE str == t.type
    <3>1. str \in Seq(uint8_t)
      <4>1. str \in PStrings
        BY <2>2, TupleFields
      <4> QED  BY Zenon, <4>1 DEF PStrings
    <3>2. NbpType \in Seq(1 .. 255) /\ MaxType \in Nat
      BY NamesAssumption
    <3>3. Len(str) <= MaxType
      OBVIOUS
    <3> HIDE DEF str
    <3>4. pstrncpy(str, MaxType) = NbpType <=> SameCString(str, NbpType)
      BY <3>1, <3>2, <3>3, CopyCompares
    <3> QED  BY <3>4 DEF str
  <2> HIDE DEF read, t, count
  <2> QED  BY ZenonT(60), <1>6, <2>5, <2>7, <2>8
<1>7. ASSUME ~whole PROVE ~guard
  <2> SUFFICES ASSUME guard PROVE FALSE
    OBVIOUS
  <2>1. IsNbp(f) /\ n >= h
    <3>1. 2 \in Nat /\ 2 # 0
      OBVIOUS
    <3>2. is_ddp_packet(p) /\ ddp_type(p) = 2
      BY DEF is_nbp_packet
    <3> QED  BY <3>1, <3>2, ProtocolRead DEF IsNbp
  <2>2. nbp_tuple_count(p) > 0 /\ read.ok
    OBVIOUS
  <2>3. nbp_tuple_count(p) = count \/ nbp_tuple_count(p) = 0
    <3>1. /\ n >= h + 1 => nbp_tuple_count(p) = count
          /\ n < h + 1 => nbp_tuple_count(p) = 0
      BY <2>1, NbpRead
    <3>2. n >= h + 1 \/ n < h + 1
      <4> HIDE DEF n, h
      <4> QED  BY <1>2
    <3> QED  BY Zenon, <3>1, <3>2
  <2>4. count > 0
    <3> HIDE DEF count
    <3> QED  BY <2>2, <2>3
  <2>5. 1 \in 1 .. count + 1 /\ 1 - 1 = 0 /\ n > 2
    <3> HIDE DEF count, n, h
    <3> QED  BY <1>2, <2>1, <2>4
  <2>6. IF 1 <= count /\ n >= EndOf(f, 1)
        THEN ReadsAs(nbp_tuple(p, 1 - 1), f.tuples[1])
        ELSE ~nbp_tuple(p, 1 - 1).ok
    BY <2>1, <2>5, TupleRead
  <2>7. ~(n >= EndOf(f, 1))
    BY <1>7, <2>1, <2>4
  <2>8. ~read.ok
    BY Zenon, <2>5, <2>6, <2>7
  <2> QED  BY <2>2, <2>8
<1> HIDE DEF guard, whole, read
<1>8. CASE whole
  BY Zenon, <1>1, <1>4, <1>5, <1>6, <1>8 DEF whole
<1>9. CASE ~whole
  BY Zenon, <1>1, <1>5, <1>7, <1>9
<1> QED  BY <1>8, <1>9

LEMMA InvLookups ==
  ASSUME Inv
  PROVE  LookupsAsSent
<1> SUFFICES ASSUME at \in {"rebooted", "udp_tx"}, ~frame.raw
             PROVE  looked = IF AsksForUs(frame) /\ taken >= TupleEnd(1)
                             THEN <<Head(frame.tuples).node, Head(frame.tuples).socket, frame.id>>
                             ELSE NoLookup
  BY DEF LookupsAsSent
<1>1. looked = is_our_nbp_lkup(Arrived, NbpType)
  BY DEF Inv, AppsInv
<1>2. BeginningOf(Arrived, frame) /\ frame \in Frames /\ Len(Arrived) = taken
  BY FrameBeginning DEF Inv
<1>3. is_our_nbp_lkup(Arrived, NbpType) =
        IF AsksForUs(frame) /\ taken >= EndOf(frame, 1)
        THEN <<Head(frame.tuples).node, Head(frame.tuples).socket, frame.id>> ELSE NoLookup
  BY <1>2, LookupRead
<1>4. AsksForUs(frame) => TupleEnd(1) = EndOf(frame, 1)
  <2> SUFFICES ASSUME AsksForUs(frame) PROVE TupleEnd(1) = EndOf(frame, 1)
    OBVIOUS
  <2>1. IsNbp(frame) /\ frame.tuples # <<>>
    BY DEF AsksForUs
  <2>2. frame.tuples \in Seq(Tuples)
    BY <1>2, FrameFacts
  <2>3. 1 \in 0 .. Len(frame.tuples)
    BY <2>1, <2>2
  <2>4. HeaderLength(frame) + Len(NbpBody(frame, 1)) = EndOf(frame, 1)
    BY <1>2, <2>1, <2>3, Ends
  <2> QED  BY Zenon, <2>4 DEF TupleEnd
<1> QED  BY Zenon, <1>1, <1>3, <1>4

(* is_our_nbp_lkup recognises the look-ups that ask for this bridge, and no *)
(* others, for any name.                                                    *)
THEOREM LookupsRecognised == Spec => []LookupsAsSent
BY PacketsInvariant, InvLookups, PTL
===============================================================================
