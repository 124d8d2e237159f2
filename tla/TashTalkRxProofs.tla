---------------------------- MODULE TashTalkRxProofs ----------------------------
(***************************************************************************)
(* What uart_rx makes of the bytes of TashTalk, whatever these are, and    *)
(* wherever bytes are lost: for queues, packet buffers and frames of any   *)
(* length.                                                                 *)
(*                                                                         *)
(* LossIsLocal speaks of the byte that uart_rx is feeding, but TashTalk    *)
(* has gone on since.  What relates the two is the course that uart_rx     *)
(* will take with the bytes that are in the queue: it begins where uart_rx *)
(* is now and ends, if nothing is lost, with what TashTalk has sent.       *)
(***************************************************************************)
EXTENDS TashTalkRx, SequenceTheorems, TLAPS

(* uart_rx between two bytes: whether it is in an escape, and its packet.  *)
RxStates == [esc : BOOLEAN, pkt : Seq(Bytes) \cup {NULL}]
RxPacket(s) == IF s.pkt = NULL THEN <<>> ELSE s.pkt

(* What feed makes of it with a byte.                                      *)
AfterFeed(s, b) ==
  IF s.esc
  THEN [esc |-> FALSE,
        pkt |-> IF b = Literal THEN append(RxPacket(s), 0)
                ELSE IF b \in EndCodes THEN NULL ELSE RxPacket(s)]
  ELSE IF b = 0 THEN [esc |-> TRUE, pkt |-> RxPacket(s)]
                ELSE [esc |-> FALSE, pkt |-> append(RxPacket(s), b)]

RxState == [esc |-> in_escape, pkt |-> packet_in_progress]

(* uart_rx when it takes the next byte from the queue.                     *)
AtHead ==
  IF pc = "get" THEN RxState
  ELSE IF pc = "feed" THEN AfterFeed(RxState, byte.byte)
  ELSE [esc |-> FALSE, pkt |-> NULL]

(* It may then be given the byte x: LossIsLocal.                           *)
Expected(s, x) ==
  x.sure => IF x.end THEN s.esc /\ s.pkt = Fitting(x.frame)
                     ELSE ~(s.esc /\ x.byte \in EndCodes)

(* uart_rx when it has had all that TashTalk has sent.  Without losses it  *)
(* has what was sent; in a frame after one with losses it knows, from the  *)
(* first byte of it on, at least whether it is in an escape.               *)
Followed(s) ==
  /\ owed = NULL => ~s.esc /\ RxPacket(s) = Fitting(frame)
  /\ owed = Literal => /\ s.esc
                       /\ \E f \in Seq(Data) : frame = Append(f, 0) /\ s.pkt = Fitting(f)
  /\ owed \in EndCodes => s.esc /\ s.pkt = Fitting(frame)
EscapeFollowed(s) ==
  /\ owed = NULL => ~s.esc
  /\ owed \in EndCodes => s.esc
AtEnd(s) ==
  /\ Sure => Followed(s)
  /\ ~lossy /\ frame # <<>> => EscapeFollowed(s)

(* The states that uart_rx will go through with the bytes in the queue.    *)
Course(e) ==
  /\ e \in Seq(RxStates) /\ Len(e) = Len(uart_msgq) + 1
  /\ e[1] = AtHead
  /\ \A i \in 1 .. Len(uart_msgq) :
       Expected(e[i], uart_msgq[i]) /\ e[i + 1] = AfterFeed(e[i], uart_msgq[i].byte)
  /\ AtEnd(e[Len(e)])

RxInv == RxTypeOK /\ LossIsLocal /\ ForwardedAsSent /\ \E e : Course(e)

-----------------------------------------------------------------------------
LEMMA RxParameters ==
  /\ RxBufferSize \in Nat \ {0} /\ MaxPacket \in Nat \ {0} /\ MaxFrame \in Nat
  /\ Data \subseteq Bytes
  /\ NULL \notin Bytes /\ NULL \notin Seq(Bytes)
BY RxAssumption

LEMMA Codes ==
  /\ Literal \in Bytes /\ EndCodes \subseteq Bytes /\ Literal \notin EndCodes
  /\ NULL # Literal /\ NULL \notin EndCodes
  /\ 0 # Literal /\ 0 \notin EndCodes /\ 0 \in Bytes
  /\ Complete \in EndCodes /\ EndCodes = {Complete, Damaged, Aborted}
BY RxParameters DEF Literal, EndCodes, Complete, Damaged, Aborted, Bytes

LEMMA SeqOfBytes == ASSUME NEW s \in Seq(Data) PROVE s \in Seq(Bytes)
BY RxParameters

(* A packet buffer takes what fits, byte by byte as well as at once.       *)
LEMMA FittingType ==
  ASSUME NEW f \in Seq(Data)
  PROVE  /\ Fitting(f) \in Seq(Data)
         /\ Len(Fitting(f)) = IF Len(f) < MaxPacket THEN Len(f) ELSE MaxPacket
         /\ \A i \in 1 .. Len(Fitting(f)) : Fitting(f)[i] = f[i]
         /\ Fitting(f) # NULL
<1> DEFINE n == IF Len(f) < MaxPacket THEN Len(f) ELSE MaxPacket
<1>1. Len(f) \in Nat /\ n \in Nat /\ n \in Int /\ n <= Len(f) /\ 1 \in Int
  BY RxParameters
<1>2. \A i \in 1 .. n : f[i] \in Data
  BY <1>1
<1>3. /\ SubSeq(f, 1, n) \in Seq(Data)
      /\ Len(SubSeq(f, 1, n)) = IF 1 <= n THEN n - 1 + 1 ELSE 0
      /\ \A i \in 1 .. n - 1 + 1 : SubSeq(f, 1, n)[i] = f[1 + i - 1]
  <2> HIDE DEF n
  <2> QED  BY <1>1, <1>2, SubSeqProperties
<1>4. Fitting(f) = SubSeq(f, 1, n)
  BY DEF Fitting
<1>5. Len(SubSeq(f, 1, n)) = n
  <2> HIDE DEF n
  <2> QED  BY <1>1, <1>3
<1>6. \A i \in 1 .. n : SubSeq(f, 1, n)[i] = f[i]
  <2> HIDE DEF n
  <2> QED  BY <1>1, <1>3
<1> QED  BY <1>3, <1>4, <1>5, <1>6, SeqOfBytes, RxParameters

LEMMA FittingEmpty == ASSUME NEW f \in Seq(Data), Len(f) = 0 PROVE Fitting(f) = <<>>
<1>1. /\ Fitting(f) \in Seq(Data)
      /\ Len(Fitting(f)) = IF Len(f) < MaxPacket THEN Len(f) ELSE MaxPacket
  BY FittingType
<1>2. 0 < MaxPacket
  BY RxParameters
<1>3. Len(Fitting(f)) = 0
  BY <1>1, <1>2
<1> QED  BY <1>1, <1>3

LEMMA FittingAppend ==
  ASSUME NEW f \in Seq(Data), NEW b \in Data
  PROVE  append(Fitting(f), b) = Fitting(Append(f, b))
<1>1. /\ Append(f, b) \in Seq(Data) /\ Len(Append(f, b)) = Len(f) + 1 /\ Len(f) \in Nat
      /\ \A i \in 1 .. Len(f) : Append(f, b)[i] = f[i]
      /\ Append(f, b)[Len(f) + 1] = b
  OBVIOUS
<1>2. /\ Fitting(f) \in Seq(Data)
      /\ Len(Fitting(f)) = IF Len(f) < MaxPacket THEN Len(f) ELSE MaxPacket
      /\ \A i \in 1 .. Len(Fitting(f)) : Fitting(f)[i] = f[i]
  BY FittingType
<1>3. /\ Fitting(Append(f, b)) \in Seq(Data)
      /\ Len(Fitting(Append(f, b))) = IF Len(f) + 1 < MaxPacket THEN Len(f) + 1 ELSE MaxPacket
      /\ \A i \in 1 .. Len(Fitting(Append(f, b))) : Fitting(Append(f, b))[i] = Append(f, b)[i]
  BY <1>1, FittingType
<1>4. CASE Len(f) < MaxPacket
  <2>1. append(Fitting(f), b) = Append(Fitting(f), b) /\ Len(Fitting(f)) = Len(f)
    BY <1>2, <1>4 DEF append
  <2>2. /\ Append(Fitting(f), b) \in Seq(Data) /\ Len(Append(Fitting(f), b)) = Len(f) + 1
        /\ \A i \in 1 .. Len(f) : Append(Fitting(f), b)[i] = Fitting(f)[i]
        /\ Append(Fitting(f), b)[Len(f) + 1] = b
    BY <1>2, <2>1
  <2>3. Len(Fitting(Append(f, b))) = Len(f) + 1
    BY <1>1, <1>3, <1>4, RxParameters
  <2>4. \A i \in 1 .. Len(f) + 1 : Append(Fitting(f), b)[i] = Fitting(Append(f, b))[i]
    BY <1>1, <1>2, <1>3, <2>1, <2>2, <2>3
  <2> QED  BY <1>3, <2>1, <2>2, <2>3, <2>4, SeqEqual
<1>5. CASE Len(f) >= MaxPacket
  <2>1. append(Fitting(f), b) = Fitting(f) /\ Len(Fitting(f)) = MaxPacket
    BY <1>1, <1>2, <1>5, RxParameters DEF append
  <2>2. Len(Fitting(Append(f, b))) = MaxPacket
    BY <1>1, <1>3, <1>5, RxParameters
  <2>3. \A i \in 1 .. MaxPacket : Fitting(f)[i] = Fitting(Append(f, b))[i]
    BY <1>1, <1>2, <1>3, <1>5, <2>1, <2>2, RxParameters
  <2> QED  BY <1>2, <1>3, <2>1, <2>2, <2>3, SeqEqual
<1> QED  BY <1>1, <1>4, <1>5, RxParameters

LEMMA FittingOfLonger ==
  ASSUME NEW f \in Seq(Data), NEW b \in Data
  PROVE  append(Fitting(f), b) = Fitting(Append(f, b)) /\ append(Fitting(f), b) # NULL
<1>1. Append(f, b) \in Seq(Data)
  OBVIOUS
<1>2. Fitting(Append(f, b)) # NULL
  <2> HIDE DEF Fitting
  <2> QED  BY <1>1, FittingType, Zenon
<1> QED  BY <1>2, FittingAppend

LEMMA AppendType ==
  ASSUME NEW p \in Seq(Bytes), NEW b \in Bytes
  PROVE  /\ append(p, b) \in Seq(Bytes)
         /\ Len(p) <= MaxPacket => Len(append(p, b)) <= MaxPacket
BY RxParameters DEF append

LEMMA RxPacketType ==
  ASSUME NEW s \in RxStates PROVE RxPacket(s) \in Seq(Bytes)
BY DEF RxStates, RxPacket

LEMMA AfterFeedType ==
  ASSUME NEW s \in RxStates, NEW b \in Bytes PROVE AfterFeed(s, b) \in RxStates
<1>1. /\ RxPacket(s) \in Seq(Bytes) /\ append(RxPacket(s), b) \in Seq(Bytes)
      /\ append(RxPacket(s), 0) \in Seq(Bytes)
  BY RxPacketType, AppendType, Codes
<1> QED  BY <1>1 DEF AfterFeed, RxStates

LEMMA RxStateType == RxTypeOK => RxState \in RxStates /\ AtHead \in RxStates
<1> SUFFICES ASSUME RxTypeOK PROVE RxState \in RxStates /\ AtHead \in RxStates
  OBVIOUS
<1>1. RxState \in RxStates
  BY DEF RxTypeOK, RxState, RxStates
<1>2. byte.byte \in Bytes
  BY DEF RxTypeOK, SentBytes
<1> QED  BY <1>1, <1>2, AfterFeedType DEF AtHead, RxStates

-----------------------------------------------------------------------------
(* TashTalk sends a byte, and it is queued: uart_rx will follow.           *)

LEMMA FollowsData ==
  ASSUME RxTypeOK, NEW s \in RxStates, AtEnd(s), NEW b \in Data,
         owed = NULL, frame' = Append(frame, b),
         owed' = (IF b = 0 THEN Literal ELSE NULL), UNCHANGED <<lossy, prevLossy>>,
         NEW t, t = AfterFeed(s, b)
  PROVE  Expected(s, Sent(b, FALSE)) /\ AtEnd(t)'
<1>1. Expected(s, Sent(b, FALSE))
  BY DEF Expected, Sent, AtEnd, Followed
<1>2. ASSUME Sure' PROVE Followed(t)'
  <2>1. ~s.esc /\ RxPacket(s) = Fitting(frame) /\ frame \in Seq(Data)
    BY <1>2 DEF Sure, AtEnd, Followed, RxTypeOK
  <2>2. CASE b = 0
    <3>1. t = [esc |-> TRUE, pkt |-> Fitting(frame)]
      BY <2>1, <2>2 DEF AfterFeed
    <3> QED  BY <2>1, <2>2, <3>1, Codes DEF Followed
  <2>3. CASE b # 0
    <3>1. t = [esc |-> FALSE, pkt |-> append(Fitting(frame), b)]
      BY <2>1, <2>3 DEF AfterFeed
    <3>2. t.pkt = Fitting(Append(frame, b)) /\ t.pkt # NULL
      BY <2>1, <3>1, FittingOfLonger
    <3>3. ~t.esc /\ RxPacket(t) = Fitting(frame')
      BY <3>1, <3>2 DEF RxPacket
    <3> QED  BY <2>3, <3>3, Codes DEF Followed
  <2> QED  BY <2>2, <2>3
<1>3. EscapeFollowed(t)'
  BY Codes DEF EscapeFollowed, AfterFeed
<1> QED  BY <1>1, <1>2, <1>3 DEF AtEnd

LEMMA FollowsEscape ==
  ASSUME RxTypeOK, NEW s \in RxStates, AtEnd(s), NEW code \in EndCodes,
         owed = NULL, owed' = code, UNCHANGED <<frame, lossy, prevLossy>>,
         NEW t, t = AfterFeed(s, 0)
  PROVE  Expected(s, Sent(0, FALSE)) /\ AtEnd(t)'
<1>1. Expected(s, Sent(0, FALSE))
  BY DEF Expected, Sent, AtEnd, Followed
<1>2. ASSUME Sure' PROVE Followed(t)'
  <2>1. ~s.esc /\ RxPacket(s) = Fitting(frame)
    BY <1>2 DEF Sure, AtEnd, Followed
  <2>2. t = [esc |-> TRUE, pkt |-> Fitting(frame)]
    BY <2>1 DEF AfterFeed
  <2> QED  BY <2>2, Codes DEF Followed
<1>3. ASSUME ~lossy', frame' # <<>> PROVE EscapeFollowed(t)'
  <2>1. ~s.esc
    BY <1>3 DEF AtEnd, EscapeFollowed
  <2> QED  BY <2>1, Codes DEF EscapeFollowed, AfterFeed
<1> QED  BY <1>1, <1>2, <1>3 DEF AtEnd

LEMMA FollowsLiteral ==
  ASSUME RxTypeOK, NEW s \in RxStates, AtEnd(s),
         owed = Literal, owed' = NULL, UNCHANGED <<frame, lossy, prevLossy>>,
         NEW t, t = AfterFeed(s, Literal)
  PROVE  Expected(s, Sent(Literal, FALSE)) /\ AtEnd(t)'
<1>1. Expected(s, Sent(Literal, FALSE))
  BY Codes DEF Expected, Sent
<1>2. ASSUME Sure' PROVE Followed(t)'
  <2>1. PICK f \in Seq(Data) : s.esc /\ frame = Append(f, 0) /\ s.pkt = Fitting(f)
    BY <1>2 DEF Sure, AtEnd, Followed
  <2>2. 0 \in Data
    <3> DEFINE D == Data \cup {0}
    <3>0. f \in Seq(D) /\ 0 \in D /\ Len(f) \in Nat
      BY <2>1
    <3>1. /\ Len(frame) = Len(f) + 1 /\ frame[Len(f) + 1] = 0 /\ Len(f) \in Nat
          /\ frame \in Seq(Data)
      <4> HIDE DEF D
      <4> QED  BY <2>1, <3>0, AppendProperties DEF RxTypeOK
    <3>2. Len(f) + 1 \in 1 .. Len(frame)
      BY <3>1
    <3> QED  BY <3>1, <3>2, ElementOfSeq
  <2>3. RxPacket(s) = Fitting(f)
    BY <2>1, FittingType DEF RxPacket
  <2>4. t = [esc |-> FALSE, pkt |-> append(Fitting(f), 0)]
    BY <2>1, <2>3, Codes DEF AfterFeed
  <2>5. t.pkt = Fitting(frame) /\ t.pkt # NULL
    BY <2>1, <2>2, <2>4, FittingOfLonger
  <2>6. ~t.esc /\ RxPacket(t) = Fitting(frame')
    BY <2>4, <2>5 DEF RxPacket
  <2> QED  BY <2>6, Codes DEF Followed
<1>3. EscapeFollowed(t)'
  BY Codes DEF EscapeFollowed, AfterFeed
<1> QED  BY <1>1, <1>2, <1>3 DEF AtEnd

(* The end of a frame gets uart_rx out of what a loss before it has done.  *)
LEMMA FollowsEnd ==
  ASSUME RxTypeOK, NEW s \in RxStates, AtEnd(s),
         owed \in EndCodes, owed' = NULL, frame' = <<>>, lossy' = FALSE,
         prevLossy' = (lossy \/ (prevLossy /\ frame = <<>>)),
         NEW t, t = AfterFeed(s, owed)
  PROVE  Expected(s, Sent(owed, TRUE)) /\ AtEnd(t)'
<1>1. Expected(s, Sent(owed, TRUE))
  BY DEF Expected, Sent, AtEnd, Followed
<1>2. ASSUME Sure' PROVE Followed(t)'
  <2>1. s.esc
    <3>1. CASE Sure
      BY <3>1 DEF AtEnd, Followed
    <3>2. CASE ~lossy /\ frame # <<>>
      BY <3>2 DEF AtEnd, EscapeFollowed
    <3> QED  BY <1>2, <3>1, <3>2 DEF Sure
  <2>2. t = [esc |-> FALSE, pkt |-> NULL]
    BY <2>1, Codes DEF AfterFeed
  <2>3. Fitting(frame') = <<>>
    <3>1. \A f : f = <<>> => f \in Seq(Data) /\ Len(f) = 0
      OBVIOUS
    <3>2. \A f : f = <<>> => Fitting(f) = <<>>
      BY <3>1, FittingEmpty
    <3> QED  BY <3>2, Zenon
  <2> QED  BY <2>2, <2>3, Codes DEF Followed, RxPacket
<1> QED  BY <1>1, <1>2 DEF AtEnd

(* A byte is lost: nothing is expected of uart_rx.                         *)
LEMMA NothingToFollow ==
  ASSUME lossy' \/ (prevLossy' /\ frame' = <<>>), NEW s
  PROVE  AtEnd(s)'
BY DEF AtEnd, Sure

-----------------------------------------------------------------------------
(* The course, as bytes join the queue and leave it.                       *)

LEMMA CourseEnd ==
  ASSUME RxTypeOK, NEW e, Course(e)
  PROVE  /\ Len(uart_msgq) \in Nat /\ e[Len(e)] \in RxStates /\ AtEnd(e[Len(e)])
         /\ \A i \in 1 .. Len(uart_msgq) : uart_msgq[i].byte \in Bytes
<1>1. Len(uart_msgq) \in Nat /\ e \in Seq(RxStates) /\ Len(e) = Len(uart_msgq) + 1
  BY DEF RxTypeOK, Course
<1>2. Len(e) \in 1 .. Len(e)
  BY <1>1
<1>3. e[Len(e)] \in RxStates
  BY <1>1, <1>2, ElementOfSeq
<1>4. \A i \in 1 .. Len(uart_msgq) : uart_msgq[i] \in SentBytes
  BY ElementOfSeq DEF RxTypeOK
<1> QED  BY <1>1, <1>3, <1>4 DEF Course, SentBytes

LEMMA CourseKept ==
  ASSUME RxTypeOK, NEW e, Course(e), NEW x \in SentBytes,
         uart_msgq' = Append(uart_msgq, x), UNCHANGED <<pc, byte, rxstate>>,
         Expected(e[Len(e)], x),
         NEW t, t = AfterFeed(e[Len(e)], x.byte), AtEnd(t)'
  PROVE  Course(Append(e, t))'
<1> DEFINE n == Len(uart_msgq)
<1>1. n \in Nat /\ e \in Seq(RxStates) /\ Len(e) = n + 1 /\ e[n + 1] \in RxStates
  BY CourseEnd DEF Course
<1>2. t \in RxStates
  BY <1>1, AfterFeedType DEF SentBytes
<1>3. /\ Append(e, t) \in Seq(RxStates) /\ Len(Append(e, t)) = n + 2
      /\ \A i \in 1 .. n + 1 : Append(e, t)[i] = e[i]
      /\ Append(e, t)[n + 2] = t
  BY <1>1, <1>2
<1>4. /\ Len(uart_msgq') = n + 1 /\ uart_msgq'[n + 1] = x
      /\ \A i \in 1 .. n : uart_msgq'[i] = uart_msgq[i]
  BY <1>1 DEF RxTypeOK
<1>5. AtHead' = AtHead
  BY DEF AtHead, RxState, rxstate
<1>6. Append(e, t)[1] = AtHead'
  BY <1>1, <1>3, <1>5 DEF Course
<1>7. \A i \in 1 .. n + 1 :
        /\ Expected(Append(e, t)[i], uart_msgq'[i])
        /\ Append(e, t)[i + 1] = AfterFeed(Append(e, t)[i], uart_msgq'[i].byte)
  <2> TAKE i \in 1 .. n + 1
  <2>1. CASE i = n + 1
    BY <1>1, <1>3, <1>4, <2>1
  <2>2. CASE i \in 1 .. n
    <3>1. /\ Append(e, t)[i] = e[i] /\ Append(e, t)[i + 1] = e[i + 1]
          /\ uart_msgq'[i] = uart_msgq[i]
      BY <1>1, <1>3, <1>4, <2>2
    <3> QED  BY <2>2, <3>1 DEF Course
  <2> QED  BY <1>1, <2>1, <2>2
<1> HIDE DEF n
<1>8. AtEnd(Append(e, t)[Len(Append(e, t))])'
  BY <1>3
<1> QED  BY <1>1, <1>3, <1>4, <1>6, <1>7, <1>8 DEF Course

LEMMA CourseSame ==
  ASSUME RxTypeOK, NEW e, Course(e), UNCHANGED <<uart_msgq, pc, byte, rxstate>>,
         AtEnd(e[Len(e)])'
  PROVE  Course(e)'
<1>1. AtHead' = AtHead
  BY DEF AtHead, RxState, rxstate
<1> QED  BY <1>1 DEF Course

LEMMA CourseTail ==
  ASSUME RxTypeOK, NEW e, Course(e), uart_msgq # <<>>, uart_msgq' = Tail(uart_msgq),
         UNCHANGED line, AtHead' = e[2]
  PROVE  Course(Tail(e))'
<1> DEFINE n == Len(uart_msgq)
<1>1. /\ n \in Nat /\ n > 0 /\ e \in Seq(RxStates) /\ Len(e) = n + 1
      /\ uart_msgq \in Seq(SentBytes)
  BY DEF Course, RxTypeOK
<1>2. /\ Tail(e) \in Seq(RxStates) /\ Len(Tail(e)) = n
      /\ \A i \in 1 .. n : Tail(e)[i] = e[i + 1]
  BY <1>1, HeadTailProperties
<1>3. /\ Len(uart_msgq') = n - 1
      /\ \A i \in 1 .. n - 1 : uart_msgq'[i] = uart_msgq[i + 1]
  BY <1>1, HeadTailProperties
<1>4. \A i \in 1 .. n - 1 :
        /\ Expected(Tail(e)[i], uart_msgq'[i])
        /\ Tail(e)[i + 1] = AfterFeed(Tail(e)[i], uart_msgq'[i].byte)
  <2> TAKE i \in 1 .. n - 1
  <2>1. i + 1 \in 1 .. n /\ i \in 1 .. n
    BY <1>1
  <2>2. /\ Tail(e)[i] = e[i + 1] /\ Tail(e)[i + 1] = e[(i + 1) + 1]
        /\ uart_msgq'[i] = uart_msgq[i + 1]
    BY <1>2, <1>3, <2>1
  <2> QED  BY <2>1, <2>2 DEF Course
<1>5. Tail(e)[1] = AtHead'
  BY <1>1, <1>2
<1>6. AtEnd(Tail(e)[Len(Tail(e))])'
  <2>1. Tail(e)[Len(Tail(e))] = e[Len(e)]
    BY <1>1, <1>2
  <2>2. AtEnd(e[Len(e)])'
    BY DEF Course, AtEnd, Sure, Followed, EscapeFollowed, line
  <2> QED  BY <2>1, <2>2
<1> HIDE DEF n
<1> QED  BY <1>1, <1>2, <1>3, <1>4, <1>5, <1>6 DEF Course

-----------------------------------------------------------------------------
(* The steps.                                                              *)

LineType ==
  /\ frame \in Seq(Data) /\ Len(frame) <= MaxFrame
  /\ owed \in {NULL, Literal} \cup EndCodes
  /\ lossy \in BOOLEAN /\ prevLossy \in BOOLEAN
QueueType == uart_msgq \in Seq(SentBytes) /\ Len(uart_msgq) <= RxBufferSize
RxType ==
  /\ pc \in {"get", "feed", "put"}
  /\ byte \in SentBytes
  /\ in_escape \in BOOLEAN
  /\ \/ packet_in_progress = NULL
     \/ packet_in_progress \in Seq(Bytes) /\ Len(packet_in_progress) <= MaxPacket

LEMMA RxTypeParts == RxTypeOK <=> LineType /\ QueueType /\ RxType
BY DEF RxTypeOK, LineType, QueueType, RxType

LEMMA SentType ==
  ASSUME LineType, NEW b \in Bytes, NEW isEnd \in BOOLEAN
  PROVE  Sent(b, isEnd) \in SentBytes /\ Sent(b, isEnd).byte = b
BY DEF LineType, Sent, Sure, SentBytes

(* TashTalk has sent b, and the interrupt handler has queued it or not.    *)
LEMMA SentInv ==
  ASSUME RxInv, NEW b \in Bytes, NEW isEnd \in BOOLEAN, NEW kept \in BOOLEAN,
         serial_cb(Sent(b, isEnd), kept), UNCHANGED <<pc, byte, rxstate>>, LineType',
         \A s \in RxStates : \A t :
           kept /\ AtEnd(s) /\ t = AfterFeed(s, b)
             => Expected(s, Sent(b, isEnd)) /\ AtEnd(t)',
         ~kept => lossy' \/ (prevLossy' /\ frame' = <<>>)
  PROVE  RxInv'
<1>1. RxTypeOK /\ LineType /\ QueueType /\ RxType
  BY RxTypeParts DEF RxInv
<1>2. Sent(b, isEnd) \in SentBytes /\ Sent(b, isEnd).byte = b
  BY <1>1, SentType
<1>3. QueueType'
  <2>1. uart_msgq \in Seq(SentBytes) /\ Len(uart_msgq) \in Nat /\ Len(uart_msgq) <= RxBufferSize
    BY <1>1 DEF QueueType
  <2>2. CASE Len(uart_msgq) < RxBufferSize
    <3>1. uart_msgq' = Append(uart_msgq, Sent(b, isEnd))
      BY <2>2 DEF serial_cb
    <3>2. uart_msgq' \in Seq(SentBytes) /\ Len(uart_msgq') = Len(uart_msgq) + 1
      BY <1>2, <2>1, <3>1, AppendProperties
    <3> QED  BY <2>1, <2>2, <3>2, RxParameters DEF QueueType
  <2>3. CASE ~(Len(uart_msgq) < RxBufferSize)
    <3>1. uart_msgq' = uart_msgq
      BY <2>3 DEF serial_cb
    <3> QED  BY <2>1, <3>1 DEF QueueType
  <2> QED  BY <2>2, <2>3
<1>4. RxType'
  BY <1>1 DEF RxType, rxstate
<1>5. RxTypeOK'
  BY <1>3, <1>4, RxTypeParts DEF RxTypeOK, LineType, QueueType, RxType
<1>6. LossIsLocal' /\ ForwardedAsSent'
  BY DEF RxInv, LossIsLocal, ForwardedAsSent, rxstate
<1>7. PICK e : Course(e)
  BY DEF RxInv
<1>8. e[Len(e)] \in RxStates /\ AtEnd(e[Len(e)])
  BY <1>1, <1>7, CourseEnd
<1>9. \E f : Course(f)'
  <2>1. CASE kept
    <3> DEFINE t == AfterFeed(e[Len(e)], b)
    <3>1. Expected(e[Len(e)], Sent(b, isEnd)) /\ AtEnd(t)'
      BY <1>8, <2>1
    <3>2. uart_msgq' = Append(uart_msgq, Sent(b, isEnd))
      BY <2>1 DEF serial_cb
    <3>3. t = AfterFeed(e[Len(e)], Sent(b, isEnd).byte)
      BY <1>2
    <3> HIDE DEF t
    <3>4. Course(Append(e, t))'
      BY <1>1, <1>2, <1>7, <3>1, <3>2, <3>3, CourseKept
    <3> QED  BY <3>4
  <2>2. CASE ~kept
    <3>1. uart_msgq' = uart_msgq
      BY <2>2 DEF serial_cb
    <3>2. AtEnd(e[Len(e)])'
      BY <2>2, NothingToFollow
    <3>3. Course(e)'
      BY <1>1, <1>7, <3>1, <3>2, CourseSame
    <3> QED  BY <3>3
  <2> QED  BY <2>1, <2>2
<1> QED  BY <1>5, <1>6, <1>9 DEF RxInv

LEMMA SendDataInv ==
  ASSUME RxInv, NEW b \in Data, SendData(b), UNCHANGED <<pc, byte, rxstate>> PROVE RxInv'
<1>1. RxTypeOK /\ LineType
  BY RxTypeParts DEF RxInv
<1>2. PICK kept \in BOOLEAN : serial_cb(Sent(b, FALSE), kept) /\ lossy' = (lossy \/ ~kept)
  BY DEF SendData
<1>3. /\ owed = NULL /\ frame' = Append(frame, b) /\ Len(frame) < MaxFrame
      /\ owed' = (IF b = 0 THEN Literal ELSE NULL) /\ prevLossy' = prevLossy
  BY DEF SendData
<1>4. LineType'
  BY <1>1, <1>2, <1>3, RxParameters DEF LineType
<1>5. ASSUME NEW s \in RxStates, NEW t, kept, AtEnd(s), t = AfterFeed(s, b)
      PROVE  Expected(s, Sent(b, FALSE)) /\ AtEnd(t)'
  <2>1. lossy' = lossy
    BY <1>1, <1>2, <1>5 DEF LineType
  <2> QED  BY <1>1, <1>3, <1>5, <2>1, FollowsData
<1>6. ~kept => lossy'
  BY <1>2
<1>7. b \in Bytes
  BY RxParameters
<1> QED  BY <1>2, <1>4, <1>5, <1>6, <1>7, SentInv

LEMMA SendEscapeInv ==
  ASSUME RxInv, NEW code \in EndCodes, SendEscape(code), UNCHANGED <<pc, byte, rxstate>>
  PROVE  RxInv'
<1>1. RxTypeOK /\ LineType
  BY RxTypeParts DEF RxInv
<1>2. PICK kept \in BOOLEAN : serial_cb(Sent(0, FALSE), kept) /\ lossy' = (lossy \/ ~kept)
  BY DEF SendEscape
<1>3. owed = NULL /\ owed' = code /\ frame' = frame /\ prevLossy' = prevLossy
  BY DEF SendEscape
<1>4. LineType'
  BY <1>1, <1>2, <1>3 DEF LineType
<1>5. ASSUME NEW s \in RxStates, NEW t, kept, AtEnd(s), t = AfterFeed(s, 0)
      PROVE  Expected(s, Sent(0, FALSE)) /\ AtEnd(t)'
  <2>1. lossy' = lossy
    BY <1>1, <1>2, <1>5 DEF LineType
  <2> QED  BY <1>1, <1>3, <1>5, <2>1, FollowsEscape
<1>6. ~kept => lossy'
  BY <1>2
<1> QED  BY <1>2, <1>4, <1>5, <1>6, Codes, SentInv

LEMMA SendLiteralInv ==
  ASSUME RxInv, SendLiteral, UNCHANGED <<pc, byte, rxstate>> PROVE RxInv'
<1>1. RxTypeOK /\ LineType
  BY RxTypeParts DEF RxInv
<1>2. PICK kept \in BOOLEAN :
        serial_cb(Sent(Literal, FALSE), kept) /\ lossy' = (lossy \/ ~kept)
  BY DEF SendLiteral
<1>3. owed = Literal /\ owed' = NULL /\ frame' = frame /\ prevLossy' = prevLossy
  BY DEF SendLiteral
<1>4. LineType'
  BY <1>1, <1>2, <1>3 DEF LineType
<1>5. ASSUME NEW s \in RxStates, NEW t, kept, AtEnd(s), t = AfterFeed(s, Literal)
      PROVE  Expected(s, Sent(Literal, FALSE)) /\ AtEnd(t)'
  <2>1. lossy' = lossy
    BY <1>1, <1>2, <1>5 DEF LineType
  <2> QED  BY <1>1, <1>3, <1>5, <2>1, FollowsLiteral
<1>6. ~kept => lossy'
  BY <1>2
<1> QED  BY <1>2, <1>4, <1>5, <1>6, Codes, SentInv

LEMMA SendEndInv ==
  ASSUME RxInv, SendEnd, UNCHANGED <<pc, byte, rxstate>> PROVE RxInv'
<1>1. RxTypeOK /\ LineType
  BY RxTypeParts DEF RxInv
<1>2. PICK kept \in BOOLEAN :
        /\ serial_cb(Sent(owed, TRUE), kept)
        /\ prevLossy' = (lossy \/ ~kept \/ (prevLossy /\ frame = <<>>))
  BY DEF SendEnd
<1>3. owed \in EndCodes /\ owed' = NULL /\ frame' = <<>> /\ lossy' = FALSE
  BY DEF SendEnd
<1>4. LineType'
  <2>1. \A f : f = <<>> => f \in Seq(Data) /\ Len(f) <= MaxFrame
    BY RxParameters
  <2>2. frame' \in Seq(Data) /\ Len(frame') <= MaxFrame
    BY <1>3, <2>1, Zenon
  <2>3. prevLossy' \in BOOLEAN
    BY <1>2, Zenon
  <2> QED  BY <1>3, <2>2, <2>3 DEF LineType
<1>5. ASSUME NEW s \in RxStates, NEW t, kept, AtEnd(s), t = AfterFeed(s, owed)
      PROVE  Expected(s, Sent(owed, TRUE)) /\ AtEnd(t)'
  <2>1. prevLossy' = (lossy \/ (prevLossy /\ frame = <<>>))
    BY <1>2, <1>5
  <2> QED  BY <1>1, <1>3, <1>5, <2>1, FollowsEnd
<1>6. ~kept => prevLossy' /\ frame' = <<>>
  BY <1>2, <1>3
<1>7. owed \in Bytes
  BY <1>3, Codes
<1> QED  BY <1>2, <1>4, <1>5, <1>6, <1>7, SentInv

LEMMA TashTalkInv == ASSUME RxInv, TashTalk PROVE RxInv'
<1>1. UNCHANGED <<pc, byte, rxstate>>
  BY DEF TashTalk
<1>2. CASE \E b \in Data : SendData(b)
  BY <1>1, <1>2, SendDataInv
<1>3. CASE \E code \in EndCodes : SendEscape(code)
  BY <1>1, <1>3, SendEscapeInv
<1>4. CASE SendLiteral
  BY <1>1, <1>4, SendLiteralInv
<1>5. CASE SendEnd
  BY <1>1, <1>5, SendEndInv
<1> QED  BY <1>2, <1>3, <1>4, <1>5 DEF TashTalk

(* The byte that uart_rx takes is one that the course has an answer to.    *)
LEMMA GetInv == ASSUME RxInv, UartRxGet PROVE RxInv'
<1>1. RxTypeOK /\ LineType /\ QueueType /\ RxType
  BY RxTypeParts DEF RxInv
<1>2. /\ pc = "get" /\ uart_msgq # <<>> /\ pc' = "feed"
      /\ byte' = Head(uart_msgq) /\ uart_msgq' = Tail(uart_msgq)
      /\ UNCHANGED line /\ UNCHANGED rxstate
  BY DEF UartRxGet
<1>3. /\ Head(uart_msgq) \in SentBytes /\ Tail(uart_msgq) \in Seq(SentBytes)
      /\ Len(Tail(uart_msgq)) = Len(uart_msgq) - 1 /\ Len(uart_msgq) \in Nat
      /\ Len(uart_msgq) > 0 /\ Head(uart_msgq) = uart_msgq[1]
  BY <1>1, <1>2, HeadTailProperties DEF QueueType
<1>4. LineType'
  BY <1>1, <1>2 DEF LineType, line
<1>5. QueueType'
  BY <1>1, <1>2, <1>3, RxParameters DEF QueueType
<1>6. RxType'
  BY <1>1, <1>2, <1>3 DEF RxType, rxstate
<1>7. RxTypeOK'
  BY <1>4, <1>5, <1>6 DEF RxTypeOK, LineType, QueueType, RxType
<1>8. PICK e : Course(e)
  BY DEF RxInv
<1>9. /\ e[1] = RxState
      /\ Expected(e[1], uart_msgq[1]) /\ e[2] = AfterFeed(e[1], uart_msgq[1].byte)
  <2>1. 1 \in 1 .. Len(uart_msgq)
    BY <1>3
  <2> QED  BY <1>2, <1>8, <2>1 DEF Course, AtHead
<1>10. RxState' = RxState
  BY <1>2 DEF RxState, rxstate
<1>11. AtHead' = e[2]
  BY <1>2, <1>3, <1>9, <1>10 DEF AtHead
<1>12. Course(Tail(e))'
  BY <1>1, <1>2, <1>8, <1>11, CourseTail
<1>13. LossIsLocal'
  <2>1. RxState.esc = in_escape /\ RxState.pkt = packet_in_progress
    BY DEF RxState
  <2>2. byte' = uart_msgq[1] /\ in_escape' = in_escape
        /\ packet_in_progress' = packet_in_progress
    BY <1>2, <1>3 DEF rxstate
  <2>3. byte'.sure => IF byte'.end
                      THEN in_escape' /\ packet_in_progress' = Fitting(byte'.frame)
                      ELSE ~(in_escape' /\ byte'.byte \in EndCodes)
    BY <1>9, <2>1, <2>2 DEF Expected
  <2> QED  BY <2>3 DEF LossIsLocal
<1>14. ForwardedAsSent'
  BY <1>2 DEF ForwardedAsSent
<1> QED  BY <1>7, <1>12, <1>13, <1>14 DEF RxInv

(* What feed leaves behind, if it does not wait for UARTtoApps.            *)
FedTo(s) ==
  pc' = "get" /\ byte' = NoByte /\ in_escape' = s.esc /\ packet_in_progress' = s.pkt
FedToPut ==
  /\ pc' = "put" /\ byte' = byte /\ byte.byte = Complete /\ in_escape
  /\ in_escape' = TRUE /\ packet_in_progress' = Packet

LEMMA FeedOutcome ==
  ASSUME RxTypeOK, feed
  PROVE  \/ FedTo(AfterFeed(RxState, byte.byte))
         \/ FedToPut
<1>1. in_escape \in BOOLEAN /\ RxPacket(RxState) = Packet /\ RxState.esc = in_escape
  BY DEF RxTypeOK, RxPacket, RxState, Packet
<1>2. Literal \notin EndCodes /\ Complete \in EndCodes
      /\ EndCodes = {Complete, Damaged, Aborted}
  BY Codes
<1>3. "get" # "put"
  OBVIOUS
<1>4. CASE ~in_escape
  <2>1. FeedPlain
    BY <1>4 DEF feed
  <2>2. CASE byte.byte = 0
    <3>1. Keep(Packet) /\ in_escape' = TRUE
      BY <2>1, <2>2 DEF FeedPlain
    <3>2. AfterFeed(RxState, byte.byte) = [esc |-> TRUE, pkt |-> Packet]
      BY <1>1, <1>4, <2>2 DEF AfterFeed
    <3> QED  BY <3>1, <3>2 DEF FedTo, Keep, Done
  <2>3. CASE byte.byte # 0
    <3>1. Keep(append(Packet, byte.byte)) /\ in_escape' = in_escape
      BY <2>1, <2>3 DEF FeedPlain
    <3>2. AfterFeed(RxState, byte.byte) = [esc |-> FALSE, pkt |-> append(Packet, byte.byte)]
      BY <1>1, <1>4, <2>3 DEF AfterFeed
    <3>3. in_escape' = FALSE
      BY <1>1, <1>4, <3>1
    <3>4. pc' = "get" /\ byte' = NoByte /\ packet_in_progress' = append(Packet, byte.byte)
      BY <3>1 DEF Keep, Done
    <3> DEFINE s == AfterFeed(RxState, byte.byte)
    <3>5. s.esc = FALSE /\ s.pkt = append(Packet, byte.byte)
      BY <3>2
    <3> HIDE DEF s
    <3>6. FedTo(s)
      BY <3>3, <3>4, <3>5 DEF FedTo
    <3> QED  BY <3>6 DEF s
  <2> QED  BY <2>2, <2>3
<1>5. CASE in_escape
  <2>0. FeedEscaped
    BY <1>5 DEF feed
  <2> DEFINE a == AfterFeed(RxState, byte.byte)
  <2>1. a = [esc |-> FALSE,
             pkt |-> IF byte.byte = Literal THEN append(Packet, 0)
                     ELSE IF byte.byte \in EndCodes THEN NULL ELSE Packet]
    BY <1>1, <1>5 DEF AfterFeed
  <2>2. in_escape' = (pc' = "put")
    BY <2>0 DEF FeedEscaped
  <2>3. CASE pc' = "get"
    <3>1. in_escape' = FALSE
      BY <1>3, <2>2, <2>3
    <3>2. /\ byte' = NoByte
          /\ packet_in_progress' =
               IF byte.byte = Literal THEN append(Packet, 0)
               ELSE IF byte.byte \in EndCodes THEN NULL ELSE Packet
      BY <1>2, <1>3, <2>0, <2>3 DEF FeedEscaped, Keep, Discard, Done, Forward
    <3>3. FedTo(a)
      <4> HIDE DEF a
      <4> QED  BY <2>1, <2>3, <3>1, <3>2 DEF FedTo
    <3> QED  BY <3>3
  <2>4. CASE pc' # "get"
    <3>1. byte.byte = Complete /\ packet_in_progress' = Packet /\ pc' = "put" /\ byte' = byte
      BY <2>0, <2>4 DEF FeedEscaped, Keep, Discard, Done, Forward
    <3>2. in_escape' = TRUE
      BY <2>2, <3>1
    <3> QED  BY <1>5, <3>1, <3>2 DEF FedToPut
  <2> QED  BY <2>3, <2>4
<1> QED  BY <1>1, <1>4, <1>5

LEMMA NoByteType == NoByte \in SentBytes /\ ~NoByte.sure
<1>1. <<>> \in Seq(Data) /\ 0 \in Bytes
  BY Codes
<1> QED  BY <1>1 DEF NoByte, SentBytes

(* No byte is fed, and what is at the head of the queue has not changed.   *)
LEMMA RxStepInv ==
  ASSUME RxInv, UNCHANGED <<line, uart_msgq>>, RxType', AtHead' = AtHead,
         LossIsLocal', ForwardedAsSent'
  PROVE  RxInv'
<1>1. LineType' /\ QueueType'
  BY RxTypeParts DEF RxInv, LineType, QueueType, line
<1>2. RxTypeOK'
  BY <1>1 DEF RxTypeOK, LineType, QueueType, RxType
<1>3. PICK e : Course(e)
  BY DEF RxInv
<1>4. Course(e)'
  BY <1>3 DEF Course, AtEnd, Sure, Followed, EscapeFollowed, line
<1> QED  BY <1>2, <1>4 DEF RxInv

LEMMA FeedInv == ASSUME RxInv, feed PROVE RxInv'
<1>1. RxTypeOK /\ LossIsLocal /\ RxType /\ byte.byte \in Bytes
  BY RxTypeParts DEF RxInv, RxType, SentBytes
<1>2. pc = "feed" /\ UNCHANGED <<line, uart_msgq>>
  BY DEF feed
<1>3. RxState \in RxStates /\ AtHead = AfterFeed(RxState, byte.byte)
  BY <1>1, <1>2, RxStateType DEF AtHead
<1>4. Packet \in Seq(Bytes) /\ Len(Packet) <= MaxPacket
  BY <1>1, RxParameters DEF RxType, Packet
<1>5. CASE FedTo(AfterFeed(RxState, byte.byte))
  <2> DEFINE s == AfterFeed(RxState, byte.byte)
  <2>1. s \in RxStates
    BY <1>1, <1>3, AfterFeedType
  <2>2. s.esc \in BOOLEAN /\ s = [esc |-> s.esc, pkt |-> s.pkt]
    <3> HIDE DEF s
    <3> QED  BY <2>1 DEF RxStates
  <2>3. s.pkt = NULL \/ (s.pkt \in Seq(Bytes) /\ Len(s.pkt) <= MaxPacket)
    <3>1. RxPacket(RxState) = Packet
      BY DEF RxPacket, RxState, Packet
    <3>2. s.pkt \in {NULL, Packet, append(Packet, 0), append(Packet, byte.byte)}
      BY <3>1 DEF AfterFeed
    <3>3. /\ append(Packet, 0) \in Seq(Bytes) /\ Len(append(Packet, 0)) <= MaxPacket
          /\ append(Packet, byte.byte) \in Seq(Bytes)
          /\ Len(append(Packet, byte.byte)) <= MaxPacket
      BY <1>1, <1>4, AppendType, Codes
    <3> HIDE DEF s
    <3> QED  BY <1>4, <3>2, <3>3
  <2> HIDE DEF s
  <2>4. pc' = "get" /\ byte' = NoByte /\ in_escape' = s.esc /\ packet_in_progress' = s.pkt
    BY <1>5 DEF FedTo, s
  <2>5. RxType'
    BY <2>2, <2>3, <2>4, NoByteType DEF RxType
  <2>6. AtHead' = AtHead
    <3>1. AtHead' = s
      BY <2>2, <2>4 DEF AtHead, RxState
    <3> QED  BY <1>3, <3>1 DEF s
  <2>7. LossIsLocal' /\ ForwardedAsSent'
    BY <2>4 DEF LossIsLocal, ForwardedAsSent
  <2> QED  BY <1>2, <2>5, <2>6, <2>7, RxStepInv
<1>6. CASE FedToPut
  <2>1. /\ pc' = "put" /\ byte' = byte /\ byte.byte = Complete /\ in_escape
        /\ in_escape' = TRUE /\ packet_in_progress' = Packet
    BY <1>6 DEF FedToPut
  <2>2. RxType'
    BY <1>1, <1>4, <2>1 DEF RxType
  <2>3. AtHead' = AtHead
    <3>1. AtHead' = [esc |-> FALSE, pkt |-> NULL]
      BY <2>1 DEF AtHead
    <3>2. AfterFeed(RxState, byte.byte) = [esc |-> FALSE, pkt |-> NULL]
      BY <2>1, Codes DEF AfterFeed, RxState
    <3> QED  BY <1>3, <3>1, <3>2
  <2>4. LossIsLocal'
    BY <2>1 DEF LossIsLocal
  <2>5. ASSUME byte.sure PROVE byte.end /\ Packet = Fitting(byte.frame)
    <3>1. byte.end /\ packet_in_progress = Fitting(byte.frame)
      BY <1>1, <1>2, <2>1, <2>5, Codes DEF LossIsLocal
    <3>2. byte.frame \in Seq(Data)
      BY <1>1 DEF RxType, SentBytes
    <3>3. Fitting(byte.frame) # NULL
      <4> HIDE DEF Fitting
      <4> QED  BY <3>2, FittingType, Zenon
    <3> QED  BY <3>1, <3>3 DEF Packet
  <2>6. ForwardedAsSent'
    BY <2>1, <2>5 DEF ForwardedAsSent
  <2> QED  BY <1>2, <2>2, <2>3, <2>4, <2>6, RxStepInv
<1> QED  BY <1>1, <1>5, <1>6, FeedOutcome

LEMMA PutInv == ASSUME RxInv, UartRxPut PROVE RxInv'
<1>1. /\ pc = "put" /\ pc' = "get" /\ byte' = NoByte /\ packet_in_progress' = NULL
      /\ in_escape' = FALSE /\ UNCHANGED <<line, uart_msgq>>
  BY DEF UartRxPut, Discard, Done
<1>2. RxType'
  BY <1>1, NoByteType DEF RxType
<1>3. AtHead' = AtHead
  BY <1>1 DEF AtHead, RxState
<1>4. LossIsLocal' /\ ForwardedAsSent'
  BY <1>1 DEF LossIsLocal, ForwardedAsSent
<1> QED  BY <1>1, <1>2, <1>3, <1>4, RxStepInv

-----------------------------------------------------------------------------
(* uart_rx starts anew, with an empty queue.                               *)
LEMMA Started ==
  ASSUME LineType, uart_msgq = <<>>, pc = "get", byte = NoByte,
         in_escape = FALSE, packet_in_progress = NULL, lossy
  PROVE  RxInv
<1>1. uart_msgq \in Seq(SentBytes) /\ Len(uart_msgq) = 0
  <2>1. \A q : q = <<>> => q \in Seq(SentBytes) /\ Len(q) = 0
    OBVIOUS
  <2> QED  BY <2>1, Zenon
<1>2. QueueType
  BY <1>1, RxParameters DEF QueueType
<1>3. RxType
  BY NoByteType DEF RxType
<1>4. RxTypeOK
  BY <1>2, <1>3 DEF RxTypeOK, LineType, QueueType, RxType
<1>5. RxState \in RxStates /\ AtHead = RxState
  BY <1>4, RxStateType DEF AtHead
<1>6. AtEnd(RxState)
  BY DEF AtEnd, Sure
<1> DEFINE e == <<RxState>>
<1>7. e \in Seq(RxStates) /\ Len(e) = 1 /\ e[1] = RxState
  <2> HIDE DEF RxState
  <2> QED  BY <1>5
<1> HIDE DEF e
<1>8. Course(e)
  BY <1>1, <1>5, <1>6, <1>7 DEF Course
<1>9. LossIsLocal /\ ForwardedAsSent
  BY DEF LossIsLocal, ForwardedAsSent
<1> QED  BY <1>4, <1>8, <1>9 DEF RxInv

LEMMA InitInv == Init => RxInv
<1> SUFFICES ASSUME Init PROVE RxInv
  OBVIOUS
<1>1. \A f : f = <<>> => f \in Seq(Data) /\ Len(f) <= MaxFrame
  BY RxParameters
<1>2. frame \in Seq(Data) /\ Len(frame) <= MaxFrame
  BY <1>1, Zenon DEF Init
<1>3. LineType
  BY <1>2 DEF Init, LineType
<1> QED  BY <1>3, Started DEF Init

LEMMA RebootInv == ASSUME RxInv, Reboot PROVE RxInv'
<1>1. LineType
  BY RxTypeParts DEF RxInv
<1>2. LineType'
  BY <1>1 DEF LineType, Reboot
<1>3. /\ uart_msgq' = <<>> /\ pc' = "get" /\ byte' = NoByte
      /\ in_escape' = FALSE /\ packet_in_progress' = NULL /\ lossy'
  BY DEF Reboot, Discard, Done
<1>4. (LineType /\ uart_msgq = <<>> /\ pc = "get" /\ byte = NoByte
         /\ in_escape = FALSE /\ packet_in_progress = NULL /\ lossy => RxInv)'
  BY Started, PTL
<1> QED  BY <1>2, <1>3, <1>4

LEMMA StutterInv == ASSUME RxInv, UNCHANGED vars PROVE RxInv'
<1>1. UNCHANGED <<line, uart_msgq, pc, byte, rxstate>>
  BY DEF vars
<1>2. RxType'
  BY <1>1, RxTypeParts DEF RxInv, RxType, rxstate
<1>3. AtHead' = AtHead
  BY <1>1 DEF AtHead, RxState, rxstate
<1>4. LossIsLocal' /\ ForwardedAsSent'
  BY <1>1 DEF RxInv, LossIsLocal, ForwardedAsSent, rxstate
<1> QED  BY <1>1, <1>2, <1>3, <1>4, RxStepInv

LEMMA RxInductive == Spec => []RxInv
<1>1. Init => RxInv
  BY InitInv
<1>2. RxInv /\ [Next]_vars => RxInv'
  BY TashTalkInv, GetInv, FeedInv, PutInv, RebootInv, StutterInv DEF Next, uart_rx
<1> QED  BY <1>1, <1>2, PTL DEF Spec

(* No packet grows beyond its buffer, and no byte beyond the queue,        *)
(* whatever TashTalk sends and whatever is lost of it (feed, append in     *)
(* tashtalk.c; serial_cb in uart.c).                                       *)
THEOREM NothingOverflows == Spec => []RxTypeOK
BY RxInductive, PTL DEF RxInv

(* A lost byte, or a restart in the middle of a frame, spoils that frame   *)
(* and perhaps the next one, but none after it: feed takes the end of that *)
(* for what it is, and has all of its bytes (feed in tashtalk.c).          *)
THEOREM LossesAreLocal == Spec => []LossIsLocal
BY RxInductive, PTL DEF RxInv

(* What uart_rx puts into UARTtoApps is a frame that TashTalk has called   *)
(* complete, as it was sent, unless there were losses.                     *)
THEOREM ForwardsWhatWasSent == Spec => []ForwardedAsSent
BY RxInductive, PTL DEF RxInv
=============================================================================
