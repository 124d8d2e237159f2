------------------------ MODULE BufferPoolClientProofs ------------------------
(***************************************************************************)
(* What the pool promises to threads that follow the discipline of         *)
(* BufferPoolClient, for any number of buffers, threads and contents.      *)
(*                                                                         *)
(* OneOwner is inductive by itself.  Its difficult part is that a thread   *)
(* that relinquishes a buffer never finds the queue full: the queue holds  *)
(* no buffer twice and not the thread's own, so it is shorter than the     *)
(* number of buffers.  PooledIsScrubbed needs OneOwner: an owner that      *)
(* writes to its buffer writes to none that is free.                       *)
(***************************************************************************)
EXTENDS BufferPoolClient, FiniteSetTheorems, SequenceTheorems, TLAPS

-----------------------------------------------------------------------------
(* Sequences without repetitions, as queues.                               *)

LEMMA SeqDomain ==
  ASSUME NEW S, NEW s \in Seq(S)
  PROVE  DOMAIN s = 1 .. Len(s)
OBVIOUS

LEMMA ElementsOf ==
  ASSUME NEW S, NEW s \in Seq(S)
  PROVE  \A x : x \in Range(s) <=> \E i \in 1 .. Len(s) : x = s[i]
<1>1. DOMAIN s = 1 .. Len(s)
  BY SeqDomain
<1> QED  BY <1>1, Zenon DEF Range

LEMMA EmptyQueue == Range(<<>>) = {} /\ IsInjective(<<>>)
BY DEF Range, IsInjective

LEMMA InjectiveByIndex ==
  ASSUME NEW S, NEW s \in Seq(S)
  PROVE  IsInjective(s) <=> \A i, j \in 1 .. Len(s) : s[i] = s[j] => i = j
<1>1. DOMAIN s = 1 .. Len(s)
  BY SeqDomain
<1> QED  BY <1>1, Zenon DEF IsInjective

(* What k_msgq_get leaves.                                                 *)
LEMMA TailOfInjective ==
  ASSUME NEW S, NEW s \in Seq(S), s # <<>>, IsInjective(s)
  PROVE  /\ Head(s) \in Range(s)
         /\ Range(Tail(s)) = Range(s) \ {Head(s)}
         /\ IsInjective(Tail(s))
<1>1. /\ Tail(s) \in Seq(S) /\ Len(s) \in Nat /\ Len(s) > 0
      /\ Len(Tail(s)) = Len(s) - 1 /\ Head(s) = s[1]
      /\ \A i \in 1 .. Len(Tail(s)) : Tail(s)[i] = s[i + 1]
  BY HeadTailProperties
<1>2. \A i, j \in 1 .. Len(s) : s[i] = s[j] => i = j
  BY InjectiveByIndex
<1>3. /\ \A x : x \in Range(s) <=> \E i \in 1 .. Len(s) : x = s[i]
      /\ \A x : x \in Range(Tail(s)) <=> \E i \in 1 .. Len(Tail(s)) : x = Tail(s)[i]
  BY <1>1, ElementsOf
<1>4. 1 \in 1 .. Len(s)
  BY <1>1
<1>5. Head(s) \in Range(s)
  BY <1>1, <1>3, <1>4
<1>6. \A i, j \in 1 .. Len(Tail(s)) : Tail(s)[i] = Tail(s)[j] => i = j
  BY <1>1, <1>2
<1>7. IsInjective(Tail(s))
  BY <1>1, <1>6, InjectiveByIndex
<1>8. ASSUME NEW x \in Range(Tail(s)) PROVE x \in Range(s) \ {Head(s)}
  <2>1. PICK i \in 1 .. Len(Tail(s)) : x = Tail(s)[i]
    BY <1>3
  <2>2. i + 1 \in 1 .. Len(s) /\ x = s[i + 1] /\ i + 1 # 1
    BY <1>1, <2>1
  <2>3. x # s[1]
    BY <1>2, <1>4, <2>2
  <2> QED  BY <1>1, <1>3, <2>2, <2>3
<1>9. ASSUME NEW x \in Range(s) \ {Head(s)} PROVE x \in Range(Tail(s))
  <2>1. PICK i \in 1 .. Len(s) : x = s[i]
    BY <1>3
  <2>2. i # 1
    BY <1>1, <2>1
  <2>3. i - 1 \in 1 .. Len(Tail(s)) /\ Tail(s)[i - 1] = x
    BY <1>1, <2>1, <2>2
  <2> QED  BY <1>3, <2>3
<1> QED  BY <1>5, <1>7, <1>8, <1>9

(* What k_msgq_put makes of a queue.                                       *)
LEMMA AppendToInjective ==
  ASSUME NEW S, NEW s \in Seq(S), NEW x \in S
  PROVE  /\ Range(Append(s, x)) = Range(s) \cup {x}
         /\ IsInjective(s) /\ x \notin Range(s) => IsInjective(Append(s, x))
<1>1. /\ Append(s, x) \in Seq(S) /\ Len(s) \in Nat
      /\ Len(Append(s, x)) = Len(s) + 1
      /\ \A i \in 1 .. Len(s) : Append(s, x)[i] = s[i]
      /\ Append(s, x)[Len(s) + 1] = x
  OBVIOUS
<1>2. \A y : y \in Range(Append(s, x)) <=> \E i \in 1 .. Len(s) + 1 : y = Append(s, x)[i]
  <2>1. \A y : y \in Range(Append(s, x))
                <=> \E i \in 1 .. Len(Append(s, x)) : y = Append(s, x)[i]
    BY <1>1, ElementsOf
  <2> QED  BY <1>1, <2>1
<1>3. \A y : y \in Range(s) <=> \E i \in 1 .. Len(s) : y = s[i]
  BY ElementsOf
<1>4. Range(Append(s, x)) = Range(s) \cup {x}
  BY <1>1, <1>2, <1>3
<1>5. ASSUME IsInjective(s), x \notin Range(s) PROVE IsInjective(Append(s, x))
  <2>1. \A i, j \in 1 .. Len(s) : s[i] = s[j] => i = j
    BY <1>5, InjectiveByIndex
  <2>2. \A i \in 1 .. Len(s) : s[i] # x
    BY <1>3, <1>5
  <2>3. \A i, j \in 1 .. Len(s) + 1 : Append(s, x)[i] = Append(s, x)[j] => i = j
    BY <1>1, <2>1, <2>2
  <2> QED  BY <1>1, <2>3, InjectiveByIndex
<1> QED  BY <1>4, <1>5

(* A queue that holds nothing twice is no longer than there are things.    *)
LEMMA InjectiveLength ==
  ASSUME NEW S, IsFiniteSet(S), NEW s \in Seq(S), IsInjective(s)
  PROVE  Len(s) <= Cardinality(S)
<1>1. s \in Injection(1 .. Len(s), S)
  BY LenProperties, ElementOfSeq DEF Injection
<1>2. Len(s) \in Nat
  OBVIOUS
<1>3. Cardinality(1 .. Len(s)) = Len(s)
  <2>1. 1 \in Int /\ Len(s) \in Int
    BY <1>2
  <2>2. Cardinality(1 .. Len(s)) = IF 1 > Len(s) THEN 0 ELSE Len(s) - 1 + 1
    BY <2>1, FS_Interval, Zenon
  <2> QED  BY <1>2, <2>2
<1> QED  BY <1>1, <1>3, FS_Injection
(* The pool as init_buffer_pool leaves it holds every buffer once.         *)
LEMMA FullPoolsFacts ==
  ASSUME NEW p \in FullPools
  PROVE  p \in Seq(Buffers) /\ IsInjective(p) /\ Range(p) = Buffers
<1>1. IsFiniteSet(Buffers) /\ BufferCount = Cardinality(Buffers) /\ BufferCount \in Nat
  BY PoolAssumption DEF PoolParameters
<1>2. p \in [1 .. BufferCount -> Buffers] /\ IsInjective(p)
  BY DEF FullPools
<1>3. p \in Injection(1 .. BufferCount, Buffers)
  BY <1>2 DEF Injection
<1>4. Cardinality(1 .. BufferCount) = BufferCount
  <2>1. 1 \in Int /\ BufferCount \in Int
    BY <1>1
  <2>2. Cardinality(1 .. BufferCount) = IF 1 > BufferCount THEN 0 ELSE BufferCount - 1 + 1
    BY <2>1, FS_Interval, Zenon
  <2> QED  BY <1>1, <2>2
<1>5. p \in Surjection(1 .. BufferCount, Buffers)
  BY <1>1, <1>3, <1>4, FS_Injection
<1>6. \A b \in Buffers : \E i \in 1 .. BufferCount : p[i] = b
  BY <1>5 DEF Surjection
<1>7. Range(p) = Buffers
  BY <1>2, <1>6, Zenon DEF Range
<1>8. p \in Seq(Buffers)
  BY <1>1, <1>2
<1> QED  BY <1>2, <1>7, <1>8

-----------------------------------------------------------------------------
(* Ownership.                                                              *)

(* A buffer that a thread holds leaves room for it in the queue.           *)
LEMMA RoomForOwned ==
  ASSUME pool \in Seq(Buffers), IsInjective(pool),
         NEW b \in Buffers, b \notin Range(pool)
  PROVE  Len(pool) < PoolCap
<1>1. /\ IsFiniteSet(Buffers) /\ BufferCount = Cardinality(Buffers)
      /\ BufferCount \in Nat /\ PoolCap \in Nat /\ BufferCount <= PoolCap
  BY PoolAssumption DEF PoolParameters
<1>2. Append(pool, b) \in Seq(Buffers) /\ IsInjective(Append(pool, b))
  BY AppendToInjective
<1>3. Len(Append(pool, b)) <= BufferCount
  BY <1>1, <1>2, InjectiveLength
<1>4. Len(Append(pool, b)) = Len(pool) + 1 /\ Len(pool) \in Nat
  OBVIOUS
<1> QED  BY <1>1, <1>3, <1>4

(* OneOwner, but for the types, buffer by buffer.                          *)
Apart ==
  /\ IsInjective(pool)
  /\ \A b \in transit : b \notin Range(pool)
  /\ \A t \in Threads : pkt[t] # NULL => pkt[t] \notin Range(pool) /\ pkt[t] \notin transit
  /\ \A t, u \in Threads : pkt[t] # NULL /\ pkt[t] = pkt[u] => t = u
Placed ==
  \A b \in Buffers : b \in Range(pool) \/ b \in transit \/ \E t \in Threads : pkt[t] = b

LEMMA NullIsNoBuffer == NULL \notin Buffers /\ Zeroed \in Contents
BY PoolAssumption DEF PoolParameters

LEMMA OneOwnerParts == OneOwner <=> TypeOK /\ Apart /\ Placed
<1>1. ASSUME OneOwner PROVE TypeOK /\ Apart /\ Placed
  BY <1>1 DEF OneOwner, Apart, Placed, Holders
<1>2. ASSUME TypeOK, Apart, Placed PROVE OneOwner
  <2>1. Range(pool) \subseteq Buffers
    BY <1>2, RangeOfSeq DEF TypeOK, PoolTypeOK
  <2>2. {pkt[t] : t \in Holders} \subseteq Buffers
    BY <1>2 DEF TypeOK, PoolTypeOK, Holders
  <2>3. Range(pool) \cup transit \cup {pkt[t] : t \in Holders} = Buffers
    BY <1>2, <2>1, <2>2, NullIsNoBuffer DEF TypeOK, Placed, Holders
  <2> QED  BY <1>2, <2>3 DEF OneOwner, Apart, Holders
<1> QED  BY <1>1, <1>2

LEMMA OneOwnerPartsNext == OneOwner' <=> TypeOK' /\ Apart' /\ Placed'
BY OneOwnerParts, PTL

(* A step after which thread t has x and everyone else what they had.      *)
LEMMA PktExcept ==
  ASSUME PoolTypeOK, NEW t \in Threads, NEW x, pkt' = [pkt EXCEPT ![t] = x]
  PROVE  \A u \in Threads : pkt'[u] = IF u = t THEN x ELSE pkt[u]
BY DEF PoolTypeOK

LEMMA FetchOwner == ASSUME OneOwner, NEW t \in Threads, Fetch(t) PROVE OneOwner'
<1>1. TypeOK /\ Apart /\ Placed
  BY OneOwnerParts
<1>2. pkt[t] = NULL /\ UNCHANGED <<scrub, transit>>
  BY DEF Fetch, bp_fetch
<1>3. CASE pool # <<>>
  <2>1. /\ pkt' = [pkt EXCEPT ![t] = Head(pool)] /\ pool' = Tail(pool) /\ ohNoLed' = ohNoLed
        /\ \/ mem' = mem
           \/ \E c \in Contents : mem' = [mem EXCEPT ![Head(pool)] = c]
    BY <1>3 DEF Fetch, bp_fetch
  <2>2. /\ Head(pool) \in Buffers /\ pool' \in Seq(Buffers)
        /\ Head(pool) \in Range(pool) /\ Range(pool') = Range(pool) \ {Head(pool)}
        /\ IsInjective(pool')
    BY <1>1, <1>3, <2>1, HeadTailProperties, TailOfInjective DEF TypeOK, PoolTypeOK, Apart
  <2>3. \A u \in Threads : pkt'[u] = IF u = t THEN Head(pool) ELSE pkt[u]
    BY <1>1, <2>1, PktExcept DEF TypeOK
  <2>4. TypeOK'
    BY <1>1, <1>2, <2>1, <2>2 DEF TypeOK, PoolTypeOK
  <2>5. Apart'
    BY <1>1, <1>2, <2>2, <2>3 DEF Apart
  <2>6. Placed'
    BY <1>1, <1>2, <2>2, <2>3, NullIsNoBuffer DEF Placed
  <2> QED  BY <2>4, <2>5, <2>6, OneOwnerPartsNext
<1>4. CASE pool = <<>>
  <2>1. UNCHANGED <<pool, pkt, mem>> /\ ohNoLed' = TRUE
    BY <1>4 DEF Fetch, bp_fetch
  <2>2. TypeOK'
    BY <1>1, <1>2, <2>1 DEF TypeOK, PoolTypeOK
  <2>3. Apart' /\ Placed'
    BY <1>1, <1>2, <2>1 DEF Apart, Placed
  <2> QED  BY <2>2, <2>3, OneOwnerPartsNext
<1> QED  BY <1>3, <1>4

LEMMA WriteOwner == ASSUME OneOwner, NEW t \in Threads, Write(t) PROVE OneOwner'
<1>1. TypeOK /\ Apart /\ Placed
  BY OneOwnerParts
<1>2. TypeOK'
  BY <1>1 DEF Write, TypeOK, PoolTypeOK
<1>3. Apart' /\ Placed'
  BY <1>1 DEF Write, Apart, Placed
<1> QED  BY <1>2, <1>3, OneOwnerPartsNext

LEMMA SendOwner == ASSUME OneOwner, NEW t \in Threads, Send(t) PROVE OneOwner'
<1>1. TypeOK /\ Apart /\ Placed
  BY OneOwnerParts
<1>2. /\ pkt[t] # NULL /\ transit' = transit \cup {pkt[t]}
      /\ pkt' = [pkt EXCEPT ![t] = NULL] /\ UNCHANGED <<pool, mem, scrub, ohNoLed>>
  BY DEF Send
<1>3. pkt[t] \in Buffers
  BY <1>1, <1>2 DEF TypeOK, PoolTypeOK
<1>4. \A u \in Threads : pkt'[u] = IF u = t THEN NULL ELSE pkt[u]
  BY <1>1, <1>2, PktExcept DEF TypeOK
<1>5. TypeOK'
  BY <1>1, <1>2, <1>3 DEF TypeOK, PoolTypeOK
<1>6. Apart'
  BY <1>1, <1>2, <1>3, <1>4 DEF Apart
<1>7. Placed'
  BY <1>1, <1>2, <1>4 DEF Placed
<1> QED  BY <1>5, <1>6, <1>7, OneOwnerPartsNext

LEMMA ReceiveOwner == ASSUME OneOwner, NEW t \in Threads, Receive(t) PROVE OneOwner'
<1>1. TypeOK /\ Apart /\ Placed
  BY OneOwnerParts
<1>2. PICK b \in transit : pkt' = [pkt EXCEPT ![t] = b] /\ transit' = transit \ {b}
  BY DEF Receive
<1>3. pkt[t] = NULL /\ UNCHANGED <<pool, mem, scrub, ohNoLed>> /\ b \in Buffers
  BY <1>1 DEF Receive, TypeOK
<1>4. \A u \in Threads : pkt'[u] = IF u = t THEN b ELSE pkt[u]
  BY <1>1, <1>2, PktExcept DEF TypeOK
<1>5. TypeOK'
  BY <1>1, <1>2, <1>3 DEF TypeOK, PoolTypeOK
<1>6. Apart'
  BY <1>1, <1>2, <1>3, <1>4 DEF Apart
<1>7. Placed'
  BY <1>1, <1>2, <1>3, <1>4, NullIsNoBuffer DEF Placed
<1> QED  BY <1>5, <1>6, <1>7, OneOwnerPartsNext

(* The early return of bp_relinquish for a full queue is never taken.      *)
LEMMA RelinquishStep ==
  ASSUME OneOwner, NEW t \in Threads, pkt[t] # NULL, bp_relinquish(t)
  PROVE  /\ pkt[t] \in Buffers
         /\ pool' = Append(pool, pkt[t]) /\ pool' \in Seq(Buffers) /\ IsInjective(pool')
         /\ Range(pool') = Range(pool) \cup {pkt[t]}
         /\ scrub' = [scrub EXCEPT ![t] = pkt[t]]
         /\ pkt' = [pkt EXCEPT ![t] = NULL]
         /\ ohNoLed' = ohNoLed
<1>1. /\ pool \in Seq(Buffers) /\ IsInjective(pool) /\ pkt[t] \in Buffers
      /\ pkt[t] \notin Range(pool)
  BY OneOwnerParts DEF TypeOK, PoolTypeOK, Apart
<1>2. Len(pool) < PoolCap
  BY <1>1, RoomForOwned
<1>3. /\ pool' = Append(pool, pkt[t]) /\ scrub' = [scrub EXCEPT ![t] = pkt[t]]
      /\ pkt' = [pkt EXCEPT ![t] = NULL] /\ ohNoLed' = ohNoLed
  BY <1>2 DEF bp_relinquish
<1>4. pool' \in Seq(Buffers)
  BY <1>1, <1>3
<1> QED  BY <1>1, <1>3, <1>4, AppendToInjective

LEMMA RelinquishOwner == ASSUME OneOwner, NEW t \in Threads, Relinquish(t) PROVE OneOwner'
<1>1. TypeOK /\ Apart /\ Placed
  BY OneOwnerParts
<1>2. pkt[t] # NULL /\ bp_relinquish(t) /\ UNCHANGED <<mem, transit>>
  BY DEF Relinquish
<1>3. /\ pkt[t] \in Buffers /\ pool' \in Seq(Buffers) /\ IsInjective(pool')
      /\ Range(pool') = Range(pool) \cup {pkt[t]}
      /\ scrub' = [scrub EXCEPT ![t] = pkt[t]]
      /\ pkt' = [pkt EXCEPT ![t] = NULL] /\ ohNoLed' = ohNoLed
  BY <1>2, RelinquishStep
<1>4. \A u \in Threads : pkt'[u] = IF u = t THEN NULL ELSE pkt[u]
  BY <1>1, <1>3, PktExcept DEF TypeOK
<1>5. TypeOK'
  BY <1>1, <1>2, <1>3 DEF TypeOK, PoolTypeOK
<1>6. Apart'
  BY <1>1, <1>2, <1>3, <1>4 DEF Apart
<1>7. Placed'
  BY <1>1, <1>2, <1>3, <1>4 DEF Placed
<1> QED  BY <1>5, <1>6, <1>7, OneOwnerPartsNext

LEMMA MemsetOwner == ASSUME OneOwner, NEW t \in Threads, Memset(t) PROVE OneOwner'
<1>1. TypeOK /\ Apart /\ Placed
  BY OneOwnerParts
<1>2. TypeOK'
  BY <1>1, NullIsNoBuffer DEF Memset, bp_relinquish_memset, TypeOK, PoolTypeOK
<1>3. Apart' /\ Placed'
  BY <1>1 DEF Memset, bp_relinquish_memset, Apart, Placed
<1> QED  BY <1>2, <1>3, OneOwnerPartsNext

LEMMA RebootOwner == ASSUME Reboot PROVE OneOwner'
<1>1. pool' \in Seq(Buffers) /\ IsInjective(pool') /\ Range(pool') = Buffers
  BY FullPoolsFacts DEF Reboot, PoolReboot
<1>2. TypeOK'
  BY <1>1, NullIsNoBuffer DEF Reboot, PoolReboot, TypeOK, PoolTypeOK
<1>3. Apart' /\ Placed'
  BY <1>1 DEF Reboot, PoolReboot, Apart, Placed
<1> QED  BY <1>2, <1>3, OneOwnerPartsNext

LEMMA OneOwnerInit == Init => OneOwner
<1> SUFFICES ASSUME Init PROVE OneOwner
  OBVIOUS
<1>1. pool \in Seq(Buffers) /\ IsInjective(pool) /\ Range(pool) = Buffers
  BY FullPoolsFacts DEF Init, PoolInit
<1>2. TypeOK
  BY <1>1, NullIsNoBuffer DEF Init, PoolInit, TypeOK, PoolTypeOK
<1>3. Apart /\ Placed
  BY <1>1 DEF Init, PoolInit, Apart, Placed
<1> QED  BY <1>2, <1>3, OneOwnerParts

LEMMA OneOwnerNext == OneOwner /\ [Next]_clientVars => OneOwner'
<1> SUFFICES ASSUME OneOwner, [Next]_clientVars PROVE OneOwner'
  OBVIOUS
<1>1. CASE UNCHANGED clientVars
  <2>1. TypeOK' /\ Apart' /\ Placed'
    BY <1>1, OneOwnerParts
       DEF clientVars, poolVars, TypeOK, PoolTypeOK, Apart, Placed
  <2> QED  BY <2>1, OneOwnerPartsNext
<1> QED
  BY <1>1, FetchOwner, WriteOwner, SendOwner, ReceiveOwner, RelinquishOwner,
     MemsetOwner, RebootOwner DEF Next

(* Any number of threads may use the pool in any order, and be anywhere    *)
(* inside bp_relinquish: as long as each uses only what it fetched or was  *)
(* handed, no buffer is lost and none has two owners.                      *)
THEOREM BuffersHaveOneOwner == Spec => []OneOwner
<1> QED  BY OneOwnerInit, OneOwnerNext, PTL DEF Spec

-----------------------------------------------------------------------------
(* Scrubbing.                                                              *)

(* A step in which nobody leaves bp_relinquish, that adds no buffer to the *)
(* pool and writes to none that stays in it.                               *)
LEMMA StaysScrubbed ==
  ASSUME PooledIsScrubbed, Range(pool') \subseteq Range(pool), scrub' = scrub,
         \A b \in Range(pool') : mem'[b] = mem[b]
  PROVE  PooledIsScrubbed'
BY DEF PooledIsScrubbed

LEMMA FetchScrubbed ==
  ASSUME OneOwner, PooledIsScrubbed, NEW t \in Threads, Fetch(t)
  PROVE  PooledIsScrubbed'
<1>1. TypeOK /\ Apart
  BY OneOwnerParts
<1>2. CASE pool # <<>>
  <2>1. /\ pool' = Tail(pool) /\ scrub' = scrub
        /\ \/ mem' = mem
           \/ \E c \in Contents : mem' = [mem EXCEPT ![Head(pool)] = c]
    BY <1>2 DEF Fetch, bp_fetch
  <2>2. Range(pool') = Range(pool) \ {Head(pool)}
    BY <1>1, <1>2, <2>1, TailOfInjective DEF TypeOK, PoolTypeOK, Apart
  <2>3. Range(pool) \subseteq Buffers
    BY <1>1, RangeOfSeq DEF TypeOK, PoolTypeOK
  <2>4. \A b \in Range(pool') : mem'[b] = mem[b]
    BY <1>1, <2>1, <2>2, <2>3 DEF TypeOK, PoolTypeOK
  <2> QED  BY <2>1, <2>2, <2>4, StaysScrubbed
<1>3. CASE pool = <<>>
  BY <1>3, StaysScrubbed DEF Fetch, bp_fetch
<1> QED  BY <1>2, <1>3

(* The owner's buffer is not in the pool.                                  *)
LEMMA WriteScrubbed ==
  ASSUME OneOwner, PooledIsScrubbed, NEW t \in Threads, Write(t)
  PROVE  PooledIsScrubbed'
<1>1. TypeOK /\ Apart
  BY OneOwnerParts
<1>2. PICK c \in Contents : mem' = [mem EXCEPT ![pkt[t]] = c]
  BY DEF Write
<1>3. pkt[t] \notin Range(pool) /\ UNCHANGED <<pool, scrub>>
  BY <1>1 DEF Write, Apart
<1>4. Range(pool) \subseteq Buffers
  BY <1>1, RangeOfSeq DEF TypeOK, PoolTypeOK
<1>5. \A b \in Range(pool') : mem'[b] = mem[b]
  BY <1>1, <1>2, <1>3, <1>4 DEF TypeOK, PoolTypeOK
<1> QED  BY <1>3, <1>5, StaysScrubbed

LEMMA RelinquishScrubbed ==
  ASSUME OneOwner, PooledIsScrubbed, NEW t \in Threads, Relinquish(t)
  PROVE  PooledIsScrubbed'
<1>1. TypeOK
  BY OneOwnerParts
<1>2. /\ pkt[t] \in Buffers /\ Range(pool') = Range(pool) \cup {pkt[t]}
      /\ scrub' = [scrub EXCEPT ![t] = pkt[t]] /\ mem' = mem /\ scrub[t] = NULL
  BY RelinquishStep DEF Relinquish, Running
<1>3. Range(pool) \subseteq Buffers
  BY <1>1, RangeOfSeq DEF TypeOK, PoolTypeOK
<1>4. \A u \in Threads : scrub'[u] = IF u = t THEN pkt[t] ELSE scrub[u]
  BY <1>1, <1>2 DEF TypeOK, PoolTypeOK
<1>5. ASSUME NEW b \in Range(pool')
      PROVE  mem'[b] = Zeroed \/ \E u \in Threads : scrub'[u] = b
  <2>1. CASE b = pkt[t]
    BY <1>4, <2>1
  <2>2. CASE b \in Range(pool) /\ mem[b] = Zeroed
    BY <1>2, <2>2
  <2>3. CASE b \in Range(pool) /\ \E u \in Threads : scrub[u] = b
    BY <1>2, <1>3, <1>4, <2>3, NullIsNoBuffer
  <2> QED  BY <1>2, <1>5, <2>1, <2>2, <2>3 DEF PooledIsScrubbed
<1> QED  BY <1>5 DEF PooledIsScrubbed

(* Whoever leaves bp_relinquish has zeroed the buffer.                     *)
LEMMA MemsetScrubbed ==
  ASSUME OneOwner, PooledIsScrubbed, NEW t \in Threads, Memset(t)
  PROVE  PooledIsScrubbed'
<1>1. TypeOK
  BY OneOwnerParts
<1>2. /\ mem' = [mem EXCEPT ![scrub[t]] = Zeroed] /\ pool' = pool
      /\ scrub' = [scrub EXCEPT ![t] = NULL]
  BY DEF Memset, bp_relinquish_memset
<1>3. Range(pool) \subseteq Buffers
  BY <1>1, RangeOfSeq DEF TypeOK, PoolTypeOK
<1>4. \A b \in Buffers : mem'[b] = IF b = scrub[t] THEN Zeroed ELSE mem[b]
  BY <1>1, <1>2 DEF TypeOK, PoolTypeOK
<1>5. \A u \in Threads : u # t => scrub'[u] = scrub[u]
  BY <1>1, <1>2 DEF TypeOK, PoolTypeOK
<1> QED  BY <1>2, <1>3, <1>4, <1>5 DEF PooledIsScrubbed

LEMMA ScrubbedInit == Init => PooledIsScrubbed
<1> SUFFICES ASSUME Init PROVE PooledIsScrubbed
  OBVIOUS
<1>1. pool \in Seq(Buffers)
  BY FullPoolsFacts DEF Init, PoolInit
<1>2. Range(pool) \subseteq Buffers
  BY <1>1, RangeOfSeq
<1> QED  BY <1>2 DEF Init, PoolInit, PooledIsScrubbed

LEMMA RebootScrubbed == ASSUME Reboot PROVE PooledIsScrubbed'
<1>1. pool' \in Seq(Buffers)
  BY FullPoolsFacts DEF Reboot, PoolReboot
<1>2. Range(pool') \subseteq Buffers
  BY <1>1, RangeOfSeq
<1> QED  BY <1>2 DEF Reboot, PoolReboot, PooledIsScrubbed

LEMMA ScrubbedNext ==
  OneOwner /\ PooledIsScrubbed /\ [Next]_clientVars => PooledIsScrubbed'
<1> SUFFICES ASSUME OneOwner, PooledIsScrubbed, [Next]_clientVars
             PROVE  PooledIsScrubbed'
  OBVIOUS
<1>1. CASE UNCHANGED clientVars
  BY <1>1, StaysScrubbed DEF clientVars, poolVars
<1>2. ASSUME NEW t \in Threads, Send(t) \/ Receive(t) PROVE PooledIsScrubbed'
  BY <1>2, StaysScrubbed DEF Send, Receive
<1> QED
  BY <1>1, <1>2, FetchScrubbed, WriteScrubbed, RelinquishScrubbed, MemsetScrubbed,
     RebootScrubbed DEF Next

(* A buffer that bp_fetch can hand out is zeroed, unless a thread is still *)
(* between the k_msgq_put and the memset of the bp_relinquish of it.       *)
THEOREM FreeIsScrubbed == Spec => []PooledIsScrubbed
<1> QED  BY ScrubbedInit, ScrubbedNext, BuffersHaveOneOwner, PTL DEF Spec
===============================================================================
