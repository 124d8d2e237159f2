---------------------------- MODULE PipelineProofs ----------------------------
(***************************************************************************)
(* Theorems about Pipeline and PriorityPipeline, in three parts: what the  *)
(* threads do with the buffers; that they keep to the discipline of        *)
(* BufferPoolClient and to the order of PacketLink; and what is true under *)
(* the priorities of the threads only.                                     *)
(***************************************************************************)
EXTENDS PriorityPipeline, SequenceTheorems, TLAPS

LEMMA Parameters ==
  /\ BufferCount \in Nat \ {0}
  /\ PoolCap \in Nat
  /\ BufferCount <= PoolCap
  /\ NULL \notin Buffers
  /\ QCap \in Nat \ {0}
  /\ MaxLen \in Nat \ {0}
BY PipelineAssumption DEF PoolParameters

LEMMA SeqFacts ==
  ASSUME NEW S, NEW s \in Seq(S)
  PROVE  /\ Len(s) \in Nat
         /\ \A x \in S : Append(s, x) \in Seq(S) /\ Len(Append(s, x)) = Len(s) + 1
         /\ s # <<>> => /\ Head(s) \in S
                        /\ Tail(s) \in Seq(S)
                        /\ Len(s) > 0
                        /\ Len(Tail(s)) = Len(s) - 1
OBVIOUS

LEMMA FullPoolsType ==
  ASSUME NEW p \in FullPools
  PROVE  p \in Seq(Buffers) /\ Len(p) = BufferCount
BY Parameters DEF FullPools

LEMMA ContentsFacts ==
  /\ Zeroed \in Contents
  /\ \A c \in Chunks : <<c>> \in Contents
  /\ \A s \in Contents, c \in Chunks : Len(s) < MaxLen => Append(s, c) \in Contents
<1>1. \A s \in Contents : s \in Seq(Chunks) /\ Len(s) <= MaxLen
  BY Parameters DEF Contents
<1>2. \A s \in Seq(Chunks) : Len(s) <= MaxLen => s \in Contents
  BY Parameters DEF Contents
<1>3. Zeroed \in Contents
  <2>1. Zeroed \in Seq(Chunks) /\ Len(Zeroed) <= MaxLen
    BY Parameters DEF Zeroed
  <2> QED  BY <2>1, <1>2
<1>4. ASSUME NEW c \in Chunks PROVE <<c>> \in Contents
  <2>1. <<c>> \in Seq(Chunks) /\ Len(<<c>>) <= MaxLen
    BY Parameters
  <2> QED  BY <2>1, <1>2
<1>5. ASSUME NEW s \in Contents, NEW c \in Chunks, Len(s) < MaxLen
      PROVE  Append(s, c) \in Contents
  <2>1. s \in Seq(Chunks)
    BY <1>1
  <2>2. Append(s, c) \in Seq(Chunks) /\ Len(Append(s, c)) = Len(s) + 1 /\ Len(s) \in Nat
    BY <2>1, SeqFacts
  <2>3. Len(Append(s, c)) <= MaxLen
    BY <2>2, <1>5, Parameters
  <2> QED  BY <2>2, <2>3, <1>2
<1> QED  BY <1>3, <1>4, <1>5

LEMMA LocationsFacts ==
  /\ \A t \in Threads : "start" \in Locations[t]
  /\ \A l \in {"start", "retry", "frame", "put"} : l \in Locations["uart_rx"]
  /\ \A l \in {"start", "handle", "put"} : l \in Locations["apps"]
  /\ \A l \in {"start", "learn", "send"} : l \in Locations["udp_tx"]
  /\ \A l \in {"start", "validate", "write"} : l \in Locations["uart_tx"]
  /\ \A l \in {"start", "put"} : l \in Locations["udp_rx"]
BY DEF Locations, Threads

PktType == pkt \in [Threads -> Buffers \cup {NULL}]
PcType == pc \in [Threads -> AllLocations] /\ \A t \in Threads : pc[t] \in Locations[t]

LEMMA Moves ==
  ASSUME PktType, PcType, HoldsWhereItShould,
         NEW t \in Threads, NEW x \in Buffers \cup {NULL}, NEW l \in Locations[t],
         pkt' = [pkt EXCEPT ![t] = x], Go(t, l),
         (x = NULL) <=> (l \in WithoutPacket)
  PROVE  /\ PktType' /\ PcType' /\ HoldsWhereItShould'
         /\ \A u \in Threads \ {t} : Held(u)' = Held(u)
         /\ Held(t)' = IF x = NULL THEN 0 ELSE 1
<1>1. \A u \in Threads : pkt'[u] = IF u = t THEN x ELSE pkt[u]
  BY DEF PktType
<1>2. \A u \in Threads : pc'[u] = IF u = t THEN l ELSE pc[u]
  BY DEF PcType, Go
<1>3. PktType'
  BY DEF PktType
<1>4. PcType'
  <2>1. pc' \in [Threads -> AllLocations]
    BY DEF PcType, Go, AllLocations
  <2> QED  BY <2>1, <1>2 DEF PcType
<1>5. HoldsWhereItShould'
  BY <1>1, <1>2 DEF HoldsWhereItShould
<1>6. /\ \A u \in Threads \ {t} : Held(u)' = Held(u)
      /\ Held(t)' = IF x = NULL THEN 0 ELSE 1
  BY <1>1 DEF Held
<1> QED  BY <1>3, <1>4, <1>5, <1>6

LEMMA FetchFacts ==
  ASSUME pool \in Seq(Buffers), NEW t, bp_fetch(t)
  PROVE  /\ pool' \in Seq(Buffers)
         /\ scrub' = scrub
         /\ pool # <<>> => /\ Head(pool) \in Buffers
                           /\ Len(pool') = Len(pool) - 1
                           /\ pkt' = [pkt EXCEPT ![t] = Head(pool)]
                           /\ ohNoLed' = ohNoLed
         /\ pool = <<>> => pool' = pool /\ pkt' = pkt /\ ohNoLed' = TRUE
BY SeqFacts DEF bp_fetch

LEMMA RelinquishFacts ==
  ASSUME pool \in Seq(Buffers), NEW t, pkt[t] \in Buffers, Len(pool) < PoolCap,
         scrub \in [Threads -> Buffers \cup {NULL}],
         bp_relinquish(t)
  PROVE  /\ pool' \in Seq(Buffers)
         /\ Len(pool') = Len(pool) + 1
         /\ scrub' \in [Threads -> Buffers \cup {NULL}]
         /\ pkt' = [pkt EXCEPT ![t] = NULL]
         /\ ohNoLed' = ohNoLed
<1>1. pool' = Append(pool, pkt[t]) /\ scrub' = [scrub EXCEPT ![t] = pkt[t]]
  BY DEF bp_relinquish
<1>2. pkt' = [pkt EXCEPT ![t] = NULL] /\ ohNoLed' = ohNoLed
  BY DEF bp_relinquish
<1>3. pool' \in Seq(Buffers) /\ Len(pool') = Len(pool) + 1
  BY <1>1, SeqFacts
<1> QED  BY <1>1, <1>2, <1>3

Inv == TypeOK /\ HoldsWhereItShould /\ Accounted

QueueTypes == /\ pool \in Seq(Buffers)
              /\ UARTtoApps \in Seq(Buffers)
              /\ AppsToUDP \in Seq(Buffers)
              /\ UDPtoUART \in Seq(Buffers)
UseTypes == scrub \in [Threads -> Buffers \cup {NULL}] /\ ohNoLed \in BOOLEAN
DataTypes == /\ mem \in [Buffers -> Contents]
             /\ node_table \subseteq Nodes \ {0, Broadcast}
             /\ forward_for_nodes \subseteq Nodes \ {0, Broadcast}
             /\ udp_sock \in BOOLEAN

LEMMA TypeParts ==
  TypeOK <=> QueueTypes /\ UseTypes /\ DataTypes /\ PktType /\ PcType
BY DEF TypeOK, PoolTypeOK, QueueTypes, UseTypes, DataTypes, PktType, PcType

LEMMA HeldType == \A t \in Threads : Held(t) \in 0 .. 1
BY DEF Held

LEMMA Lengths ==
  QueueTypes => /\ Len(pool) \in Nat /\ Len(UARTtoApps) \in Nat
                /\ Len(AppsToUDP) \in Nat /\ Len(UDPtoUART) \in Nat
BY SeqFacts DEF QueueTypes

LEMMA InvNeverOverflows == Inv => NeverOverflows
<1> SUFFICES ASSUME Inv, NEW t \in Threads, pkt[t] # NULL
             PROVE  Len(pool) < PoolCap
  BY DEF NeverOverflows
<1>1. /\ Len(pool) \in Nat /\ Len(UARTtoApps) \in Nat
      /\ Len(AppsToUDP) \in Nat /\ Len(UDPtoUART) \in Nat
  BY TypeParts, Lengths DEF Inv
<1>2. Held(t) = 1
  BY DEF Held
<1>3. Len(pool) < BufferCount
  BY <1>1, <1>2, HeldType, Parameters DEF Inv, Accounted, Threads
<1> QED  BY <1>1, <1>3, Parameters

-----------------------------------------------------------------------------
(* What every step of a thread has in common: it changes where the thread  *)
(* is and which packet it has, and the number of buffers that are queued   *)
(* somewhere changes to match.                                             *)
Queued == Len(pool) + Len(UARTtoApps) + Len(AppsToUDP) + Len(UDPtoUART)

LEMMA MoveInv ==
  ASSUME Inv, QueueTypes', UseTypes', DataTypes',
         NEW t \in Threads, NEW x \in Buffers \cup {NULL}, NEW l \in Locations[t],
         pkt' = [pkt EXCEPT ![t] = x], Go(t, l),
         (x = NULL) <=> (l \in WithoutPacket),
         Queued' + (IF x = NULL THEN 0 ELSE 1) = Queued + Held(t)
  PROVE  Inv'
<1>1. PktType /\ PcType /\ HoldsWhereItShould
  BY TypeParts DEF Inv
<1>2. /\ PktType' /\ PcType' /\ HoldsWhereItShould'
      /\ \A u \in Threads \ {t} : Held(u)' = Held(u)
      /\ Held(t)' = IF x = NULL THEN 0 ELSE 1
  BY <1>1, Moves
<1>3. TypeOK'
  BY <1>2 DEF TypeOK, PoolTypeOK, QueueTypes, UseTypes, DataTypes, PktType, PcType
<1>4. Accounted'
  <2>1. Queued \in Nat /\ Queued' \in Nat
    BY Lengths, TypeParts DEF Inv, Queued
  <2>2. Queued' + Held(t)' = Queued + Held(t)
    BY <1>2
  <2>3. \A u \in Threads : Held(u) \in 0 .. 1 /\ Held(u)' \in 0 .. 1
    BY DEF Held
  <2>4. Queued + Held("uart_rx") + Held("uart_tx") + Held("udp_rx") + Held("udp_tx")
          + Held("apps") = BufferCount
    BY DEF Inv, Accounted, Queued
  <2>5. Queued' + Held("uart_rx")' + Held("uart_tx")' + Held("udp_rx")'
          + Held("udp_tx")' + Held("apps")' = BufferCount
    BY <1>2, <2>1, <2>2, <2>3, <2>4 DEF Threads
  <2> QED  BY <2>5 DEF Accounted, Queued
<1> QED  BY <1>2, <1>3, <1>4 DEF Inv

(* A thread gets a buffer from the pool ...                                *)
LEMMA FetchInv ==
  ASSUME Inv, NEW t \in Threads, NEW l \in Locations[t] \ WithoutPacket,
         pkt[t] = NULL, pool # <<>>, bp_fetch(t), Go(t, l),
         UNCHANGED queues, DataTypes'
  PROVE  Inv'
<1>1. QueueTypes /\ UseTypes
  BY TypeParts DEF Inv
<1>2. /\ pool' \in Seq(Buffers) /\ scrub' = scrub /\ Head(pool) \in Buffers
      /\ Len(pool') = Len(pool) - 1 /\ pkt' = [pkt EXCEPT ![t] = Head(pool)]
      /\ ohNoLed' = ohNoLed
  BY <1>1, FetchFacts DEF QueueTypes
<1>3. QueueTypes' /\ UseTypes'
  BY <1>1, <1>2 DEF QueueTypes, UseTypes, queues
<1>4. Queued' + 1 = Queued + Held(t)
  BY <1>1, <1>2, Lengths DEF Queued, Held, queues
<1>5. Head(pool) # NULL
  BY <1>2, Parameters
<1> QED  BY <1>2, <1>3, <1>4, <1>5, MoveInv

(* ... or gives its buffer back to it.                                     *)
LEMMA RelinquishInv ==
  ASSUME Inv, NEW t \in Threads, pkt[t] # NULL, bp_relinquish(t), Go(t, "start"),
         UNCHANGED queues, DataTypes'
  PROVE  Inv'
<1>1. QueueTypes /\ UseTypes /\ pkt[t] \in Buffers
  BY TypeParts DEF Inv, PktType
<1>2. Len(pool) < PoolCap
  BY InvNeverOverflows DEF NeverOverflows
<1>3. /\ pool' \in Seq(Buffers) /\ Len(pool') = Len(pool) + 1
      /\ scrub' \in [Threads -> Buffers \cup {NULL}]
      /\ pkt' = [pkt EXCEPT ![t] = NULL] /\ ohNoLed' = ohNoLed
  BY <1>1, <1>2, RelinquishFacts DEF QueueTypes, UseTypes
<1>4. QueueTypes' /\ UseTypes'
  BY <1>1, <1>3 DEF QueueTypes, UseTypes, queues
<1>5. Queued' + 0 = Queued + Held(t)
  BY <1>1, <1>3, Lengths DEF Queued, Held, queues
<1>6. "start" \in Locations[t] /\ "start" \in WithoutPacket
  BY LocationsFacts DEF WithoutPacket
<1> QED  BY <1>3, <1>4, <1>5, <1>6, MoveInv

(* A thread that has a packet goes on to its next step with it.            *)
LEMMA WalkInv ==
  ASSUME Inv, NEW t \in Threads, NEW l \in Locations[t] \ WithoutPacket,
         pkt[t] # NULL, Go(t, l),
         UNCHANGED <<pool, pkt, scrub, ohNoLed, queues>>, DataTypes'
  PROVE  Inv'
<1>1. QueueTypes /\ UseTypes /\ pkt[t] \in Buffers /\ pkt = [pkt EXCEPT ![t] = pkt[t]]
  BY TypeParts DEF Inv, PktType
<1>2. QueueTypes' /\ UseTypes'
  BY <1>1 DEF QueueTypes, UseTypes, queues
<1>3. Queued' + 1 = Queued + Held(t)
  BY <1>1, Lengths DEF Queued, Held, queues
<1>4. pkt' = [pkt EXCEPT ![t] = pkt[t]]
  BY <1>1
<1> QED  BY <1>1, <1>2, <1>3, <1>4, MoveInv

(* A step that moves no buffer and no thread.                              *)
LEMMA StayInv ==
  ASSUME Inv, UNCHANGED <<pool, pkt, queues, pc>>, UseTypes', DataTypes'
  PROVE  Inv'
<1>1. QueueTypes' /\ PktType' /\ PcType'
  BY TypeParts DEF Inv, QueueTypes, PktType, PcType, queues
<1>2. TypeOK'
  BY <1>1 DEF TypeOK, PoolTypeOK, QueueTypes, UseTypes, DataTypes, PktType, PcType
<1>3. HoldsWhereItShould' /\ Accounted'
  BY DEF Inv, HoldsWhereItShould, Accounted, Held, queues
<1> QED  BY <1>2, <1>3 DEF Inv

-----------------------------------------------------------------------------
LEMMA TouchedType ==
  ASSUME NEW T, T \subseteq Nodes \ {0, Broadcast}, NEW n \in Nodes
  PROVE  Touched(T, n) \subseteq Nodes \ {0, Broadcast}
BY DEF Touched

(* The header of a packet names nodes.                                     *)
LEMMA SenderType ==
  ASSUME NEW c \in Contents, c # <<>> PROVE Head(c).src \in Nodes
<1>1. c \in Seq(Chunks)
  BY Parameters DEF Contents
<1>2. Head(c) \in Chunks
  BY <1>1, SeqFacts
<1> QED  BY <1>2, PipelineAssumption

(* The packet that a thread is working on.                                 *)
LEMMA PktContents ==
  ASSUME Inv, NEW t \in Threads, pkt[t] # NULL
  PROVE  pkt[t] \in Buffers /\ mem[pkt[t]] \in Contents
BY TypeParts DEF Inv, PktType, DataTypes

LEMMA DataUnchanged ==
  ASSUME Inv, UNCHANGED <<mem, tables, udp_sock>> PROVE DataTypes'
BY TypeParts DEF Inv, DataTypes, tables

LEMMA FeedFetchInv == ASSUME Inv, FeedFetch PROVE Inv'
<1>1. /\ bp_fetch("uart_rx") /\ pkt["uart_rx"] = NULL /\ "uart_rx" \in Threads
      /\ "retry" \in WithoutPacket
  BY DEF FeedFetch, Inv, HoldsWhereItShould, At, WithoutPacket, Threads
<1>2. DataTypes' /\ UNCHANGED queues
  BY DataUnchanged DEF FeedFetch
<1>3. CASE pool # <<>>
  <2>1. Go("uart_rx", "frame") /\ "frame" \in Locations["uart_rx"] \ WithoutPacket
    BY <1>3, LocationsFacts DEF FeedFetch, WithoutPacket
  <2> QED  BY <1>1, <1>2, <1>3, <2>1, FetchInv
<1>4. CASE pool = <<>>
  <2>1. QueueTypes /\ UseTypes /\ PktType
    BY TypeParts DEF Inv
  <2>2. Go("uart_rx", "retry") /\ "retry" \in Locations["uart_rx"]
    BY <1>4, LocationsFacts DEF FeedFetch
  <2>3. UNCHANGED <<pool, pkt, scrub>> /\ ohNoLed' = TRUE
    BY <1>1, <1>4 DEF bp_fetch
  <2>4. pkt' = [pkt EXCEPT !["uart_rx"] = NULL]
    BY <1>1, <2>1, <2>3 DEF PktType
  <2>5. QueueTypes' /\ UseTypes'
    BY <1>2, <2>1, <2>3 DEF QueueTypes, UseTypes, queues
  <2>6. Queued' + 0 = Queued + Held("uart_rx")
    BY <1>1, <1>2, <2>1, <2>3, Lengths DEF Queued, Held, queues
  <2> QED  BY <1>1, <1>2, <2>2, <2>4, <2>5, <2>6, MoveInv
<1> QED  BY <1>3, <1>4

LEMMA FeedAppendInv == ASSUME Inv, FeedAppend PROVE Inv'
<1>1. pkt["uart_rx"] # NULL /\ "uart_rx" \in Threads
  BY DEF FeedAppend, Inv, HoldsWhereItShould, At, WithoutPacket, Threads
<1>2. PICK c \in UartChunks :
        mem' = [mem EXCEPT ![pkt["uart_rx"]] = Append(mem[pkt["uart_rx"]], c)]
  BY DEF FeedAppend
<1>3. Append(mem[pkt["uart_rx"]], c) \in Contents
  BY <1>1, PktContents, ContentsFacts DEF FeedAppend, Chunks
<1>4. DataTypes'
  BY <1>2, <1>3, TypeParts DEF FeedAppend, Inv, DataTypes, tables
<1>5. UseTypes'
  BY TypeParts DEF FeedAppend, Inv, UseTypes
<1> QED  BY <1>4, <1>5, StayInv DEF FeedAppend

LEMMA FeedAbortInv == ASSUME Inv, FeedAbort PROVE Inv'
<1>1. pkt["uart_rx"] # NULL /\ "uart_rx" \in Threads
  BY DEF FeedAbort, Inv, HoldsWhereItShould, At, WithoutPacket, Threads
<1> QED  BY <1>1, DataUnchanged, RelinquishInv DEF FeedAbort

LEMMA FeedCompleteInv == ASSUME Inv, FeedComplete PROVE Inv'
<1>1. pkt["uart_rx"] # NULL /\ "uart_rx" \in Threads
  BY DEF FeedComplete, Inv, HoldsWhereItShould, At, WithoutPacket, Threads
<1>2. DataTypes' /\ UNCHANGED queues
  BY DataUnchanged DEF FeedComplete
<1>3. CASE Go("uart_rx", "put") /\ UNCHANGED <<pool, pkt, scrub, ohNoLed>>
  <2>1. "put" \in Locations["uart_rx"] \ WithoutPacket
    BY LocationsFacts DEF WithoutPacket
  <2> QED  BY <1>1, <1>2, <1>3, <2>1, WalkInv
<1>4. CASE bp_relinquish("uart_rx") /\ Go("uart_rx", "start")
  BY <1>1, <1>2, <1>4, RelinquishInv
<1> QED  BY <1>3, <1>4 DEF FeedComplete

LEMMA FeedPutInv == ASSUME Inv, FeedPut PROVE Inv'
<1>1. pkt["uart_rx"] # NULL /\ "uart_rx" \in Threads
  BY DEF FeedPut, Inv, HoldsWhereItShould, At, WithoutPacket, Threads
<1>2. QueueTypes /\ UseTypes /\ pkt["uart_rx"] \in Buffers
  BY <1>1, TypeParts, PktContents DEF Inv
<1>3. /\ UARTtoApps' = Append(UARTtoApps, pkt["uart_rx"])
      /\ UNCHANGED <<pool, AppsToUDP, UDPtoUART>>
      /\ pkt' = [pkt EXCEPT !["uart_rx"] = NULL] /\ Go("uart_rx", "start")
  BY DEF FeedPut, Put
<1>4. UARTtoApps' \in Seq(Buffers) /\ Len(UARTtoApps') = Len(UARTtoApps) + 1
  BY <1>2, <1>3, SeqFacts DEF QueueTypes
<1>5. QueueTypes' /\ UseTypes' /\ DataTypes'
  BY <1>2, <1>3, <1>4, DataUnchanged DEF FeedPut, QueueTypes, UseTypes
<1>6. Queued' + 0 = Queued + Held("uart_rx")
  BY <1>1, <1>2, <1>3, <1>4, Lengths DEF Queued, Held
<1>7. "start" \in Locations["uart_rx"] /\ "start" \in WithoutPacket
  BY LocationsFacts DEF WithoutPacket
<1> QED  BY <1>1, <1>3, <1>5, <1>6, <1>7, MoveInv

LEMMA AppsGetInv == ASSUME Inv, AppsGet PROVE Inv'
<1>1. pkt["apps"] = NULL /\ "apps" \in Threads
  BY DEF AppsGet, Inv, HoldsWhereItShould, At, WithoutPacket, Threads
<1>2. QueueTypes /\ UseTypes
  BY TypeParts DEF Inv
<1>3. /\ UARTtoApps # <<>> /\ UARTtoApps' = Tail(UARTtoApps)
      /\ UNCHANGED <<pool, AppsToUDP, UDPtoUART>>
      /\ pkt' = [pkt EXCEPT !["apps"] = Head(UARTtoApps)] /\ Go("apps", "handle")
  BY DEF AppsGet, Get
<1>4. /\ Head(UARTtoApps) \in Buffers /\ UARTtoApps' \in Seq(Buffers)
      /\ Len(UARTtoApps') = Len(UARTtoApps) - 1
  BY <1>2, <1>3, SeqFacts DEF QueueTypes
<1>5. QueueTypes' /\ UseTypes' /\ DataTypes'
  BY <1>2, <1>3, <1>4, DataUnchanged DEF AppsGet, QueueTypes, UseTypes
<1>6. Queued' + 1 = Queued + Held("apps")
  BY <1>1, <1>2, <1>3, <1>4, Lengths DEF Queued, Held
<1>7. "handle" \in Locations["apps"] \ WithoutPacket /\ Head(UARTtoApps) # NULL
  BY <1>4, LocationsFacts, Parameters DEF WithoutPacket
<1> QED  BY <1>1, <1>3, <1>4, <1>5, <1>6, <1>7, MoveInv

LEMMA RebootInv == ASSUME Inv, Reboot PROVE Inv'
<1>1. pool' \in Seq(Buffers) /\ Len(pool') = BufferCount
  BY FullPoolsType DEF Reboot, PoolReboot
<1>2. /\ UARTtoApps' \in Seq(Buffers) /\ Len(UARTtoApps') = 0
      /\ AppsToUDP' \in Seq(Buffers) /\ Len(AppsToUDP') = 0
      /\ UDPtoUART' \in Seq(Buffers) /\ Len(UDPtoUART') = 0
  BY DEF Reboot
<1>3. QueueTypes' /\ UseTypes' /\ DataTypes'
  BY <1>1, <1>2, ContentsFacts DEF Reboot, PoolReboot, QueueTypes, UseTypes, DataTypes
<1>4. PktType' /\ PcType'
  BY LocationsFacts DEF Reboot, PoolReboot, PktType, PcType, AllLocations
<1>5. HoldsWhereItShould'
  BY DEF Reboot, PoolReboot, HoldsWhereItShould, WithoutPacket
<1>6. \A t \in Threads : Held(t)' = 0
  BY DEF Reboot, PoolReboot, Held
<1>7. Accounted'
  BY <1>1, <1>2, <1>6, Parameters DEF Accounted, Threads
<1>8. TypeOK'
  BY <1>3, <1>4 DEF TypeOK, PoolTypeOK, QueueTypes, UseTypes, DataTypes, PktType, PcType
<1> QED  BY <1>5, <1>7, <1>8 DEF Inv

LEMMA AppsHandleInv == ASSUME Inv, AppsHandle PROVE Inv'
<1>1. pkt["apps"] # NULL /\ "apps" \in Threads
  BY DEF AppsHandle, Inv, HoldsWhereItShould, At, WithoutPacket, Threads
<1>2. CASE Reboot
  BY <1>2, RebootInv
<1>3. CASE Go("apps", "put") /\ UNCHANGED <<pool, mem, pkt, scrub, ohNoLed, queues, tables, udp_sock>>
  <2>1. "put" \in Locations["apps"] \ WithoutPacket
    BY LocationsFacts DEF WithoutPacket
  <2> QED  BY <1>1, <1>3, <2>1, DataUnchanged, WalkInv
<1> QED  BY <1>2, <1>3 DEF AppsHandle

LEMMA AppsPutInv == ASSUME Inv, AppsPut PROVE Inv'
<1>1. pkt["apps"] # NULL /\ "apps" \in Threads
  BY DEF AppsPut, Inv, HoldsWhereItShould, At, WithoutPacket, Threads
<1>2. QueueTypes /\ UseTypes /\ pkt["apps"] \in Buffers
  BY <1>1, TypeParts, PktContents DEF Inv
<1>3. /\ AppsToUDP' = Append(AppsToUDP, pkt["apps"])
      /\ UNCHANGED <<pool, UARTtoApps, UDPtoUART>>
      /\ pkt' = [pkt EXCEPT !["apps"] = NULL] /\ Go("apps", "start")
  BY DEF AppsPut, Put
<1>4. AppsToUDP' \in Seq(Buffers) /\ Len(AppsToUDP') = Len(AppsToUDP) + 1
  BY <1>2, <1>3, SeqFacts DEF QueueTypes
<1>5. QueueTypes' /\ UseTypes' /\ DataTypes'
  BY <1>2, <1>3, <1>4, DataUnchanged DEF AppsPut, QueueTypes, UseTypes
<1>6. Queued' + 0 = Queued + Held("apps")
  BY <1>1, <1>2, <1>3, <1>4, Lengths DEF Queued, Held
<1>7. "start" \in Locations["apps"] /\ "start" \in WithoutPacket
  BY LocationsFacts DEF WithoutPacket
<1> QED  BY <1>1, <1>3, <1>5, <1>6, <1>7, MoveInv

LEMMA UdpTxGetInv == ASSUME Inv, UdpTxGet PROVE Inv'
<1>1. pkt["udp_tx"] = NULL /\ "udp_tx" \in Threads
  BY DEF UdpTxGet, Inv, HoldsWhereItShould, At, WithoutPacket, Threads
<1>2. QueueTypes /\ UseTypes
  BY TypeParts DEF Inv
<1>3. /\ AppsToUDP # <<>> /\ AppsToUDP' = Tail(AppsToUDP)
      /\ UNCHANGED <<pool, UARTtoApps, UDPtoUART>>
      /\ pkt' = [pkt EXCEPT !["udp_tx"] = Head(AppsToUDP)] /\ Go("udp_tx", "learn")
  BY DEF UdpTxGet, Get
<1>4. /\ Head(AppsToUDP) \in Buffers /\ AppsToUDP' \in Seq(Buffers)
      /\ Len(AppsToUDP') = Len(AppsToUDP) - 1
  BY <1>2, <1>3, SeqFacts DEF QueueTypes
<1>5. QueueTypes' /\ UseTypes' /\ DataTypes'
  BY <1>2, <1>3, <1>4, DataUnchanged DEF UdpTxGet, QueueTypes, UseTypes
<1>6. Queued' + 1 = Queued + Held("udp_tx")
  BY <1>1, <1>2, <1>3, <1>4, Lengths DEF Queued, Held
<1>7. "learn" \in Locations["udp_tx"] \ WithoutPacket /\ Head(AppsToUDP) # NULL
  BY <1>4, LocationsFacts, Parameters DEF WithoutPacket
<1> QED  BY <1>1, <1>3, <1>4, <1>5, <1>6, <1>7, MoveInv

LEMMA UdpTxLearnInv == ASSUME Inv, UdpTxLearn PROVE Inv'
<1>1. pkt["udp_tx"] # NULL /\ "udp_tx" \in Threads
  BY DEF UdpTxLearn, Inv, HoldsWhereItShould, At, WithoutPacket, Threads
<1> DEFINE c == mem[pkt["udp_tx"]]
<1>2. c \in Contents /\ DataTypes /\ UNCHANGED <<mem, queues, node_table, udp_sock>>
  BY <1>1, PktContents, TypeParts DEF UdpTxLearn, Inv
<1>3. forward_for_nodes' \subseteq Nodes \ {0, Broadcast}
  <2>1. CASE HasSender(c)
    <3>1. c # <<>>
      BY <2>1 DEF HasSender
    <3>2. forward_for_nodes' = Touched(forward_for_nodes, Head(c).src)
      BY <2>1 DEF UdpTxLearn
    <3> QED  BY <1>2, <3>1, <3>2, SenderType, TouchedType DEF DataTypes
  <2>2. CASE ~HasSender(c)
    BY <1>2, <2>2 DEF UdpTxLearn, DataTypes
  <2> QED  BY <2>1, <2>2
<1>4. DataTypes'
  BY <1>2, <1>3 DEF DataTypes
<1>5. CASE bp_relinquish("udp_tx") /\ Go("udp_tx", "start")
  BY <1>1, <1>2, <1>4, <1>5, RelinquishInv
<1>6. CASE Go("udp_tx", "send") /\ UNCHANGED <<pool, pkt, scrub, ohNoLed>>
  <2>1. "send" \in Locations["udp_tx"] \ WithoutPacket
    BY LocationsFacts DEF WithoutPacket
  <2> QED  BY <1>1, <1>2, <1>4, <1>6, <2>1, WalkInv
<1> QED  BY <1>5, <1>6 DEF UdpTxLearn

LEMMA UdpTxSendInv == ASSUME Inv, UdpTxSend PROVE Inv'
<1>1. pkt["udp_tx"] # NULL /\ "udp_tx" \in Threads
  BY DEF UdpTxSend, Inv, HoldsWhereItShould, At, WithoutPacket, Threads
<1> QED  BY <1>1, DataUnchanged, RelinquishInv DEF UdpTxSend

LEMMA UartTxGetInv == ASSUME Inv, UartTxGet PROVE Inv'
<1>1. pkt["uart_tx"] = NULL /\ "uart_tx" \in Threads
  BY DEF UartTxGet, Inv, HoldsWhereItShould, At, WithoutPacket, Threads
<1>2. QueueTypes /\ UseTypes
  BY TypeParts DEF Inv
<1>3. /\ UDPtoUART # <<>> /\ UDPtoUART' = Tail(UDPtoUART)
      /\ UNCHANGED <<pool, UARTtoApps, AppsToUDP>>
      /\ pkt' = [pkt EXCEPT !["uart_tx"] = Head(UDPtoUART)] /\ Go("uart_tx", "validate")
  BY DEF UartTxGet, Get
<1>4. /\ Head(UDPtoUART) \in Buffers /\ UDPtoUART' \in Seq(Buffers)
      /\ Len(UDPtoUART') = Len(UDPtoUART) - 1
  BY <1>2, <1>3, SeqFacts DEF QueueTypes
<1>5. QueueTypes' /\ UseTypes' /\ DataTypes'
  BY <1>2, <1>3, <1>4, DataUnchanged DEF UartTxGet, QueueTypes, UseTypes
<1>6. Queued' + 1 = Queued + Held("uart_tx")
  BY <1>1, <1>2, <1>3, <1>4, Lengths DEF Queued, Held
<1>7. "validate" \in Locations["uart_tx"] \ WithoutPacket /\ Head(UDPtoUART) # NULL
  BY <1>4, LocationsFacts, Parameters DEF WithoutPacket
<1> QED  BY <1>1, <1>3, <1>4, <1>5, <1>6, <1>7, MoveInv

LEMMA UartTxValidateInv == ASSUME Inv, UartTxValidate PROVE Inv'
<1>1. pkt["uart_tx"] # NULL /\ "uart_tx" \in Threads
  BY DEF UartTxValidate, Inv, HoldsWhereItShould, At, WithoutPacket, Threads
<1> DEFINE c == mem[pkt["uart_tx"]]
<1>2. c \in Contents /\ DataTypes /\ UNCHANGED <<mem, queues, forward_for_nodes, udp_sock>>
  BY <1>1, PktContents, TypeParts DEF UartTxValidate, Inv
<1>3. CASE TxValid(c)
  <2>1. c # <<>>
    BY <1>3 DEF TxValid
  <2>2. /\ node_table' = Touched(node_table, Head(c).src) /\ Go("uart_tx", "write")
        /\ UNCHANGED <<pool, pkt, scrub, ohNoLed>>
    BY <1>3 DEF UartTxValidate
  <2>3. DataTypes'
    BY <1>2, <2>1, <2>2, SenderType, TouchedType DEF DataTypes
  <2>4. "write" \in Locations["uart_tx"] \ WithoutPacket
    BY LocationsFacts DEF WithoutPacket
  <2> QED  BY <1>1, <1>2, <2>2, <2>3, <2>4, WalkInv
<1>4. CASE ~TxValid(c)
  <2>1. bp_relinquish("uart_tx") /\ Go("uart_tx", "start") /\ UNCHANGED node_table
    BY <1>4 DEF UartTxValidate
  <2>2. DataTypes'
    BY <1>2, <2>1 DEF DataTypes
  <2> QED  BY <1>1, <1>2, <2>1, <2>2, RelinquishInv
<1> QED  BY <1>3, <1>4

LEMMA UartTxWriteInv == ASSUME Inv, UartTxWrite PROVE Inv'
<1>1. pkt["uart_tx"] # NULL /\ "uart_tx" \in Threads
  BY DEF UartTxWrite, Inv, HoldsWhereItShould, At, WithoutPacket, Threads
<1> QED  BY <1>1, DataUnchanged, RelinquishInv DEF UartTxWrite

LEMMA SocketInv == ASSUME Inv, UdpRxOpen \/ UdpRxError PROVE Inv'
<1>1. UseTypes' /\ DataTypes'
  BY TypeParts DEF Inv, UseTypes, DataTypes, UdpRxOpen, UdpRxError, tables
<1> QED  BY <1>1, StayInv DEF UdpRxOpen, UdpRxError

LEMMA UdpRxRecvInv == ASSUME Inv, UdpRxRecv PROVE Inv'
<1>1. pkt["udp_rx"] = NULL /\ "udp_rx" \in Threads
  BY DEF UdpRxRecv, Inv, HoldsWhereItShould, At, WithoutPacket, Threads
<1>2. QueueTypes /\ UseTypes /\ DataTypes
  BY TypeParts DEF Inv
<1>3. PICK c \in UdpChunks :
        /\ bp_fetch("udp_rx")
        /\ IF pool # <<>>
           THEN mem' = [mem EXCEPT ![Head(pool)] = <<c>>] /\ Go("udp_rx", "put")
           ELSE UNCHANGED <<mem, pc>>
  BY DEF UdpRxRecv
<1>4. UNCHANGED <<queues, tables, udp_sock>>
  BY DEF UdpRxRecv
<1>5. CASE pool # <<>>
  <2>1. <<c>> \in Contents
    BY ContentsFacts DEF Chunks
  <2>2. DataTypes'
    BY <1>2, <1>3, <1>4, <1>5, <2>1 DEF DataTypes, tables
  <2>3. "put" \in Locations["udp_rx"] \ WithoutPacket
    BY LocationsFacts DEF WithoutPacket
  <2> QED  BY <1>1, <1>3, <1>4, <1>5, <2>2, <2>3, FetchInv
<1>6. CASE pool = <<>>
  <2>1. UNCHANGED <<pool, pkt, scrub, mem, pc>> /\ ohNoLed' = TRUE
    BY <1>3, <1>6 DEF bp_fetch
  <2>2. UseTypes' /\ DataTypes'
    BY <1>2, <1>4, <2>1 DEF UseTypes, DataTypes, tables
  <2> QED  BY <1>4, <2>1, <2>2, StayInv
<1> QED  BY <1>5, <1>6

LEMMA UdpRxPutInv == ASSUME Inv, UdpRxPut PROVE Inv'
<1>1. pkt["udp_rx"] # NULL /\ "udp_rx" \in Threads
  BY DEF UdpRxPut, Inv, HoldsWhereItShould, At, WithoutPacket, Threads
<1>2. QueueTypes /\ UseTypes /\ pkt["udp_rx"] \in Buffers
  BY <1>1, TypeParts, PktContents DEF Inv
<1>3. /\ UDPtoUART' = Append(UDPtoUART, pkt["udp_rx"])
      /\ UNCHANGED <<pool, UARTtoApps, AppsToUDP>>
      /\ pkt' = [pkt EXCEPT !["udp_rx"] = NULL] /\ Go("udp_rx", "start")
  BY DEF UdpRxPut, Put
<1>4. UDPtoUART' \in Seq(Buffers) /\ Len(UDPtoUART') = Len(UDPtoUART) + 1
  BY <1>2, <1>3, SeqFacts DEF QueueTypes
<1>5. QueueTypes' /\ UseTypes' /\ DataTypes'
  BY <1>2, <1>3, <1>4, DataUnchanged DEF UdpRxPut, QueueTypes, UseTypes
<1>6. Queued' + 0 = Queued + Held("udp_rx")
  BY <1>1, <1>2, <1>3, <1>4, Lengths DEF Queued, Held
<1>7. "start" \in Locations["udp_rx"] /\ "start" \in WithoutPacket
  BY LocationsFacts DEF WithoutPacket
<1> QED  BY <1>1, <1>3, <1>5, <1>6, <1>7, MoveInv

LEMMA MemsetInv == ASSUME Inv, NEW t \in Threads, Memset(t) PROVE Inv'
<1>1. UseTypes /\ DataTypes
  BY TypeParts DEF Inv
<1>2. UseTypes' /\ DataTypes'
  BY <1>1, ContentsFacts DEF Memset, bp_relinquish_memset, UseTypes, DataTypes, tables
<1> QED  BY <1>2, StayInv DEF Memset, bp_relinquish_memset

LEMMA ExpireInv == ASSUME Inv, Expire PROVE Inv'
<1>1. UseTypes' /\ DataTypes'
  BY TypeParts DEF Inv, Expire, UseTypes, DataTypes
<1> QED  BY <1>1, StayInv DEF Expire

-----------------------------------------------------------------------------
LEMMA InvInit == Init => Inv
<1> SUFFICES ASSUME Init PROVE Inv
  OBVIOUS
<1>1. pool \in Seq(Buffers) /\ Len(pool) = BufferCount
  BY FullPoolsType DEF Init, PoolInit
<1>2. /\ UARTtoApps \in Seq(Buffers) /\ Len(UARTtoApps) = 0
      /\ AppsToUDP \in Seq(Buffers) /\ Len(AppsToUDP) = 0
      /\ UDPtoUART \in Seq(Buffers) /\ Len(UDPtoUART) = 0
  BY DEF Init
<1>3. QueueTypes /\ UseTypes /\ DataTypes
  BY <1>1, <1>2, ContentsFacts DEF Init, PoolInit, QueueTypes, UseTypes, DataTypes
<1>4. PktType /\ PcType
  BY LocationsFacts DEF Init, PoolInit, PktType, PcType, AllLocations
<1>5. HoldsWhereItShould
  BY DEF Init, PoolInit, HoldsWhereItShould, WithoutPacket
<1>6. \A t \in Threads : Held(t) = 0
  BY DEF Init, PoolInit, Held
<1>7. Accounted
  BY <1>1, <1>2, <1>6, Parameters DEF Accounted, Threads
<1> QED  BY <1>3, <1>4, <1>5, <1>7, TypeParts DEF Inv

LEMMA InvNext == Inv /\ [Next]_vars => Inv'
<1> SUFFICES ASSUME Inv, [Next]_vars PROVE Inv'
  OBVIOUS
<1>1. CASE uart_rx
  BY <1>1, FeedFetchInv, FeedAppendInv, FeedAbortInv, FeedCompleteInv, FeedPutInv,
     MemsetInv DEF uart_rx, Threads
<1>2. CASE apps
  BY <1>2, AppsGetInv, AppsHandleInv, AppsPutInv, MemsetInv DEF apps, Threads
<1>3. CASE udp_tx
  BY <1>3, UdpTxGetInv, UdpTxLearnInv, UdpTxSendInv, MemsetInv DEF udp_tx, Threads
<1>4. CASE uart_tx
  BY <1>4, UartTxGetInv, UartTxValidateInv, UartTxWriteInv, MemsetInv DEF uart_tx, Threads
<1>5. CASE udp_rx
  BY <1>5, SocketInv, UdpRxRecvInv, UdpRxPutInv, MemsetInv DEF udp_rx, Threads
<1>6. CASE Expire
  BY <1>6, ExpireInv
<1>7. CASE UNCHANGED vars
  <2>1. UseTypes' /\ DataTypes'
    BY <1>7, TypeParts DEF vars, Inv, UseTypes, DataTypes
  <2> QED  BY <1>7, <2>1, StayInv DEF vars, queues
<1> QED  BY <1>1, <1>2, <1>3, <1>4, <1>5, <1>6, <1>7 DEF Next

THEOREM Inductive == Spec => []Inv
<1> QED  BY InvInit, InvNext, PTL DEF Spec

(* A thread has a packet exactly while its run loop is between getting one *)
(* and passing it on or relinquishing it: no early exit, and no restart,   *)
(* leaves one behind or goes on without one.                               *)
THEOREM PacketWhereItShould == Spec => []HoldsWhereItShould
<1>1. Inv => HoldsWhereItShould
  BY DEF Inv
<1> QED  BY <1>1, Inductive, PTL

(* However the threads interleave, the pool, the queues and the threads'   *)
(* variables stay what they are meant to be.                               *)
THEOREM TypeCorrect == Spec => []TypeOK
<1>1. Inv => TypeOK
  BY DEF Inv
<1> QED  BY <1>1, Inductive, PTL

(* For any number of buffers and any length of the queues, under any       *)
(* schedule: no path of the five threads loses a buffer or queues it twice.*)
THEOREM NoLeak == Spec => []Accounted
<1>1. Inv => Accounted
  BY DEF Inv
<1> QED  BY <1>1, Inductive, PTL

(* The overflow branch of bp_relinquish ("have you relinquished a bad      *)
(* pointer?") is dead code.                                                *)
THEOREM NoOverflow == Spec => []NeverOverflows
<1> QED  BY Inductive, InvNeverOverflows, PTL

-----------------------------------------------------------------------------
(***************************************************************************)
(* The five threads follow the discipline of BufferPoolClient, whatever    *)
(* the number of buffers, the length of the queues and the schedule: every *)
(* step of Pipeline is a step of one of the general clients there, or      *)
(* changes nothing that they can see.  So the pool keeps its promises.     *)
(*                                                                         *)
(* What is on its way between two threads is a set there and three queues  *)
(* here.  A k_msgq_get takes a buffer out of the set only if the buffer is *)
(* in the queues just once, which QueuesApart says; and a k_msgq_put keeps *)
(* that up because the buffer is its owner's (OneOwner, again).            *)
(*                                                                         *)
(* From the same invariant: each way through the bridge is a link that     *)
(* keeps the order (PacketLink).  The buffers on a way, from the thread    *)
(* that takes packets out back to the one that puts them in, are one       *)
(* sequence; a step of a thread leaves it as it is, adds a buffer at its   *)
(* end or takes one from its front.                                        *)
(***************************************************************************)
ClientProofs == INSTANCE BufferPoolClientProofs WITH transit <- InTransit

(* The assumption on the constants there is part of the one here.          *)
LEMMA ClientParameters == ClientProofs!PoolParameters
BY PipelineAssumption
   DEF PoolParameters, ClientProofs!PoolParameters,
       ClientProofs!IsFiniteSet, ClientProofs!Cardinality, IsFiniteSet, Cardinality

-----------------------------------------------------------------------------
(* The queues.                                                             *)

(* No queue holds a buffer twice, and no two queues hold the same one.     *)
QueuesApart ==
  /\ IsInjective(UARTtoApps) /\ IsInjective(AppsToUDP) /\ IsInjective(UDPtoUART)
  /\ Range(UARTtoApps) \cap Range(AppsToUDP) = {}
  /\ Range(UARTtoApps) \cap Range(UDPtoUART) = {}
  /\ Range(AppsToUDP) \cap Range(UDPtoUART) = {}

ClientInv == Inv /\ ClientProofs!OneOwner /\ QueuesApart

(* The discipline, as far as one step can break it.                        *)
ClientStep == [ClientProofs!Next]_ClientProofs!clientVars
GoodStep == ClientStep /\ QueuesApart'

LEMMA OwnerFacts ==
  ASSUME ClientProofs!OneOwner
  PROVE  /\ \A t \in Threads : pkt[t] # NULL => pkt[t] \notin InTransit
         /\ InTransit \subseteq Buffers
<1>1. ClientProofs!TypeOK /\ ClientProofs!Apart
  BY ClientParameters, ClientProofs!OneOwnerParts DEF ClientProofs!PoolAssumption
<1> QED  BY <1>1 DEF ClientProofs!TypeOK, ClientProofs!Apart

LEMMA GetFrom ==
  ASSUME NEW q \in Seq(Buffers), q # <<>>, IsInjective(q)
  PROVE  /\ Head(q) \in Range(q)
         /\ Range(Tail(q)) = Range(q) \ {Head(q)}
         /\ IsInjective(Tail(q))
BY ClientParameters, ClientProofs!TailOfInjective, Zenon
   DEF ClientProofs!PoolAssumption,
       Range, IsInjective, ClientProofs!Range, ClientProofs!IsInjective

LEMMA PutTo ==
  ASSUME NEW q \in Seq(Buffers), NEW b \in Buffers
  PROVE  /\ Range(Append(q, b)) = Range(q) \cup {b}
         /\ IsInjective(q) /\ b \notin Range(q) => IsInjective(Append(q, b))
BY ClientParameters, ClientProofs!AppendToInjective
   DEF ClientProofs!PoolAssumption,
       Range, IsInjective, ClientProofs!Range, ClientProofs!IsInjective

(* k_msgq_get: what the thread gets is on its way no more.                 *)
LEMMA GetTransit ==
  ASSUME ClientInv, NEW t \in Threads,
         \/ Get(t, UARTtoApps) /\ UNCHANGED <<AppsToUDP, UDPtoUART>>
         \/ Get(t, AppsToUDP) /\ UNCHANGED <<UARTtoApps, UDPtoUART>>
         \/ Get(t, UDPtoUART) /\ UNCHANGED <<UARTtoApps, AppsToUDP>>
  PROVE  /\ \E b \in InTransit : /\ pkt' = [pkt EXCEPT ![t] = b]
                                 /\ InTransit' = InTransit \ {b}
         /\ QueuesApart'
<1>1. QueueTypes /\ QueuesApart
  BY TypeParts DEF ClientInv, Inv
<1>2. CASE Get(t, UARTtoApps) /\ UNCHANGED <<AppsToUDP, UDPtoUART>>
  <2>1. /\ Head(UARTtoApps) \in Range(UARTtoApps)
        /\ Range(UARTtoApps') = Range(UARTtoApps) \ {Head(UARTtoApps)}
        /\ IsInjective(UARTtoApps')
    BY <1>1, <1>2, GetFrom DEF Get, QueueTypes, QueuesApart
  <2>2. InTransit' = InTransit \ {Head(UARTtoApps)}
    BY <1>1, <1>2, <2>1 DEF InTransit, QueuesApart
  <2>3. Head(UARTtoApps) \in InTransit /\ pkt' = [pkt EXCEPT ![t] = Head(UARTtoApps)]
    BY <1>2, <2>1 DEF Get, InTransit
  <2>4. QueuesApart'
    BY <1>1, <1>2, <2>1 DEF QueuesApart
  <2> QED  BY <2>2, <2>3, <2>4
<1>3. CASE Get(t, AppsToUDP) /\ UNCHANGED <<UARTtoApps, UDPtoUART>>
  <2>1. /\ Head(AppsToUDP) \in Range(AppsToUDP)
        /\ Range(AppsToUDP') = Range(AppsToUDP) \ {Head(AppsToUDP)}
        /\ IsInjective(AppsToUDP')
    BY <1>1, <1>3, GetFrom DEF Get, QueueTypes, QueuesApart
  <2>2. InTransit' = InTransit \ {Head(AppsToUDP)}
    BY <1>1, <1>3, <2>1 DEF InTransit, QueuesApart
  <2>3. Head(AppsToUDP) \in InTransit /\ pkt' = [pkt EXCEPT ![t] = Head(AppsToUDP)]
    BY <1>3, <2>1 DEF Get, InTransit
  <2>4. QueuesApart'
    BY <1>1, <1>3, <2>1 DEF QueuesApart
  <2> QED  BY <2>2, <2>3, <2>4
<1>4. CASE Get(t, UDPtoUART) /\ UNCHANGED <<UARTtoApps, AppsToUDP>>
  <2>1. /\ Head(UDPtoUART) \in Range(UDPtoUART)
        /\ Range(UDPtoUART') = Range(UDPtoUART) \ {Head(UDPtoUART)}
        /\ IsInjective(UDPtoUART')
    BY <1>1, <1>4, GetFrom DEF Get, QueueTypes, QueuesApart
  <2>2. InTransit' = InTransit \ {Head(UDPtoUART)}
    BY <1>1, <1>4, <2>1 DEF InTransit, QueuesApart
  <2>3. Head(UDPtoUART) \in InTransit /\ pkt' = [pkt EXCEPT ![t] = Head(UDPtoUART)]
    BY <1>4, <2>1 DEF Get, InTransit
  <2>4. QueuesApart'
    BY <1>1, <1>4, <2>1 DEF QueuesApart
  <2> QED  BY <2>2, <2>3, <2>4
<1> QED  BY <1>2, <1>3, <1>4

(* k_msgq_put: nobody else has what the thread puts.                       *)
LEMMA PutTransit ==
  ASSUME ClientInv, NEW t \in Threads, pkt[t] # NULL,
         \/ Put(t, UARTtoApps) /\ UNCHANGED <<AppsToUDP, UDPtoUART>>
         \/ Put(t, AppsToUDP) /\ UNCHANGED <<UARTtoApps, UDPtoUART>>
         \/ Put(t, UDPtoUART) /\ UNCHANGED <<UARTtoApps, AppsToUDP>>
  PROVE  InTransit' = InTransit \cup {pkt[t]} /\ QueuesApart'
<1>1. QueueTypes /\ QueuesApart /\ pkt[t] \in Buffers
  BY TypeParts, PktContents DEF ClientInv, Inv
<1>2. /\ pkt[t] \notin Range(UARTtoApps) /\ pkt[t] \notin Range(AppsToUDP)
      /\ pkt[t] \notin Range(UDPtoUART)
  BY OwnerFacts DEF ClientInv, InTransit
<1>3. CASE Put(t, UARTtoApps) /\ UNCHANGED <<AppsToUDP, UDPtoUART>>
  <2>1. Range(UARTtoApps') = Range(UARTtoApps) \cup {pkt[t]} /\ IsInjective(UARTtoApps')
    BY <1>1, <1>2, <1>3, PutTo DEF Put, QueueTypes, QueuesApart
  <2> QED  BY <1>1, <1>2, <1>3, <2>1 DEF InTransit, QueuesApart
<1>4. CASE Put(t, AppsToUDP) /\ UNCHANGED <<UARTtoApps, UDPtoUART>>
  <2>1. Range(AppsToUDP') = Range(AppsToUDP) \cup {pkt[t]} /\ IsInjective(AppsToUDP')
    BY <1>1, <1>2, <1>4, PutTo DEF Put, QueueTypes, QueuesApart
  <2> QED  BY <1>1, <1>2, <1>4, <2>1 DEF InTransit, QueuesApart
<1>5. CASE Put(t, UDPtoUART) /\ UNCHANGED <<UARTtoApps, AppsToUDP>>
  <2>1. Range(UDPtoUART') = Range(UDPtoUART) \cup {pkt[t]} /\ IsInjective(UDPtoUART')
    BY <1>1, <1>2, <1>5, PutTo DEF Put, QueueTypes, QueuesApart
  <2> QED  BY <1>1, <1>2, <1>5, <2>1 DEF InTransit, QueuesApart
<1> QED  BY <1>3, <1>4, <1>5

-----------------------------------------------------------------------------
(* What the threads do, as steps of the clients.                           *)

LEMMA ClientActions ==
  \/ \E t \in Threads :
       \/ ClientProofs!Fetch(t) \/ ClientProofs!Write(t) \/ ClientProofs!Send(t)
       \/ ClientProofs!Receive(t) \/ ClientProofs!Relinquish(t) \/ ClientProofs!Memset(t)
  \/ ClientProofs!Reboot
  => ClientStep
BY DEF ClientStep, ClientProofs!Next

LEMMA SameQueues ==
  ASSUME QueuesApart, UNCHANGED queues
  PROVE  InTransit' = InTransit /\ QueuesApart'
BY DEF queues, InTransit, QueuesApart

(* Nothing happens to the buffers.                                         *)
LEMMA StutterGood ==
  ASSUME ClientInv, UNCHANGED <<pool, mem, pkt, scrub, ohNoLed, queues>> PROVE GoodStep
<1>1. InTransit' = InTransit /\ QueuesApart'
  BY SameQueues DEF ClientInv
<1> QED  BY <1>1 DEF GoodStep, ClientStep, ClientProofs!clientVars, ClientProofs!poolVars

LEMMA GetGood ==
  ASSUME ClientInv, NEW t \in Threads, Running(t), pkt[t] = NULL,
         \/ Get(t, UARTtoApps) /\ UNCHANGED <<AppsToUDP, UDPtoUART>>
         \/ Get(t, AppsToUDP) /\ UNCHANGED <<UARTtoApps, UDPtoUART>>
         \/ Get(t, UDPtoUART) /\ UNCHANGED <<UARTtoApps, AppsToUDP>>,
         UNCHANGED <<pool, mem, scrub, ohNoLed>>
  PROVE  GoodStep
<1>1. /\ \E b \in InTransit : /\ pkt' = [pkt EXCEPT ![t] = b]
                              /\ InTransit' = InTransit \ {b}
      /\ QueuesApart'
  BY GetTransit
<1>2. ClientProofs!Receive(t)
  BY <1>1 DEF ClientProofs!Receive, ClientProofs!Running, Running
<1> QED  BY <1>1, <1>2, ClientActions DEF GoodStep

LEMMA PutGood ==
  ASSUME ClientInv, NEW t \in Threads, Running(t), pkt[t] # NULL,
         \/ Put(t, UARTtoApps) /\ UNCHANGED <<AppsToUDP, UDPtoUART>>
         \/ Put(t, AppsToUDP) /\ UNCHANGED <<UARTtoApps, UDPtoUART>>
         \/ Put(t, UDPtoUART) /\ UNCHANGED <<UARTtoApps, AppsToUDP>>,
         UNCHANGED <<pool, mem, scrub, ohNoLed>>
  PROVE  GoodStep
<1>1. InTransit' = InTransit \cup {pkt[t]} /\ QueuesApart'
  BY PutTransit
<1>2. ClientProofs!Send(t)
  BY <1>1 DEF ClientProofs!Send, ClientProofs!Running, Running, Put
<1> QED  BY <1>1, <1>2, ClientActions DEF GoodStep

LEMMA FetchGood ==
  ASSUME ClientInv, NEW t \in Threads, Running(t), pkt[t] = NULL, bp_fetch(t),
         \/ UNCHANGED mem
         \/ pool # <<>> /\ \E c \in Contents : mem' = [mem EXCEPT ![Head(pool)] = c],
         UNCHANGED queues
  PROVE  GoodStep
<1>1. InTransit' = InTransit /\ QueuesApart'
  BY SameQueues DEF ClientInv
<1>2. ClientProofs!Fetch(t)
  BY <1>1 DEF ClientProofs!Fetch, ClientProofs!Running, ClientProofs!bp_fetch,
              Running, bp_fetch
<1> QED  BY <1>1, <1>2, ClientActions DEF GoodStep

LEMMA RelinquishGood ==
  ASSUME ClientInv, NEW t \in Threads, Running(t), pkt[t] # NULL, bp_relinquish(t),
         UNCHANGED <<mem, queues>>
  PROVE  GoodStep
<1>1. InTransit' = InTransit /\ QueuesApart'
  BY SameQueues DEF ClientInv
<1>2. ClientProofs!Relinquish(t)
  BY <1>1 DEF ClientProofs!Relinquish, ClientProofs!Running,
              ClientProofs!bp_relinquish, Running, bp_relinquish
<1> QED  BY <1>1, <1>2, ClientActions DEF GoodStep

LEMMA MemsetGood ==
  ASSUME ClientInv, NEW t \in Threads, Memset(t) PROVE GoodStep
<1>1. InTransit' = InTransit /\ QueuesApart'
  BY SameQueues DEF ClientInv, Memset
<1>2. ClientProofs!Memset(t)
  BY <1>1 DEF ClientProofs!Memset, ClientProofs!Running,
              ClientProofs!bp_relinquish_memset, Memset, Running, bp_relinquish_memset
<1> QED  BY <1>1, <1>2, ClientActions DEF GoodStep

(* As main leaves the queues.                                              *)
LEMMA NothingInTransit ==
  ASSUME UARTtoApps = <<>>, AppsToUDP = <<>>, UDPtoUART = <<>>
  PROVE  InTransit = {} /\ QueuesApart
BY DEF InTransit, QueuesApart, Range, IsInjective

LEMMA RebootGood == ASSUME Reboot PROVE GoodStep
<1>1. InTransit' = {} /\ QueuesApart'
  BY DEF Reboot, InTransit, QueuesApart, Range, IsInjective
<1>2. ClientProofs!Reboot
  BY <1>1 DEF ClientProofs!Reboot, ClientProofs!PoolReboot, ClientProofs!FullPools,
              ClientProofs!IsInjective, Reboot, PoolReboot, FullPools, IsInjective
<1> QED  BY <1>1, <1>2, ClientActions DEF GoodStep

(* Where a thread is tells whether it has a packet.                        *)
LEMMA PacketAt ==
  ASSUME ClientInv, NEW t \in Threads, NEW l, At(t, l)
  PROVE  /\ Running(t)
         /\ l \in {"start", "retry"} => pkt[t] = NULL
         /\ l \notin {"start", "retry"} => pkt[t] # NULL
BY DEF ClientInv, Inv, HoldsWhereItShould, At, WithoutPacket

LEMMA FeedGood ==
  ASSUME ClientInv, FeedFetch \/ FeedAppend \/ FeedAbort \/ FeedComplete \/ FeedPut
  PROVE  GoodStep
<1>1. "uart_rx" \in Threads
  BY DEF Threads
<1>2. CASE FeedFetch
  <2>1. Running("uart_rx") /\ pkt["uart_rx"] = NULL
    BY <1>1, <1>2, PacketAt DEF FeedFetch
  <2> QED  BY <1>1, <1>2, <2>1, FetchGood DEF FeedFetch
<1>3. CASE FeedAppend
  <2>1. Running("uart_rx") /\ pkt["uart_rx"] # NULL
    BY <1>1, <1>3, PacketAt DEF FeedAppend
  <2>2. PICK c \in UartChunks :
          mem' = [mem EXCEPT ![pkt["uart_rx"]] = Append(mem[pkt["uart_rx"]], c)]
    BY <1>3 DEF FeedAppend
  <2>3. Append(mem[pkt["uart_rx"]], c) \in Contents
    BY <1>1, <1>3, <2>1, PktContents, ContentsFacts DEF FeedAppend, ClientInv, Chunks
  <2>4. InTransit' = InTransit /\ QueuesApart'
    BY <1>3, SameQueues DEF FeedAppend, ClientInv
  <2>5. ClientProofs!Write("uart_rx")
    BY <1>3, <2>1, <2>2, <2>3, <2>4
       DEF FeedAppend, ClientProofs!Write, ClientProofs!Running, Running
  <2> QED  BY <1>1, <2>4, <2>5, ClientActions DEF GoodStep
<1>4. CASE FeedAbort
  <2>1. Running("uart_rx") /\ pkt["uart_rx"] # NULL
    BY <1>1, <1>4, PacketAt DEF FeedAbort
  <2> QED  BY <1>1, <1>4, <2>1, RelinquishGood DEF FeedAbort
<1>5. CASE FeedComplete
  <2>1. Running("uart_rx") /\ pkt["uart_rx"] # NULL
    BY <1>1, <1>5, PacketAt DEF FeedComplete
  <2>2. /\ UNCHANGED <<mem, queues>>
        /\ bp_relinquish("uart_rx") \/ UNCHANGED <<pool, pkt, scrub, ohNoLed>>
    BY <1>5 DEF FeedComplete
  <2> QED  BY <1>1, <2>1, <2>2, RelinquishGood, StutterGood
<1>6. CASE FeedPut
  <2>1. Running("uart_rx") /\ pkt["uart_rx"] # NULL
    BY <1>1, <1>6, PacketAt DEF FeedPut
  <2> QED  BY <1>1, <1>6, <2>1, PutGood DEF FeedPut
<1> QED  BY <1>2, <1>3, <1>4, <1>5, <1>6

LEMMA AppsGood ==
  ASSUME ClientInv, AppsGet \/ AppsHandle \/ AppsPut PROVE GoodStep
<1>1. "apps" \in Threads
  BY DEF Threads
<1>2. CASE AppsGet
  <2>1. Running("apps") /\ pkt["apps"] = NULL
    BY <1>1, <1>2, PacketAt DEF AppsGet
  <2> QED  BY <1>1, <1>2, <2>1, GetGood DEF AppsGet
<1>3. CASE AppsHandle
  <2>1. Reboot \/ UNCHANGED <<pool, mem, pkt, scrub, ohNoLed, queues>>
    BY <1>3 DEF AppsHandle
  <2> QED  BY <2>1, RebootGood, StutterGood
<1>4. CASE AppsPut
  <2>1. Running("apps") /\ pkt["apps"] # NULL
    BY <1>1, <1>4, PacketAt DEF AppsPut
  <2> QED  BY <1>1, <1>4, <2>1, PutGood DEF AppsPut
<1> QED  BY <1>2, <1>3, <1>4

LEMMA UdpTxGood ==
  ASSUME ClientInv, UdpTxGet \/ UdpTxLearn \/ UdpTxSend PROVE GoodStep
<1>1. "udp_tx" \in Threads
  BY DEF Threads
<1>2. CASE UdpTxGet
  <2>1. Running("udp_tx") /\ pkt["udp_tx"] = NULL
    BY <1>1, <1>2, PacketAt DEF UdpTxGet
  <2> QED  BY <1>1, <1>2, <2>1, GetGood DEF UdpTxGet
<1>3. CASE UdpTxLearn
  <2>1. Running("udp_tx") /\ pkt["udp_tx"] # NULL
    BY <1>1, <1>3, PacketAt DEF UdpTxLearn
  <2>2. /\ UNCHANGED <<mem, queues>>
        /\ bp_relinquish("udp_tx") \/ UNCHANGED <<pool, pkt, scrub, ohNoLed>>
    BY <1>3 DEF UdpTxLearn
  <2> QED  BY <1>1, <2>1, <2>2, RelinquishGood, StutterGood
<1>4. CASE UdpTxSend
  <2>1. Running("udp_tx") /\ pkt["udp_tx"] # NULL
    BY <1>1, <1>4, PacketAt DEF UdpTxSend
  <2> QED  BY <1>1, <1>4, <2>1, RelinquishGood DEF UdpTxSend
<1> QED  BY <1>2, <1>3, <1>4

LEMMA UartTxGood ==
  ASSUME ClientInv, UartTxGet \/ UartTxValidate \/ UartTxWrite PROVE GoodStep
<1>1. "uart_tx" \in Threads
  BY DEF Threads
<1>2. CASE UartTxGet
  <2>1. Running("uart_tx") /\ pkt["uart_tx"] = NULL
    BY <1>1, <1>2, PacketAt DEF UartTxGet
  <2> QED  BY <1>1, <1>2, <2>1, GetGood DEF UartTxGet
<1>3. CASE UartTxValidate
  <2>1. Running("uart_tx") /\ pkt["uart_tx"] # NULL
    BY <1>1, <1>3, PacketAt DEF UartTxValidate
  <2>2. /\ UNCHANGED <<mem, queues>>
        /\ bp_relinquish("uart_tx") \/ UNCHANGED <<pool, pkt, scrub, ohNoLed>>
    BY <1>3 DEF UartTxValidate
  <2> QED  BY <1>1, <2>1, <2>2, RelinquishGood, StutterGood
<1>4. CASE UartTxWrite
  <2>1. Running("uart_tx") /\ pkt["uart_tx"] # NULL
    BY <1>1, <1>4, PacketAt DEF UartTxWrite
  <2> QED  BY <1>1, <1>4, <2>1, RelinquishGood DEF UartTxWrite
<1> QED  BY <1>2, <1>3, <1>4

LEMMA UdpRxGood ==
  ASSUME ClientInv, UdpRxOpen \/ UdpRxError \/ UdpRxRecv \/ UdpRxPut PROVE GoodStep
<1>1. "udp_rx" \in Threads
  BY DEF Threads
<1>2. CASE UdpRxOpen \/ UdpRxError
  BY <1>2, StutterGood DEF UdpRxOpen, UdpRxError
<1>3. CASE UdpRxRecv
  <2>1. Running("udp_rx") /\ pkt["udp_rx"] = NULL
    BY <1>1, <1>3, PacketAt DEF UdpRxRecv
  <2>2. bp_fetch("udp_rx") /\ UNCHANGED queues
    BY <1>3 DEF UdpRxRecv
  <2>3. \/ UNCHANGED mem
        \/ pool # <<>> /\ \E c \in UdpChunks : mem' = [mem EXCEPT ![Head(pool)] = <<c>>]
    BY <1>3 DEF UdpRxRecv
  <2>4. \/ UNCHANGED mem
        \/ pool # <<>> /\ \E c \in Contents : mem' = [mem EXCEPT ![Head(pool)] = c]
    BY <2>3, ContentsFacts DEF Chunks
  <2> QED  BY <1>1, <2>1, <2>2, <2>4, FetchGood
<1>4. CASE UdpRxPut
  <2>1. Running("udp_rx") /\ pkt["udp_rx"] # NULL
    BY <1>1, <1>4, PacketAt DEF UdpRxPut
  <2> QED  BY <1>1, <1>4, <2>1, PutGood DEF UdpRxPut
<1> QED  BY <1>2, <1>3, <1>4

LEMMA NextGood == ASSUME ClientInv, Next PROVE GoodStep
<1>1. ASSUME NEW t \in Threads, Memset(t) PROVE GoodStep
  BY <1>1, MemsetGood
<1>2. CASE Expire
  BY <1>2, StutterGood DEF Expire
<1> QED
  BY <1>1, <1>2, FeedGood, AppsGood, UdpTxGood, UartTxGood, UdpRxGood
     DEF Next, uart_rx, apps, udp_tx, uart_tx, udp_rx, Threads

-----------------------------------------------------------------------------
(* The theorems.                                                           *)

LEMMA ClientInit == Init => ClientProofs!Init
BY NothingInTransit
   DEF Init, PoolInit, FullPools, IsInjective,
       ClientProofs!Init, ClientProofs!PoolInit, ClientProofs!FullPools,
       ClientProofs!IsInjective

LEMMA ClientInvInit == Init => ClientInv
<1> SUFFICES ASSUME Init PROVE ClientInv
  OBVIOUS
<1>1. Inv
  BY InvInit
<1>2. ClientProofs!OneOwner
  BY ClientInit, ClientParameters, ClientProofs!OneOwnerInit
     DEF ClientProofs!PoolAssumption
<1>3. QueuesApart
  BY NothingInTransit DEF Init
<1> QED  BY <1>1, <1>2, <1>3 DEF ClientInv

LEMMA StepGood == ASSUME ClientInv, [Next]_vars PROVE GoodStep
<1>1. CASE UNCHANGED vars
  BY <1>1, StutterGood DEF vars, queues
<1> QED  BY <1>1, NextGood

LEMMA ClientInvNext == ClientInv /\ [Next]_vars => ClientInv'
<1> SUFFICES ASSUME ClientInv, [Next]_vars PROVE ClientInv'
  OBVIOUS
<1>1. Inv'
  BY InvNext DEF ClientInv
<1>2. ClientStep /\ QueuesApart'
  BY StepGood DEF GoodStep
<1>3. ClientProofs!OneOwner'
  BY <1>2, ClientParameters, ClientProofs!OneOwnerNext
     DEF ClientInv, ClientStep, ClientProofs!PoolAssumption
<1> QED  BY <1>1, <1>2, <1>3 DEF ClientInv

THEOREM ClientInductive == Spec => []ClientInv
<1> QED  BY ClientInvInit, ClientInvNext, PTL DEF Spec

(* In the running firmware, too, every packet buffer is free, in one of    *)
(* the three queues, or with one of the five threads, and in one of these  *)
(* places only.                                                            *)
THEOREM PipelineHasOneOwner == Spec => []ClientProofs!OneOwner
<1>1. ClientInv => ClientProofs!OneOwner
  BY DEF ClientInv
<1> QED  BY <1>1, ClientInductive, PTL

LEMMA SameInit == Init => Client!Init
BY NothingInTransit
   DEF Init, PoolInit, FullPools, IsInjective,
       Client!Init, Client!PoolInit, Client!FullPools, Client!IsInjective

LEMMA SameStep == ClientStep => [Client!Next]_Client!clientVars
<1>1. ASSUME NEW t \in Threads
      PROVE  /\ ClientProofs!Fetch(t) <=> Client!Fetch(t)
             /\ ClientProofs!Write(t) <=> Client!Write(t)
             /\ ClientProofs!Send(t) <=> Client!Send(t)
             /\ ClientProofs!Receive(t) <=> Client!Receive(t)
             /\ ClientProofs!Relinquish(t) <=> Client!Relinquish(t)
             /\ ClientProofs!Memset(t) <=> Client!Memset(t)
  BY DEF ClientProofs!Fetch, ClientProofs!Write, ClientProofs!Send, ClientProofs!Receive,
         ClientProofs!Relinquish, ClientProofs!Memset, ClientProofs!Running,
         ClientProofs!bp_fetch, ClientProofs!bp_relinquish,
         ClientProofs!bp_relinquish_memset,
         Client!Fetch, Client!Write, Client!Send, Client!Receive,
         Client!Relinquish, Client!Memset, Client!Running,
         Client!bp_fetch, Client!bp_relinquish, Client!bp_relinquish_memset
<1>2. ClientProofs!Reboot <=> Client!Reboot
  BY DEF ClientProofs!Reboot, ClientProofs!PoolReboot, ClientProofs!FullPools,
         ClientProofs!IsInjective, Client!Reboot, Client!PoolReboot, Client!FullPools,
         Client!IsInjective
<1>3. ClientProofs!clientVars = Client!clientVars
      /\ (UNCHANGED ClientProofs!clientVars <=> UNCHANGED Client!clientVars)
  BY DEF ClientProofs!clientVars, ClientProofs!poolVars, Client!clientVars, Client!poolVars
<1> QED
  BY <1>1, <1>2, <1>3, Zenon DEF ClientStep, ClientProofs!Next, Client!Next

(* The threads of the bridge follow the discipline of BufferPoolClient:    *)
(* each of their steps, their early exits and the restart by the apps      *)
(* thread included, is a step of a client there, or none.                  *)
THEOREM PipelineFollowsDiscipline == Spec => ClientSpec
<1>1. ClientInv /\ [Next]_vars => [Client!Next]_Client!clientVars
  BY StepGood, SameStep DEF GoodStep
<1> QED  BY <1>1, SameInit, ClientInductive, PTL DEF Spec, ClientSpec, Client!Spec

(* And so whoever fetches a buffer finds it zeroed, unless the thread that *)
(* has put it back has been overtaken before its memset.                   *)
THEOREM PipelineScrubs == Spec => []PooledIsScrubbed
<1>1. Init => PooledIsScrubbed
  BY ClientInit, ClientParameters, ClientProofs!ScrubbedInit
     DEF ClientProofs!PoolAssumption, ClientProofs!PooledIsScrubbed, PooledIsScrubbed,
         ClientProofs!Range, Range
<1>2. ClientInv /\ PooledIsScrubbed /\ [Next]_vars => PooledIsScrubbed'
  <2> SUFFICES ASSUME ClientInv, PooledIsScrubbed, [Next]_vars PROVE PooledIsScrubbed'
    OBVIOUS
  <2>1. ClientStep
    BY StepGood DEF GoodStep
  <2>2. ClientProofs!PooledIsScrubbed'
    BY <2>1, ClientParameters, ClientProofs!ScrubbedNext
       DEF ClientInv, ClientStep, ClientProofs!PoolAssumption,
           ClientProofs!PooledIsScrubbed, PooledIsScrubbed, ClientProofs!Range, Range
  <2> QED
    BY <2>2 DEF ClientProofs!PooledIsScrubbed, PooledIsScrubbed, ClientProofs!Range, Range
<1> QED  BY <1>1, <1>2, ClientInductive, PTL DEF Spec

-----------------------------------------------------------------------------
(* The ways through the bridge as links (PacketLink).  The packets inside  *)
(* a link are the contents of a sequence of buffers, the chain; a buffer   *)
(* that goes from a thread to a queue or back stays where it is in that.   *)

ContentsOf(m, chain) == [i \in DOMAIN chain |-> m[chain[i]]]
One(b) == IF b = NULL THEN <<>> ELSE <<b>>

UdpChain ==
  One(pkt["udp_tx"]) \o AppsToUDP \o One(pkt["apps"]) \o UARTtoApps
    \o (IF pc["uart_rx"] = "put" THEN One(pkt["uart_rx"]) ELSE <<>>)
UartChain == One(pkt["uart_tx"]) \o UDPtoUART \o One(pkt["udp_rx"])

(* What a step can do to a chain c, of buffers with contents m.            *)
ChainStep(c, m, d, n, cap) ==
  LET agree == \A i \in 1 .. Len(c) : n[c[i]] = m[c[i]]
  IN  \/ d = c /\ agree
      \/ Len(c) < cap /\ agree /\ \E b \in Buffers : d = Append(c, b)
      \/ c # <<>> /\ d = Tail(c) /\ n = m
      \/ d = c /\ \E b \in Buffers : n = [m EXCEPT ![b] = Zeroed]
      \/ d = <<>>

LinkStep(l, k, cap) ==
  \/ k = l
  \/ Len(l) < cap /\ \E p \in Contents : k = Append(l, p)
  \/ l # <<>> /\ k = Tail(l)
  \/ \E i \in DOMAIN l : k = [l EXCEPT ![i] = Zeroed]
  \/ k = <<>>

LEMMA ContentsOfType ==
  ASSUME NEW m \in [Buffers -> Contents], NEW c \in Seq(Buffers)
  PROVE  /\ ContentsOf(m, c) \in Seq(Contents)
         /\ Len(ContentsOf(m, c)) = Len(c)
         /\ DOMAIN ContentsOf(m, c) = 1 .. Len(c)
         /\ \A i \in 1 .. Len(c) : ContentsOf(m, c)[i] = m[c[i]]
<1>1. DOMAIN c = 1 .. Len(c) /\ Len(c) \in Nat /\ \A i \in 1 .. Len(c) : m[c[i]] \in Contents
  OBVIOUS
<1>2. ContentsOf(m, c) = [i \in 1 .. Len(c) |-> m[c[i]]]
  BY <1>1 DEF ContentsOf
<1> QED  BY <1>1, <1>2

(* No buffer is in c twice: a memset wipes one packet at most.             *)
LEMMA ChainWiped ==
  ASSUME NEW m \in [Buffers -> Contents], NEW c \in Seq(Buffers), IsInjective(c),
         NEW b \in Buffers, NEW cap
  PROVE  LinkStep(ContentsOf(m, c), ContentsOf([m EXCEPT ![b] = Zeroed], c), cap)
<1> DEFINE n == [m EXCEPT ![b] = Zeroed]
<1>1. n \in [Buffers -> Contents] /\ \A x \in Buffers : n[x] = IF x = b THEN Zeroed ELSE m[x]
  BY ContentsFacts
<1> HIDE DEF n
<1>2. /\ ContentsOf(m, c) \in Seq(Contents) /\ Len(ContentsOf(m, c)) = Len(c)
      /\ DOMAIN ContentsOf(m, c) = 1 .. Len(c)
      /\ \A i \in 1 .. Len(c) : ContentsOf(m, c)[i] = m[c[i]]
  BY ContentsOfType
<1>3. /\ ContentsOf(n, c) \in Seq(Contents) /\ Len(ContentsOf(n, c)) = Len(c)
      /\ \A i \in 1 .. Len(c) : ContentsOf(n, c)[i] = n[c[i]]
  BY <1>1, ContentsOfType
<1>4. \A i \in 1 .. Len(c) : c[i] \in Buffers
  OBVIOUS
<1>5. CASE \E i \in 1 .. Len(c) : c[i] = b
  <2>1. PICK i \in 1 .. Len(c) : c[i] = b
    BY <1>5
  <2>2. \A j \in 1 .. Len(c) : c[j] = b => j = i
    <3>1. DOMAIN c = 1 .. Len(c)
      OBVIOUS
    <3> QED  BY <2>1, <3>1 DEF IsInjective
  <2> DEFINE w == [ContentsOf(m, c) EXCEPT ![i] = Zeroed]
  <2>3. /\ w \in Seq(Contents) /\ Len(w) = Len(c)
        /\ \A j \in 1 .. Len(c) : w[j] = IF j = i THEN Zeroed ELSE ContentsOf(m, c)[j]
    BY <1>2, ContentsFacts, ExceptSeq
  <2>4. \A j \in 1 .. Len(c) : ContentsOf(n, c)[j] = w[j]
    BY <1>1, <1>2, <1>3, <1>4, <2>1, <2>2, <2>3
  <2>5. ContentsOf(n, c) = w
    <3> HIDE DEF w
    <3> QED  BY <1>3, <2>3, <2>4, SeqEqual
  <2> QED  BY <1>2, <2>1, <2>5 DEF LinkStep, n
<1>6. CASE ~\E i \in 1 .. Len(c) : c[i] = b
  <2>1. \A j \in 1 .. Len(c) : ContentsOf(n, c)[j] = ContentsOf(m, c)[j]
    BY <1>1, <1>2, <1>3, <1>4, <1>6
  <2>2. ContentsOf(n, c) = ContentsOf(m, c)
    BY <1>2, <1>3, <2>1, SeqEqual
  <2> QED  BY <2>2 DEF LinkStep, n
<1> QED  BY <1>5, <1>6

LEMMA ChainStepIsLinkStep ==
  ASSUME NEW m \in [Buffers -> Contents], NEW n \in [Buffers -> Contents],
         NEW c \in Seq(Buffers), IsInjective(c), NEW d, NEW cap, ChainStep(c, m, d, n, cap)
  PROVE  LinkStep(ContentsOf(m, c), ContentsOf(n, d), cap)
<1>1. /\ ContentsOf(m, c) \in Seq(Contents) /\ Len(ContentsOf(m, c)) = Len(c)
      /\ DOMAIN ContentsOf(m, c) = 1 .. Len(c)
      /\ \A i \in 1 .. Len(c) : ContentsOf(m, c)[i] = m[c[i]]
  BY ContentsOfType
<1>2. ASSUME \A i \in 1 .. Len(c) : n[c[i]] = m[c[i]]
      PROVE  ContentsOf(n, c) = ContentsOf(m, c)
  <2>1. /\ ContentsOf(n, c) \in Seq(Contents) /\ Len(ContentsOf(n, c)) = Len(c)
        /\ \A i \in 1 .. Len(c) : ContentsOf(n, c)[i] = n[c[i]]
    BY ContentsOfType
  <2>2. \A i \in 1 .. Len(c) : ContentsOf(n, c)[i] = ContentsOf(m, c)[i]
    BY <1>1, <1>2, <2>1
  <2> QED  BY <1>1, <2>1, <2>2, SeqEqual
<1>3. CASE d = c /\ \A i \in 1 .. Len(c) : n[c[i]] = m[c[i]]
  BY <1>2, <1>3 DEF LinkStep
<1>4. CASE /\ Len(c) < cap /\ \A i \in 1 .. Len(c) : n[c[i]] = m[c[i]]
           /\ \E b \in Buffers : d = Append(c, b)
  <2>1. PICK b \in Buffers : d = Append(c, b)
    BY <1>4
  <2>2. n[b] \in Contents /\ ContentsOf(n, c) = ContentsOf(m, c)
    BY <1>2, <1>4
  <2>3. /\ d \in Seq(Buffers) /\ Len(d) = Len(c) + 1 /\ d[Len(c) + 1] = b
        /\ \A i \in 1 .. Len(c) : d[i] = c[i]
    BY <2>1, AppendProperties
  <2>4. /\ ContentsOf(n, d) \in Seq(Contents) /\ Len(ContentsOf(n, d)) = Len(d)
        /\ \A i \in 1 .. Len(d) : ContentsOf(n, d)[i] = n[d[i]]
    BY <2>3, ContentsOfType
  <2> DEFINE e == Append(ContentsOf(n, c), n[b])
  <2>5. /\ ContentsOf(n, c) \in Seq(Contents) /\ Len(ContentsOf(n, c)) = Len(c)
        /\ \A i \in 1 .. Len(c) : ContentsOf(n, c)[i] = n[c[i]]
    BY ContentsOfType
  <2>6. /\ e \in Seq(Contents) /\ Len(e) = Len(c) + 1 /\ e[Len(c) + 1] = n[b]
        /\ \A i \in 1 .. Len(c) : e[i] = n[c[i]]
    BY <2>2, <2>5, AppendProperties
  <2> HIDE DEF e
  <2>7. \A l \in Nat : \A i \in 1 .. l + 1 : i \in 1 .. l \/ i = l + 1
    OBVIOUS
  <2>8. Len(c) \in Nat
    OBVIOUS
  <2>9. \A i \in 1 .. Len(d) : ContentsOf(n, d)[i] = e[i]
    <3> SUFFICES ASSUME NEW i \in 1 .. Len(c) + 1 PROVE ContentsOf(n, d)[i] = e[i]
      BY <2>3
    <3>1. i \in 1 .. Len(c) \/ i = Len(c) + 1
      BY <2>7, <2>8
    <3>2. i \in 1 .. Len(d) /\ ContentsOf(n, d)[i] = n[d[i]]
      BY <2>3, <2>4
    <3> QED  BY <2>3, <2>6, <3>1, <3>2
  <2>10. ContentsOf(n, d) = e
    BY <2>3, <2>4, <2>6, <2>9, SeqEqual
  <2> QED  BY <1>1, <1>4, <2>2, <2>10 DEF LinkStep, e
<1>5. CASE c # <<>> /\ d = Tail(c) /\ n = m
  <2>1. /\ d \in Seq(Buffers) /\ Len(d) = Len(c) - 1 /\ Len(c) \in Nat
        /\ \A i \in 1 .. Len(d) : d[i] = c[i + 1]
    BY <1>5, HeadTailProperties
  <2>2. /\ ContentsOf(m, d) \in Seq(Contents) /\ Len(ContentsOf(m, d)) = Len(d)
        /\ \A i \in 1 .. Len(d) : ContentsOf(m, d)[i] = m[d[i]]
    BY <2>1, ContentsOfType
  <2>3. ContentsOf(m, c) # <<>>
    BY <1>1, <1>5, EmptySeq
  <2> DEFINE e == Tail(ContentsOf(m, c))
  <2>4. /\ e \in Seq(Contents) /\ Len(e) = Len(c) - 1
        /\ \A i \in 1 .. Len(c) - 1 : e[i] = ContentsOf(m, c)[i + 1]
    BY <1>1, <2>3, HeadTailProperties
  <2>5. \A i \in 1 .. Len(d) : ContentsOf(m, d)[i] = e[i]
    <3> SUFFICES ASSUME NEW i \in 1 .. Len(d) PROVE ContentsOf(m, d)[i] = e[i]
      OBVIOUS
    <3>1. i + 1 \in 1 .. Len(c)
      BY <2>1
    <3> QED  BY <1>1, <2>1, <2>2, <2>4, <3>1
  <2>6. ContentsOf(m, d) = e
    <3> HIDE DEF e
    <3> QED  BY <2>1, <2>2, <2>4, <2>5, SeqEqual
  <2> QED  BY <1>5, <2>3, <2>6 DEF LinkStep
<1>6. CASE d = c /\ \E b \in Buffers : n = [m EXCEPT ![b] = Zeroed]
  BY <1>6, ChainWiped
<1>7. CASE d = <<>>
  BY <1>7 DEF LinkStep, ContentsOf
<1> QED  BY <1>3, <1>4, <1>5, <1>6, <1>7 DEF ChainStep

-----------------------------------------------------------------------------
(* Chains.                                                                 *)

(* A k_msgq_put and a k_msgq_get leave the buffer where it was.            *)
LEMMA PutKeepsChain ==
  ASSUME NEW c \in Seq(Buffers), NEW q \in Seq(Buffers), NEW b \in Buffers
  PROVE  (c \o Append(q, b)) \o <<>> = (c \o q) \o <<b>>
<1>1. /\ <<b>> \in Seq(Buffers) /\ Append(q, b) \in Seq(Buffers)
      /\ c \o Append(q, b) \in Seq(Buffers)
  BY AppendProperties, ConcatProperties
<1>2. (c \o Append(q, b)) \o <<>> = c \o (q \o <<b>>)
  BY <1>1, ConcatEmptySeq, AppendIsConcat
<1> QED  BY <1>1, <1>2, ConcatAssociative

LEMMA HeadAndTail ==
  ASSUME NEW q \in Seq(Buffers), q # <<>>
  PROVE  /\ Head(q) \in Buffers /\ Tail(q) \in Seq(Buffers)
         /\ <<Head(q)>> \o Tail(q) = q
<1>1. /\ Head(q) \in Buffers /\ Tail(q) \in Seq(Buffers) /\ Len(Tail(q)) = Len(q) - 1
      /\ \A i \in 1 .. Len(Tail(q)) : Tail(q)[i] = q[i + 1]
      /\ Head(q) = q[1] /\ Len(q) \in Nat /\ Len(q) > 0
  BY HeadTailProperties
<1> DEFINE h == <<Head(q)>>
           r == h \o Tail(q)
<1>2. h \in Seq(Buffers) /\ Len(h) = 1 /\ h[1] = q[1]
  BY <1>1
<1> HIDE DEF h
<1>3. /\ r \in Seq(Buffers) /\ Len(r) = Len(q)
      /\ \A i \in 1 .. Len(q) : r[i] = IF i <= 1 THEN h[i] ELSE Tail(q)[i - 1]
  <2>1. /\ r \in Seq(Buffers) /\ Len(r) = Len(h) + Len(Tail(q))
        /\ \A i \in 1 .. Len(h) + Len(Tail(q)) :
             r[i] = IF i <= Len(h) THEN h[i] ELSE Tail(q)[i - Len(h)]
    <3>1. h \in Seq(Buffers) /\ Tail(q) \in Seq(Buffers)
      BY <1>1, <1>2
    <3> QED  BY <3>1, ConcatProperties
  <2> HIDE DEF r
  <2>2. Len(h) + Len(Tail(q)) = Len(q)
    BY <1>1, <1>2
  <2> QED  BY <1>2, <2>1, <2>2
<1> HIDE DEF r
<1>4. \A i \in 1 .. Len(q) : r[i] = q[i]
  <2> SUFFICES ASSUME NEW i \in 1 .. Len(q) PROVE r[i] = q[i]
    OBVIOUS
  <2>1. CASE i = 1
    BY <1>1, <1>2, <1>3, <2>1
  <2>2. CASE i # 1
    <3>1. i - 1 \in 1 .. Len(Tail(q)) /\ (i - 1) + 1 = i /\ ~(i <= 1)
      BY <1>1, <2>2
    <3> QED  BY <1>1, <1>3, <3>1
  <2> QED  BY <2>1, <2>2
<1>5. r = q
  BY <1>3, <1>4, SeqEqual
<1> QED  BY <1>1, <1>5 DEF h, r

LEMMA GetKeepsChain ==
  ASSUME NEW c \in Seq(Buffers), NEW q \in Seq(Buffers), q # <<>>
  PROVE  (c \o <<Head(q)>>) \o Tail(q) = (c \o <<>>) \o q
<1>1. /\ <<Head(q)>> \in Seq(Buffers) /\ Tail(q) \in Seq(Buffers)
      /\ <<Head(q)>> \o Tail(q) = q
  BY HeadAndTail
<1> QED  BY <1>1, ConcatEmptySeq, ConcatAssociative

LEMMA OneType ==
  ASSUME NEW b \in Buffers \cup {NULL}
  PROVE  /\ One(b) \in Seq(Buffers) /\ Len(One(b)) <= 1 /\ Len(One(b)) \in Nat
         /\ Range(One(b)) = {b} \ {NULL} /\ IsInjective(One(b))
         /\ b # NULL => One(b) = <<b>>
         /\ b = NULL => One(b) = <<>>
<1>1. CASE b = NULL
  BY <1>1 DEF One, Range, IsInjective
<1>2. CASE b # NULL
  <2>1. DOMAIN <<b>> = {1}
    OBVIOUS
  <2> QED  BY <1>2, <2>1 DEF One, Range, IsInjective
<1> QED  BY <1>1, <1>2

LEMMA ConcatInjective ==
  ASSUME NEW c \in Seq(Buffers), NEW d \in Seq(Buffers),
         IsInjective(c), IsInjective(d), Range(c) \cap Range(d) = {}
  PROVE  IsInjective(c \o d)
<1> DEFINE e == c \o d
<1>1. /\ e \in Seq(Buffers) /\ Len(e) = Len(c) + Len(d)
      /\ \A i \in 1 .. Len(c) + Len(d) : e[i] = IF i <= Len(c) THEN c[i] ELSE d[i - Len(c)]
      /\ Len(c) \in Nat /\ Len(d) \in Nat
  BY ConcatProperties
<1>2. DOMAIN c = 1 .. Len(c) /\ DOMAIN d = 1 .. Len(d) /\ DOMAIN e = 1 .. Len(e)
  BY <1>1
<1> HIDE DEF e
<1>3. ASSUME NEW i \in 1 .. Len(e), NEW j \in 1 .. Len(e), e[i] = e[j], i <= Len(c)
      PROVE  i = j
  <2>1. i \in DOMAIN c /\ e[i] = c[i]
    BY <1>1, <1>2, <1>3
  <2>2. CASE j <= Len(c)
    <3>1. j \in DOMAIN c /\ e[j] = c[j]
      BY <1>1, <1>2, <2>2
    <3> QED  BY <1>3, <2>1, <3>1 DEF IsInjective
  <2>3. CASE ~(j <= Len(c))
    <3>1. j - Len(c) \in DOMAIN d /\ e[j] = d[j - Len(c)]
      BY <1>1, <1>2, <2>3
    <3>2. c[i] \in Range(c) /\ d[j - Len(c)] \in Range(d)
      BY <2>1, <3>1 DEF Range
    <3> QED  BY <1>3, <2>1, <3>1, <3>2
  <2> QED  BY <2>2, <2>3
<1>4. ASSUME NEW i \in 1 .. Len(e), NEW j \in 1 .. Len(e), e[i] = e[j],
             ~(i <= Len(c)), ~(j <= Len(c))
      PROVE  i = j
  <2>1. /\ i - Len(c) \in DOMAIN d /\ e[i] = d[i - Len(c)]
        /\ j - Len(c) \in DOMAIN d /\ e[j] = d[j - Len(c)]
    BY <1>1, <1>2, <1>4
  <2>2. i - Len(c) = j - Len(c)
    BY <1>4, <2>1 DEF IsInjective
  <2> QED  BY <1>1, <2>2
<1>5. \A i, j \in DOMAIN e : e[i] = e[j] => i = j
  BY <1>2, <1>3, <1>4
<1> QED  BY <1>5 DEF IsInjective, e

LEMMA ContentsOfConcat ==
  ASSUME NEW m \in [Buffers -> Contents], NEW c \in Seq(Buffers), NEW d \in Seq(Buffers)
  PROVE  ContentsOf(m, c \o d) = ContentsOf(m, c) \o ContentsOf(m, d)
<1> DEFINE e == c \o d
           l == ContentsOf(m, c)
           k == ContentsOf(m, d)
<1>1. /\ e \in Seq(Buffers) /\ Len(e) = Len(c) + Len(d)
      /\ \A i \in 1 .. Len(c) + Len(d) : e[i] = IF i <= Len(c) THEN c[i] ELSE d[i - Len(c)]
      /\ Len(c) \in Nat /\ Len(d) \in Nat
  BY ConcatProperties
<1>2. /\ l \in Seq(Contents) /\ Len(l) = Len(c) /\ \A i \in 1 .. Len(c) : l[i] = m[c[i]]
      /\ k \in Seq(Contents) /\ Len(k) = Len(d) /\ \A i \in 1 .. Len(d) : k[i] = m[d[i]]
  BY ContentsOfType
<1> HIDE DEF e
<1>3. /\ ContentsOf(m, e) \in Seq(Contents) /\ Len(ContentsOf(m, e)) = Len(e)
      /\ \A i \in 1 .. Len(e) : ContentsOf(m, e)[i] = m[e[i]]
  BY <1>1, ContentsOfType
<1> HIDE DEF l, k
<1>4. /\ l \o k \in Seq(Contents) /\ Len(l \o k) = Len(l) + Len(k)
      /\ \A i \in 1 .. Len(l) + Len(k) : (l \o k)[i] = IF i <= Len(l) THEN l[i] ELSE k[i - Len(l)]
  BY <1>2, ConcatProperties
<1>5. ASSUME NEW i \in 1 .. Len(e) PROVE ContentsOf(m, e)[i] = (l \o k)[i]
  <2>1. CASE i <= Len(c)
    <3>1. i \in 1 .. Len(c)
      BY <1>1, <2>1
    <3> QED  BY <1>1, <1>2, <1>3, <1>4, <2>1, <3>1
  <2>2. CASE ~(i <= Len(c))
    <3>1. i - Len(c) \in 1 .. Len(d)
      BY <1>1, <2>2
    <3>2. ContentsOf(m, e)[i] = m[d[i - Len(c)]]
      BY <1>1, <1>3, <2>2
    <3>3. (l \o k)[i] = k[i - Len(c)]
      BY <1>1, <1>2, <1>4, <2>2
    <3> QED  BY <1>2, <3>1, <3>2, <3>3
  <2> QED  BY <2>1, <2>2
<1>6. ContentsOf(m, e) = l \o k
  BY <1>1, <1>2, <1>3, <1>4, <1>5, SeqEqual
<1> QED  BY <1>6 DEF e, l, k

(* The parts of a chain.                                                   *)
Apart2(c, d) == Range(c) \cap Range(d) = {}

LEMMA TwoParts ==
  ASSUME NEW c \in Seq(Buffers), NEW d \in Seq(Buffers),
         IsInjective(c), IsInjective(d), Range(c) \cap Range(d) = {}
  PROVE  /\ c \o d \in Seq(Buffers) /\ IsInjective(c \o d)
         /\ Range(c \o d) = Range(c) \cup Range(d)
         /\ Len(c \o d) = Len(c) + Len(d) /\ Len(c) \in Nat /\ Len(d) \in Nat
         /\ \A m \in [Buffers -> Contents] :
              ContentsOf(m, c \o d) = ContentsOf(m, c) \o ContentsOf(m, d)
BY ConcatProperties, ConcatInjective, RangeConcatenation, ContentsOfConcat

(* A frame that feed has accepted and not yet put.                         *)
InFeed == IF pc["uart_rx"] = "put" THEN One(pkt["uart_rx"]) ELSE <<>>

(* No queue has more buffers than slots.                                   *)
QueuesFit == Len(UARTtoApps) <= QCap /\ Len(AppsToUDP) <= QCap /\ Len(UDPtoUART) <= QCap
ChainInv == ClientInv /\ QueuesFit

LEMMA ChainParts ==
  ASSUME ChainInv
  PROVE  /\ QueueTypes /\ PktType /\ PcType /\ HoldsWhereItShould
         /\ mem \in [Buffers -> Contents] /\ scrub \in [Threads -> Buffers \cup {NULL}]
         /\ IsInjective(UARTtoApps) /\ IsInjective(AppsToUDP) /\ IsInjective(UDPtoUART)
         /\ Range(UARTtoApps) \cap Range(AppsToUDP) = {}
         /\ \A t \in Threads : pkt[t] # NULL =>
              /\ pkt[t] \in Buffers /\ pkt[t] \notin Range(pool)
              /\ pkt[t] \notin Range(UARTtoApps) /\ pkt[t] \notin Range(AppsToUDP)
              /\ pkt[t] \notin Range(UDPtoUART)
         /\ \A t, u \in Threads : pkt[t] # NULL /\ pkt[t] = pkt[u] => t = u
         /\ \A b \in Range(pool) : /\ b \notin Range(UARTtoApps) /\ b \notin Range(AppsToUDP)
                                   /\ b \notin Range(UDPtoUART)
         /\ QueuesFit
<1>1. /\ ClientProofs!TypeOK /\ ClientProofs!Apart
      /\ QueueTypes /\ PktType /\ PcType /\ DataTypes /\ UseTypes
      /\ QueuesApart /\ HoldsWhereItShould
  BY ClientParameters, ClientProofs!OneOwnerParts, TypeParts
     DEF ClientProofs!PoolAssumption, ClientInv, Inv, ChainInv
<1>2. /\ \A b \in InTransit : b \notin Range(pool)
      /\ \A t \in Threads : pkt[t] # NULL => pkt[t] \notin Range(pool) /\ pkt[t] \notin InTransit
      /\ \A t, u \in Threads : pkt[t] # NULL /\ pkt[t] = pkt[u] => t = u
  BY <1>1 DEF ClientProofs!TypeOK, ClientProofs!Apart, ClientProofs!Range, Range
<1>3. \A t \in Threads : pkt[t] # NULL => pkt[t] \in Buffers
  BY <1>1 DEF PktType
<1> QED  BY <1>1, <1>2, <1>3 DEF InTransit, QueuesApart, DataTypes, UseTypes, ChainInv

LEMMA UdpChainFacts ==
  ASSUME ChainInv
  PROVE  /\ UdpChain \in Seq(Buffers) /\ IsInjective(UdpChain)
         /\ \A b \in Range(UdpChain) :
              /\ b \notin Range(pool)
              /\ \A t \in Threads : b = pkt[t] =>
                   t \in {"udp_tx", "apps"} \/ (t = "uart_rx" /\ pc["uart_rx"] = "put")
         /\ pc["uart_rx"] # "put" => Len(UdpChain) < 2 * QCap + 3
         /\ LinkToUdp = ContentsOf(mem, UdpChain)
<1> DEFINE a == One(pkt["udp_tx"])
           c == One(pkt["apps"])
           e == InFeed
<1>0. {"udp_tx", "apps", "uart_rx"} \subseteq Threads
  BY DEF Threads
<1>1. /\ pkt["udp_tx"] \in Buffers \cup {NULL} /\ pkt["apps"] \in Buffers \cup {NULL}
      /\ pkt["uart_rx"] \in Buffers \cup {NULL}
  BY <1>0, ChainParts DEF PktType
<1>2. /\ a \in Seq(Buffers) /\ IsInjective(a) /\ Range(a) = {pkt["udp_tx"]} \ {NULL}
      /\ c \in Seq(Buffers) /\ IsInjective(c) /\ Range(c) = {pkt["apps"]} \ {NULL}
      /\ Len(a) \in Nat /\ Len(a) <= 1 /\ Len(c) \in Nat /\ Len(c) <= 1
  BY <1>1, OneType
<1>3. /\ e \in Seq(Buffers) /\ IsInjective(e) /\ Range(e) \subseteq {pkt["uart_rx"]} \ {NULL}
      /\ pc["uart_rx"] # "put" => Range(e) = {} /\ Len(e) = 0
  <2>1. CASE pc["uart_rx"] = "put"
    BY <1>1, <2>1, OneType DEF InFeed
  <2>2. CASE pc["uart_rx"] # "put"
    <3>1. e = One(NULL)
      BY <2>2 DEF InFeed, One
    <3>2. One(NULL) \in Seq(Buffers) /\ IsInjective(One(NULL)) /\ Range(One(NULL)) = {NULL} \ {NULL}
      BY OneType
    <3>3. Len(One(NULL)) = 0
      BY DEF One
    <3> QED  BY <3>1, <3>2, <3>3
  <2> QED  BY <2>1, <2>2
<1>4. /\ AppsToUDP \in Seq(Buffers) /\ IsInjective(AppsToUDP)
      /\ UARTtoApps \in Seq(Buffers) /\ IsInjective(UARTtoApps)
      /\ mem \in [Buffers -> Contents] /\ QueuesFit
  BY ChainParts DEF QueueTypes
<1>5. /\ Apart2(a, AppsToUDP) /\ Apart2(a, c) /\ Apart2(a, UARTtoApps) /\ Apart2(a, e)
      /\ Apart2(AppsToUDP, c) /\ Apart2(AppsToUDP, UARTtoApps) /\ Apart2(AppsToUDP, e)
      /\ Apart2(c, UARTtoApps) /\ Apart2(c, e) /\ Apart2(UARTtoApps, e)
  <2>1. pkt["udp_tx"] # NULL => pkt["udp_tx"] # pkt["apps"] /\ pkt["udp_tx"] # pkt["uart_rx"]
    BY <1>0, ChainParts
  <2>2. pkt["apps"] # NULL => pkt["apps"] # pkt["uart_rx"]
    BY <1>0, ChainParts
  <2> HIDE DEF a, c, e
  <2>3. \A t \in {"udp_tx", "apps", "uart_rx"} : pkt[t] # NULL =>
          pkt[t] \notin Range(UARTtoApps) /\ pkt[t] \notin Range(AppsToUDP)
    BY <1>0, ChainParts
  <2>4. Range(UARTtoApps) \cap Range(AppsToUDP) = {}
    BY ChainParts
  <2> QED  BY <1>2, <1>3, <2>1, <2>2, <2>3, <2>4 DEF Apart2
<1> DEFINE ab == a \o AppsToUDP
           abc == ab \o c
           abcd == abc \o UARTtoApps
           all == abcd \o e
<1>6. UdpChain = all
  BY DEF UdpChain, InFeed
<1> HIDE DEF a, c, e
<1>7. /\ ab \in Seq(Buffers) /\ IsInjective(ab) /\ Range(ab) = Range(a) \cup Range(AppsToUDP)
      /\ Len(ab) = Len(a) + Len(AppsToUDP) /\ Len(AppsToUDP) \in Nat
      /\ ContentsOf(mem, ab) = ContentsOf(mem, a) \o ContentsOf(mem, AppsToUDP)
  BY <1>2, <1>4, <1>5, TwoParts DEF Apart2
<1> HIDE DEF ab
<1>8. Apart2(ab, c) /\ Apart2(ab, UARTtoApps) /\ Apart2(ab, e)
  BY <1>5, <1>7 DEF Apart2
<1>9. /\ abc \in Seq(Buffers) /\ IsInjective(abc) /\ Range(abc) = Range(ab) \cup Range(c)
      /\ Len(abc) = Len(ab) + Len(c)
      /\ ContentsOf(mem, abc) = ContentsOf(mem, ab) \o ContentsOf(mem, c)
  <2>1. /\ ab \in Seq(Buffers) /\ c \in Seq(Buffers) /\ IsInjective(ab) /\ IsInjective(c)
        /\ Range(ab) \cap Range(c) = {} /\ mem \in [Buffers -> Contents]
    BY <1>2, <1>4, <1>7, <1>8 DEF Apart2
  <2> QED  BY <2>1, TwoParts
<1> HIDE DEF abc
<1>10. Apart2(abc, UARTtoApps) /\ Apart2(abc, e)
  BY <1>5, <1>8, <1>9 DEF Apart2
<1>11. /\ abcd \in Seq(Buffers) /\ IsInjective(abcd)
       /\ Range(abcd) = Range(abc) \cup Range(UARTtoApps)
       /\ Len(abcd) = Len(abc) + Len(UARTtoApps) /\ Len(UARTtoApps) \in Nat
       /\ ContentsOf(mem, abcd) = ContentsOf(mem, abc) \o ContentsOf(mem, UARTtoApps)
  <2>1. /\ abc \in Seq(Buffers) /\ UARTtoApps \in Seq(Buffers)
        /\ IsInjective(abc) /\ IsInjective(UARTtoApps)
        /\ Range(abc) \cap Range(UARTtoApps) = {} /\ mem \in [Buffers -> Contents]
    BY <1>4, <1>9, <1>10 DEF Apart2
  <2> QED  BY <2>1, TwoParts
<1> HIDE DEF abcd
<1>12. Apart2(abcd, e)
  BY <1>5, <1>10, <1>11 DEF Apart2
<1>13. /\ all \in Seq(Buffers) /\ IsInjective(all) /\ Range(all) = Range(abcd) \cup Range(e)
       /\ Len(all) = Len(abcd) + Len(e)
       /\ ContentsOf(mem, all) = ContentsOf(mem, abcd) \o ContentsOf(mem, e)
  BY <1>3, <1>4, <1>11, <1>12, TwoParts DEF Apart2
<1> HIDE DEF all
<1>14. pc["uart_rx"] # "put" => Len(UdpChain) < 2 * QCap + 3
  BY <1>2, <1>3, <1>4, <1>6, <1>7, <1>9, <1>11, <1>13, Parameters DEF QueuesFit
<1>15. Range(UdpChain) = Range(a) \cup Range(AppsToUDP) \cup Range(c)
                           \cup Range(UARTtoApps) \cup Range(e)
  BY <1>6, <1>7, <1>9, <1>11, <1>13
<1>16. ASSUME NEW b \in Range(UdpChain)
       PROVE  /\ b \notin Range(pool)
              /\ \A t \in Threads : b = pkt[t] =>
                   t \in {"udp_tx", "apps"} \/ (t = "uart_rx" /\ pc["uart_rx"] = "put")
  <2>1. CASE b \in Range(AppsToUDP) \cup Range(UARTtoApps)
    <3>1. b # NULL
      <4>1. Range(AppsToUDP) \subseteq Buffers /\ Range(UARTtoApps) \subseteq Buffers
        BY <1>4, RangeOfSeq
      <4> QED  BY <2>1, <4>1, Parameters
    <3> QED  BY <2>1, <3>1, ChainParts
  <2>2. CASE b \in Range(a) \cup Range(c)
    BY <1>0, <1>2, <2>2, ChainParts
  <2>3. CASE b \in Range(e)
    BY <1>0, <1>3, <2>3, ChainParts
  <2> QED  BY <1>15, <2>1, <2>2, <2>3
<1>17. LinkToUdp = ContentsOf(mem, UdpChain)
  <2>1. \A b : ContentsOf(mem, <<b>>) = <<mem[b]>>
    BY DEF ContentsOf
  <2>2. ContentsOf(mem, <<>>) = <<>>
    BY DEF ContentsOf
  <2>3. \A t : PacketOf(t) = ContentsOf(mem, One(pkt[t]))
    BY <2>1, <2>2 DEF PacketOf, One
  <2>4. \A q : PacketsOf(q) = ContentsOf(mem, q)
    BY DEF PacketsOf, ContentsOf
  <2>5. (IF pc["uart_rx"] = "put" THEN PacketOf("uart_rx") ELSE <<>>) = ContentsOf(mem, e)
    BY <2>2, <2>3 DEF InFeed, e
  <2>6. LinkToUdp = ContentsOf(mem, a) \o ContentsOf(mem, AppsToUDP) \o ContentsOf(mem, c)
                      \o ContentsOf(mem, UARTtoApps) \o ContentsOf(mem, e)
    BY <2>3, <2>4, <2>5, Zenon DEF LinkToUdp, a, c
  <2> QED  BY <1>6, <1>7, <1>9, <1>11, <1>13, <2>6
<1> QED  BY <1>6, <1>13, <1>14, <1>16, <1>17

LEMMA UartChainFacts ==
  ASSUME ChainInv
  PROVE  /\ UartChain \in Seq(Buffers) /\ IsInjective(UartChain)
         /\ Range(UartChain)
              = Range(UDPtoUART) \cup ({pkt["udp_rx"], pkt["uart_tx"]} \ {NULL})
         /\ \A b \in Range(UartChain) :
              /\ b \notin Range(pool)
              /\ \A t \in Threads : b = pkt[t] => t \in {"uart_tx", "udp_rx"}
         /\ Len(UartChain) = Len(UDPtoUART) + Held("uart_tx") + Held("udp_rx")
         /\ pkt["udp_rx"] = NULL => Len(UartChain) < QCap + 2
         /\ LinkToUart = ContentsOf(mem, UartChain)
<1> DEFINE a == One(pkt["uart_tx"])
           e == One(pkt["udp_rx"])
<1>0. {"uart_tx", "udp_rx"} \subseteq Threads
  BY DEF Threads
<1>1. pkt["uart_tx"] \in Buffers \cup {NULL} /\ pkt["udp_rx"] \in Buffers \cup {NULL}
  BY <1>0, ChainParts DEF PktType
<1>2. /\ a \in Seq(Buffers) /\ IsInjective(a) /\ Range(a) = {pkt["uart_tx"]} \ {NULL}
      /\ e \in Seq(Buffers) /\ IsInjective(e) /\ Range(e) = {pkt["udp_rx"]} \ {NULL}
  BY <1>1, OneType
<1>3. Len(a) = Held("uart_tx") /\ Len(e) = Held("udp_rx")
  BY DEF One, Held
<1>4. /\ UDPtoUART \in Seq(Buffers) /\ IsInjective(UDPtoUART)
      /\ mem \in [Buffers -> Contents] /\ QueuesFit
  BY ChainParts DEF QueueTypes
<1>5. Apart2(a, UDPtoUART) /\ Apart2(a, e) /\ Apart2(UDPtoUART, e)
  <2>1. pkt["uart_tx"] # NULL => pkt["uart_tx"] # pkt["udp_rx"]
    BY <1>0, ChainParts
  <2> HIDE DEF a, e
  <2>2. \A t \in {"uart_tx", "udp_rx"} : pkt[t] # NULL => pkt[t] \notin Range(UDPtoUART)
    BY <1>0, ChainParts
  <2> QED  BY <1>2, <2>1, <2>2 DEF Apart2
<1> DEFINE ab == a \o UDPtoUART
           all == ab \o e
<1>6. UartChain = all
  BY DEF UartChain
<1> HIDE DEF a, e
<1>7. /\ ab \in Seq(Buffers) /\ IsInjective(ab) /\ Range(ab) = Range(a) \cup Range(UDPtoUART)
      /\ Len(ab) = Len(a) + Len(UDPtoUART) /\ Len(UDPtoUART) \in Nat
      /\ ContentsOf(mem, ab) = ContentsOf(mem, a) \o ContentsOf(mem, UDPtoUART)
  BY <1>2, <1>4, <1>5, TwoParts DEF Apart2
<1> HIDE DEF ab
<1>8. /\ all \in Seq(Buffers) /\ IsInjective(all) /\ Range(all) = Range(ab) \cup Range(e)
      /\ Len(all) = Len(ab) + Len(e)
      /\ ContentsOf(mem, all) = ContentsOf(mem, ab) \o ContentsOf(mem, e)
  <2>1. /\ ab \in Seq(Buffers) /\ e \in Seq(Buffers) /\ IsInjective(ab) /\ IsInjective(e)
        /\ Range(ab) \cap Range(e) = {} /\ mem \in [Buffers -> Contents]
    BY <1>2, <1>4, <1>5, <1>7 DEF Apart2
  <2> QED  BY <2>1, TwoParts
<1> HIDE DEF all
<1>9. Len(UartChain) = Len(UDPtoUART) + Held("uart_tx") + Held("udp_rx")
  BY <1>0, <1>3, <1>6, <1>7, <1>8, HeldType
<1>10. pkt["udp_rx"] = NULL => Len(UartChain) < QCap + 2
  <2>1. pkt["udp_rx"] = NULL => Held("udp_rx") = 0
    BY DEF Held
  <2> QED  BY <1>0, <1>4, <1>7, <1>9, <2>1, HeldType, Parameters DEF QueuesFit
<1>11. Range(UartChain) = Range(a) \cup Range(UDPtoUART) \cup Range(e)
  BY <1>6, <1>7, <1>8
<1>12. ASSUME NEW b \in Range(UartChain)
       PROVE  /\ b \notin Range(pool)
              /\ \A t \in Threads : b = pkt[t] => t \in {"uart_tx", "udp_rx"}
  <2>1. CASE b \in Range(UDPtoUART)
    <3>1. b # NULL
      <4>1. Range(UDPtoUART) \subseteq Buffers
        BY <1>4, RangeOfSeq
      <4> QED  BY <2>1, <4>1, Parameters
    <3> QED  BY <2>1, <3>1, ChainParts
  <2>2. CASE b \in Range(a) \cup Range(e)
    BY <1>0, <1>2, <2>2, ChainParts
  <2> QED  BY <1>11, <2>1, <2>2
<1>13. LinkToUart = ContentsOf(mem, UartChain)
  <2>1. \A b : ContentsOf(mem, <<b>>) = <<mem[b]>>
    BY DEF ContentsOf
  <2>2. ContentsOf(mem, <<>>) = <<>>
    BY DEF ContentsOf
  <2>3. \A t : PacketOf(t) = ContentsOf(mem, One(pkt[t]))
    BY <2>1, <2>2 DEF PacketOf, One
  <2>4. \A q : PacketsOf(q) = ContentsOf(mem, q)
    BY DEF PacketsOf, ContentsOf
  <2>5. LinkToUart = ContentsOf(mem, a) \o ContentsOf(mem, UDPtoUART) \o ContentsOf(mem, e)
    BY <2>3, <2>4, Zenon DEF LinkToUart, a, e
  <2> QED  BY <1>6, <1>7, <1>8, <2>5
<1>14. Range(UartChain) = Range(UDPtoUART) \cup ({pkt["udp_rx"], pkt["uart_tx"]} \ {NULL})
  BY <1>2, <1>11
<1> QED  BY <1>6, <1>8, <1>9, <1>10, <1>12, <1>13, <1>14

(* The packet at the end of a chain leaves.                                *)
LEMMA TailOfConcat ==
  ASSUME NEW c \in Seq(Buffers), NEW d \in Seq(Buffers), c # <<>>
  PROVE  /\ c \o d \in Seq(Buffers) /\ c \o d # <<>> /\ Tail(c \o d) = Tail(c) \o d
<1> DEFINE e == c \o d
           f == Tail(c) \o d
<1>1. /\ e \in Seq(Buffers) /\ Len(e) = Len(c) + Len(d)
      /\ \A i \in 1 .. Len(c) + Len(d) : e[i] = IF i <= Len(c) THEN c[i] ELSE d[i - Len(c)]
      /\ Len(c) \in Nat /\ Len(d) \in Nat
  BY ConcatProperties
<1>2. /\ Tail(c) \in Seq(Buffers) /\ Len(Tail(c)) = Len(c) - 1 /\ Len(c) > 0
      /\ \A i \in 1 .. Len(c) - 1 : Tail(c)[i] = c[i + 1]
  BY HeadTailProperties
<1> HIDE DEF e
<1>3. e # <<>>
  BY <1>1, <1>2
<1>4. /\ Tail(e) \in Seq(Buffers) /\ Len(Tail(e)) = Len(e) - 1
      /\ \A i \in 1 .. Len(e) - 1 : Tail(e)[i] = e[i + 1]
  BY <1>1, <1>3, HeadTailProperties
<1>5. /\ f \in Seq(Buffers) /\ Len(f) = Len(c) - 1 + Len(d)
      /\ \A i \in 1 .. Len(c) - 1 + Len(d) :
           f[i] = IF i <= Len(c) - 1 THEN Tail(c)[i] ELSE d[i - (Len(c) - 1)]
  BY <1>2, ConcatProperties
<1> HIDE DEF f
<1>6. ASSUME NEW i \in 1 .. Len(e) - 1 PROVE Tail(e)[i] = f[i]
  <2>1. Tail(e)[i] = e[i + 1] /\ i + 1 \in 1 .. Len(c) + Len(d)
    BY <1>1, <1>4
  <2>2. CASE i <= Len(c) - 1
    BY <1>1, <1>2, <1>5, <2>1, <2>2
  <2>3. CASE ~(i <= Len(c) - 1)
    <3>1. (i + 1) - Len(c) = i - (Len(c) - 1) /\ ~(i + 1 <= Len(c))
      BY <1>1, <2>3
    <3>2. e[i + 1] = d[(i + 1) - Len(c)]
      BY <1>1, <2>1, <3>1
    <3>3. i \in 1 .. Len(c) - 1 + Len(d)
      BY <1>1
    <3>4. f[i] = d[i - (Len(c) - 1)]
      BY <1>5, <2>3, <3>3
    <3> QED  BY <2>1, <3>1, <3>2, <3>4
  <2> QED  BY <2>2, <2>3
<1>7. Tail(e) = f
  BY <1>1, <1>4, <1>5, <1>6, SeqEqual
<1> QED  BY <1>1, <1>3, <1>7 DEF e, f

-----------------------------------------------------------------------------
(* What a step does to the two chains.                                     *)

UdpStep == ChainStep(UdpChain, mem, UdpChain', mem', 2 * QCap + 3)
UartStep == ChainStep(UartChain, mem, UartChain', mem', QCap + 2)

(* A chain that stays as it is, with contents that do.                     *)
LEMMA ChainStays ==
  ASSUME NEW c \in Seq(Buffers), NEW m, NEW n, NEW cap, \A b \in Range(c) : n[b] = m[b]
  PROVE  ChainStep(c, m, c, n, cap)
<1>1. \A i \in 1 .. Len(c) : c[i] \in Range(c)
  <2>1. DOMAIN c = 1 .. Len(c)
    OBVIOUS
  <2> QED  BY <2>1 DEF Range
<1> QED  BY <1>1 DEF ChainStep

LEMMA ChainLeaves ==
  ASSUME NEW c, NEW m, NEW cap, c # <<>> PROVE ChainStep(c, m, Tail(c), m, cap)
BY DEF ChainStep

LEMMA ChainGrows ==
  ASSUME NEW c \in Seq(Buffers), NEW m, NEW n, NEW cap, NEW b \in Buffers,
         Len(c) < cap, \A x \in Range(c) : n[x] = m[x]
  PROVE  ChainStep(c, m, Append(c, b), n, cap)
<1>1. \A i \in 1 .. Len(c) : c[i] \in Range(c)
  <2>1. DOMAIN c = 1 .. Len(c)
    OBVIOUS
  <2> QED  BY <2>1 DEF Range
<1> QED  BY <1>1 DEF ChainStep

LEMMA Moved ==
  ASSUME PktType, PcType, NEW t \in Threads, NEW x, NEW l,
         pkt' = [pkt EXCEPT ![t] = x], Go(t, l)
  PROVE  /\ pkt'[t] = x /\ pc'[t] = l
         /\ \A u \in Threads \ {t} : pkt'[u] = pkt[u] /\ pc'[u] = pc[u]
BY DEF PktType, PcType, Go

LEMMA UdpSame ==
  ASSUME UNCHANGED <<UARTtoApps, AppsToUDP>>,
         pkt'["udp_tx"] = pkt["udp_tx"], pkt'["apps"] = pkt["apps"], InFeed' = InFeed
  PROVE  UdpChain' = UdpChain
BY DEF UdpChain, InFeed

LEMMA UartSame ==
  ASSUME UNCHANGED UDPtoUART, pkt'["uart_tx"] = pkt["uart_tx"],
         pkt'["udp_rx"] = pkt["udp_rx"]
  PROVE  UartChain' = UartChain
BY DEF UartChain

LEMMA LastSame ==
  ASSUME pkt'["uart_rx"] = pkt["uart_rx"], pc'["uart_rx"] = pc["uart_rx"]
  PROVE  InFeed' = InFeed
BY DEF InFeed

(* Neither way sees what changes outside its chain.                        *)
LEMMA UdpStays ==
  ASSUME ChainInv, UdpChain' = UdpChain, \A b \in Range(UdpChain) : mem'[b] = mem[b]
  PROVE  UdpStep
BY UdpChainFacts, ChainStays DEF UdpStep

LEMMA UartStays ==
  ASSUME ChainInv, UartChain' = UartChain, \A b \in Range(UartChain) : mem'[b] = mem[b]
  PROVE  UartStep
BY UartChainFacts, ChainStays DEF UartStep

LEMMA ChainNames ==
  /\ "uart_rx" \in Threads /\ "uart_tx" \in Threads /\ "udp_rx" \in Threads
  /\ "udp_tx" \in Threads /\ "apps" \in Threads
  /\ \A t \in Threads : t \in {"uart_rx", "uart_tx", "udp_rx", "udp_tx", "apps"}
BY DEF Threads

(* Nothing happens to the packets.                                         *)
LEMMA StutterLink ==
  ASSUME ChainInv, UNCHANGED <<mem, pkt, queues, pc>>
  PROVE  UdpStep /\ UartStep /\ QueuesFit'
<1>1. UdpChain' = UdpChain
  BY UdpSame, LastSame DEF queues
<1>2. UartChain' = UartChain
  BY UartSame DEF queues
<1>3. QueuesFit'
  BY DEF queues, QueuesFit, ChainInv
<1> QED  BY <1>1, <1>2, <1>3, UdpStays, UartStays

(* uart_rx fetches a packet, works on it, and gives it up: nothing is on   *)
(* its way yet.                                                            *)
LEMMA FeedMoveLink ==
  ASSUME ChainInv, NEW x, NEW l, pkt' = [pkt EXCEPT !["uart_rx"] = x], Go("uart_rx", l),
         pc["uart_rx"] # "put", l # "put", UNCHANGED <<mem, queues>>
  PROVE  UdpStep /\ UartStep /\ QueuesFit'
<1>1. /\ pkt'["udp_tx"] = pkt["udp_tx"] /\ pkt'["apps"] = pkt["apps"]
      /\ pkt'["uart_tx"] = pkt["uart_tx"] /\ pkt'["udp_rx"] = pkt["udp_rx"]
      /\ pc'["uart_rx"] = l
  <2>1. PktType /\ PcType /\ "uart_rx" \in Threads
    BY ChainParts, ChainNames
  <2>2. /\ pc'["uart_rx"] = l
        /\ \A u \in Threads \ {"uart_rx"} : pkt'[u] = pkt[u] /\ pc'[u] = pc[u]
    BY <2>1, Moved
  <2> QED  BY <2>2 DEF Threads
<1>2. InFeed' = InFeed
  BY <1>1 DEF InFeed
<1>3. UdpChain' = UdpChain /\ UartChain' = UartChain
  BY <1>1, <1>2, UdpSame, UartSame DEF queues
<1>4. QueuesFit'
  BY DEF queues, QueuesFit, ChainInv
<1> QED  BY <1>3, <1>4, UdpStays, UartStays

LEMMA FeedFetchLink ==
  ASSUME ChainInv, FeedFetch PROVE UdpStep /\ UartStep /\ QueuesFit'
<1>1. pc["uart_rx"] # "put" /\ UNCHANGED <<mem, queues>> /\ bp_fetch("uart_rx")
  BY DEF FeedFetch, At
<1>2. PICK l \in {"frame", "retry"} : Go("uart_rx", l)
  BY DEF FeedFetch
<1>3. PICK x : pkt' = [pkt EXCEPT !["uart_rx"] = x]
  <2>1. CASE pool # <<>>
    BY <1>1, <2>1 DEF bp_fetch
  <2>2. CASE pool = <<>>
    <3>1. pkt' = pkt /\ pkt \in [Threads -> Buffers \cup {NULL}]
      BY <1>1, <2>2, ChainParts DEF bp_fetch, PktType
    <3>2. pkt' = [pkt EXCEPT !["uart_rx"] = pkt["uart_rx"]]
      BY <3>1
    <3> QED  BY <3>2
  <2> QED  BY <2>1, <2>2
<1> QED  BY <1>1, <1>2, <1>3, FeedMoveLink

LEMMA FeedAbortLink ==
  ASSUME ChainInv, FeedAbort PROVE UdpStep /\ UartStep /\ QueuesFit'
BY FeedMoveLink DEF FeedAbort, At, bp_relinquish

LEMMA FeedAppendLink ==
  ASSUME ChainInv, FeedAppend PROVE UdpStep /\ UartStep /\ QueuesFit'
<1>1. pc["uart_rx"] = "frame" /\ UNCHANGED <<pkt, queues, pc>>
  BY DEF FeedAppend, At
<1>2. PICK c : mem' = [mem EXCEPT ![pkt["uart_rx"]] = c]
  BY DEF FeedAppend
<1>3. UdpChain' = UdpChain /\ UartChain' = UartChain
  BY <1>1, UdpSame, LastSame, UartSame DEF queues
<1>4. pkt["uart_rx"] \notin Range(UdpChain) /\ pkt["uart_rx"] \notin Range(UartChain)
  BY <1>1, ChainNames, UdpChainFacts, UartChainFacts
<1>5. \A b \in Buffers : b # pkt["uart_rx"] => mem'[b] = mem[b]
  BY <1>2, ChainParts
<1>6. Range(UdpChain) \subseteq Buffers /\ Range(UartChain) \subseteq Buffers
  BY UdpChainFacts, UartChainFacts, RangeOfSeq
<1>7. QueuesFit'
  BY <1>1 DEF queues, QueuesFit, ChainInv
<1> QED  BY <1>3, <1>4, <1>5, <1>6, <1>7, UdpStays, UartStays

(* The parts of the chains, and what becomes of those that a thread does   *)
(* not touch.                                                              *)
LEMMA PartTypes ==
  ASSUME ChainInv
  PROVE  /\ One(pkt["udp_tx"]) \in Seq(Buffers) /\ One(pkt["apps"]) \in Seq(Buffers)
         /\ One(pkt["uart_tx"]) \in Seq(Buffers) /\ One(pkt["udp_rx"]) \in Seq(Buffers)
         /\ UARTtoApps \in Seq(Buffers) /\ AppsToUDP \in Seq(Buffers)
         /\ UDPtoUART \in Seq(Buffers) /\ InFeed \in Seq(Buffers) /\ <<>> \in Seq(Buffers)
<1>1. /\ pkt["udp_tx"] \in Buffers \cup {NULL} /\ pkt["apps"] \in Buffers \cup {NULL}
      /\ pkt["uart_tx"] \in Buffers \cup {NULL} /\ pkt["udp_rx"] \in Buffers \cup {NULL}
      /\ pkt["uart_rx"] \in Buffers \cup {NULL}
  BY ChainNames, ChainParts DEF PktType
<1>2. <<>> \in Seq(Buffers)
  OBVIOUS
<1>3. InFeed \in Seq(Buffers)
  BY <1>1, <1>2, OneType DEF InFeed
<1> QED  BY <1>1, <1>2, <1>3, OneType, ChainParts DEF QueueTypes

LEMMA OthersStay ==
  ASSUME ChainInv, NEW t \in Threads, NEW x, NEW l,
         pkt' = [pkt EXCEPT ![t] = x], Go(t, l)
  PROVE  /\ pkt'[t] = x /\ pc'[t] = l
         /\ t # "uart_rx" => InFeed' = InFeed
         /\ t # "udp_tx" => pkt'["udp_tx"] = pkt["udp_tx"]
         /\ t # "apps" => pkt'["apps"] = pkt["apps"]
         /\ t # "uart_tx" => pkt'["uart_tx"] = pkt["uart_tx"]
         /\ t # "udp_rx" => pkt'["udp_rx"] = pkt["udp_rx"]
<1>1. /\ pkt'[t] = x /\ pc'[t] = l
      /\ \A u \in Threads \ {t} : pkt'[u] = pkt[u] /\ pc'[u] = pc[u]
  BY ChainParts, Moved
<1>2. t # "uart_rx" => InFeed' = InFeed
  BY <1>1, ChainNames, LastSame
<1> QED  BY <1>1, <1>2, ChainNames

(* The buffer that a working thread holds, and an idle thread's none.      *)
LEMMA WorksOn ==
  ASSUME ChainInv, NEW t \in Threads, NEW l, At(t, l)
  PROVE  /\ l \in {"start", "retry"} => pkt[t] = NULL /\ One(pkt[t]) = <<>>
         /\ l \notin {"start", "retry"} =>
              pkt[t] \in Buffers /\ One(pkt[t]) = <<pkt[t]>>
         /\ One(NULL) = <<>>
<1>1. /\ l \in {"start", "retry"} => pkt[t] = NULL
      /\ l \notin {"start", "retry"} => pkt[t] # NULL
  BY PacketAt DEF ChainInv
<1> QED  BY <1>1, ChainParts DEF One

LEMMA FeedCompleteLink ==
  ASSUME ChainInv, FeedComplete PROVE UdpStep /\ UartStep /\ QueuesFit'
<1>1. At("uart_rx", "frame") /\ pc["uart_rx"] = "frame" /\ UNCHANGED <<mem, queues>>
  BY DEF FeedComplete, At
<1>2. CASE bp_relinquish("uart_rx") /\ Go("uart_rx", "start")
  BY <1>1, <1>2, FeedMoveLink DEF bp_relinquish
<1>3. CASE UNCHANGED pkt /\ Go("uart_rx", "put")
  <2>1. pkt["uart_rx"] \in Buffers /\ One(pkt["uart_rx"]) = <<pkt["uart_rx"]>>
    BY <1>1, ChainNames, WorksOn
  <2>2. pc'["uart_rx"] = "put"
    BY <1>3, ChainNames, ChainParts DEF PcType, Go
  <2>3. InFeed = <<>> /\ InFeed' = <<pkt["uart_rx"]>>
    BY <1>1, <1>3, <2>1, <2>2 DEF InFeed
  <2> DEFINE C == One(pkt["udp_tx"]) \o AppsToUDP \o One(pkt["apps"]) \o UARTtoApps
  <2>4. C \in Seq(Buffers)
    BY PartTypes, ConcatProperties
  <2>5. UdpChain = C \o InFeed /\ UdpChain' = C \o InFeed'
    BY <1>1, <1>3 DEF UdpChain, InFeed, queues
  <2> HIDE DEF C
  <2>6. UdpChain = C
    BY <2>3, <2>4, <2>5, ConcatEmptySeq
  <2>7. UdpChain' = Append(UdpChain, pkt["uart_rx"])
    BY <2>1, <2>3, <2>4, <2>5, <2>6, AppendIsConcat
  <2>8. Len(UdpChain) < 2 * QCap + 3 /\ UdpChain \in Seq(Buffers)
    BY <1>1, UdpChainFacts
  <2>9. UdpStep
    BY <1>1, <2>1, <2>7, <2>8, ChainGrows DEF UdpStep
  <2>10. UartChain' = UartChain
    BY <1>1, <1>3, UartSame DEF queues
  <2>11. QueuesFit'
    BY <1>1 DEF queues, QueuesFit, ChainInv
  <2> QED  BY <1>1, <2>9, <2>10, <2>11, UartStays
<1> QED  BY <1>2, <1>3 DEF FeedComplete

(* k_msgq_put: the queue takes the buffer, which was next in the chain.    *)
LEMMA PutFits ==
  ASSUME ChainInv,
         \/ /\ Len(UARTtoApps) < QCap /\ \E b \in Buffers : UARTtoApps' = Append(UARTtoApps, b)
            /\ UNCHANGED <<AppsToUDP, UDPtoUART>>
         \/ /\ Len(AppsToUDP) < QCap /\ \E b \in Buffers : AppsToUDP' = Append(AppsToUDP, b)
            /\ UNCHANGED <<UARTtoApps, UDPtoUART>>
         \/ /\ Len(UDPtoUART) < QCap /\ \E b \in Buffers : UDPtoUART' = Append(UDPtoUART, b)
            /\ UNCHANGED <<UARTtoApps, AppsToUDP>>
  PROVE  QueuesFit'
<1>1. \A q \in Seq(Buffers), b \in Buffers :
        Len(q) < QCap => Len(Append(q, b)) <= QCap
  BY SeqFacts, Parameters
<1> QED  BY <1>1, PartTypes, ChainParts DEF QueuesFit

LEMMA GetFits ==
  ASSUME ChainInv,
         \/ /\ UARTtoApps # <<>> /\ UARTtoApps' = Tail(UARTtoApps)
            /\ UNCHANGED <<AppsToUDP, UDPtoUART>>
         \/ /\ AppsToUDP # <<>> /\ AppsToUDP' = Tail(AppsToUDP)
            /\ UNCHANGED <<UARTtoApps, UDPtoUART>>
         \/ /\ UDPtoUART # <<>> /\ UDPtoUART' = Tail(UDPtoUART)
            /\ UNCHANGED <<UARTtoApps, AppsToUDP>>
  PROVE  QueuesFit'
<1>1. \A q \in Seq(Buffers) : q # <<>> /\ Len(q) <= QCap => Len(Tail(q)) <= QCap
  BY SeqFacts, Parameters
<1> QED  BY <1>1, PartTypes, ChainParts DEF QueuesFit

LEMMA FeedPutLink ==
  ASSUME ChainInv, FeedPut PROVE UdpStep /\ UartStep /\ QueuesFit'
<1>1. /\ At("uart_rx", "put") /\ pc["uart_rx"] = "put" /\ Go("uart_rx", "start")
      /\ UNCHANGED <<mem, AppsToUDP, UDPtoUART>>
      /\ Len(UARTtoApps) < QCap /\ UARTtoApps' = Append(UARTtoApps, pkt["uart_rx"])
      /\ pkt' = [pkt EXCEPT !["uart_rx"] = NULL]
  BY DEF FeedPut, Put, At
<1>2. pkt["uart_rx"] \in Buffers /\ One(pkt["uart_rx"]) = <<pkt["uart_rx"]>>
  BY <1>1, ChainNames, WorksOn
<1>3. /\ pc'["uart_rx"] = "start"
      /\ pkt'["udp_tx"] = pkt["udp_tx"] /\ pkt'["apps"] = pkt["apps"]
      /\ pkt'["uart_tx"] = pkt["uart_tx"] /\ pkt'["udp_rx"] = pkt["udp_rx"]
  <2>1. "uart_rx" \in Threads /\ Go("uart_rx", "start") /\ pkt' = [pkt EXCEPT !["uart_rx"] = NULL]
    BY <1>1, ChainNames
  <2> QED  BY <2>1, OthersStay
<1>4. InFeed = <<pkt["uart_rx"]>> /\ InFeed' = <<>>
  BY <1>1, <1>2, <1>3 DEF InFeed
<1> DEFINE C == One(pkt["udp_tx"]) \o AppsToUDP \o One(pkt["apps"])
<1>5. C \in Seq(Buffers)
  BY PartTypes, ConcatProperties
<1>6. UdpChain = (C \o UARTtoApps) \o InFeed /\ UdpChain' = (C \o UARTtoApps') \o InFeed'
  BY <1>1, <1>3 DEF UdpChain, InFeed
<1> HIDE DEF C
<1>7. UdpChain' = UdpChain
  BY <1>1, <1>2, <1>4, <1>5, <1>6, PartTypes, PutKeepsChain
<1>8. UartChain' = UartChain
  BY <1>1, <1>3, UartSame
<1>9. QueuesFit'
  BY <1>1, <1>2, PutFits
<1> QED  BY <1>1, <1>7, <1>8, <1>9, UdpStays, UartStays

LEMMA AppsGetLink ==
  ASSUME ChainInv, AppsGet PROVE UdpStep /\ UartStep /\ QueuesFit'
<1>1. /\ At("apps", "start") /\ Go("apps", "handle")
      /\ UNCHANGED <<mem, AppsToUDP, UDPtoUART>>
      /\ UARTtoApps # <<>> /\ UARTtoApps' = Tail(UARTtoApps)
      /\ pkt' = [pkt EXCEPT !["apps"] = Head(UARTtoApps)]
  BY DEF AppsGet, Get
<1>2. One(pkt["apps"]) = <<>>
  BY <1>1, ChainNames, WorksOn
<1>3. /\ pkt'["apps"] = Head(UARTtoApps) /\ InFeed' = InFeed
      /\ pkt'["udp_tx"] = pkt["udp_tx"]
      /\ pkt'["uart_tx"] = pkt["uart_tx"] /\ pkt'["udp_rx"] = pkt["udp_rx"]
  <2>1. /\ "apps" \in Threads /\ Go("apps", "handle")
        /\ pkt' = [pkt EXCEPT !["apps"] = Head(UARTtoApps)]
    BY <1>1, ChainNames
  <2> QED  BY <2>1, OthersStay
<1>4. One(pkt'["apps"]) = <<Head(UARTtoApps)>>
  <2>1. Head(UARTtoApps) \in Buffers
    BY <1>1, PartTypes, HeadAndTail
  <2> QED  BY <1>3, <2>1, Parameters DEF One
<1> DEFINE C == One(pkt["udp_tx"]) \o AppsToUDP
<1>5. C \in Seq(Buffers)
  BY PartTypes, ConcatProperties
<1>6. /\ UdpChain = ((C \o One(pkt["apps"])) \o UARTtoApps) \o InFeed
      /\ UdpChain' = ((C \o One(pkt'["apps"])) \o UARTtoApps') \o InFeed'
  BY <1>1, <1>3 DEF UdpChain, InFeed
<1> HIDE DEF C
<1>7. (C \o <<Head(UARTtoApps)>>) \o Tail(UARTtoApps) = (C \o <<>>) \o UARTtoApps
  BY <1>1, <1>5, PartTypes, GetKeepsChain
<1>8. UdpChain' = UdpChain
  BY <1>1, <1>2, <1>3, <1>4, <1>6, <1>7
<1>9. UartChain' = UartChain
  BY <1>1, <1>3, UartSame
<1>10. QueuesFit'
  BY <1>1, GetFits
<1> QED  BY <1>1, <1>8, <1>9, <1>10, UdpStays, UartStays

(* The set-up request restarts the firmware: nothing is on its way.        *)
LEMMA RebootLink ==
  ASSUME Reboot PROVE UdpStep /\ UartStep /\ QueuesFit'
<1>1. /\ UARTtoApps' = <<>> /\ AppsToUDP' = <<>> /\ UDPtoUART' = <<>>
      /\ \A t \in Threads : pkt'[t] = NULL /\ pc'[t] = "start"
  BY DEF Reboot, PoolReboot
<1>2. UdpChain' = <<>> \o <<>> \o <<>> \o <<>> \o <<>> /\ UartChain' = <<>> \o <<>> \o <<>>
  BY <1>1, ChainNames DEF UdpChain, UartChain, One
<1>3. UdpChain' = <<>> /\ UartChain' = <<>>
  <2>1. <<>> \o <<>> = <<>>
    OBVIOUS
  <2> QED  BY <1>2, <2>1
<1>4. QueuesFit'
  BY <1>1, Parameters DEF QueuesFit
<1> QED  BY <1>3, <1>4 DEF UdpStep, UartStep, ChainStep

LEMMA AppsHandleLink ==
  ASSUME ChainInv, AppsHandle PROVE UdpStep /\ UartStep /\ QueuesFit'
<1>1. CASE Reboot
  BY <1>1, RebootLink
<1>2. CASE Go("apps", "put") /\ UNCHANGED <<mem, pkt, queues>>
  <2>1. pkt \in [Threads -> Buffers \cup {NULL}] /\ "apps" \in Threads
    BY ChainParts, ChainNames DEF PktType
  <2>2. pkt' = [pkt EXCEPT !["apps"] = pkt["apps"]]
    BY <1>2, <2>1
  <2>3. InFeed' = InFeed
    BY <1>2, <2>1, <2>2, OthersStay
  <2>4. UdpChain' = UdpChain /\ UartChain' = UartChain
    BY <1>2, <2>3, UdpSame, UartSame DEF queues
  <2>5. QueuesFit'
    BY <1>2 DEF queues, QueuesFit, ChainInv
  <2> QED  BY <1>2, <2>4, <2>5, UdpStays, UartStays
<1> QED  BY <1>1, <1>2 DEF AppsHandle

LEMMA AppsPutLink ==
  ASSUME ChainInv, AppsPut PROVE UdpStep /\ UartStep /\ QueuesFit'
<1>1. /\ At("apps", "put") /\ Go("apps", "start")
      /\ UNCHANGED <<mem, UARTtoApps, UDPtoUART>>
      /\ Len(AppsToUDP) < QCap /\ AppsToUDP' = Append(AppsToUDP, pkt["apps"])
      /\ pkt' = [pkt EXCEPT !["apps"] = NULL]
  BY DEF AppsPut, Put
<1>2. pkt["apps"] \in Buffers /\ One(pkt["apps"]) = <<pkt["apps"]>>
  BY <1>1, ChainNames, WorksOn
<1>3. /\ pkt'["apps"] = NULL /\ InFeed' = InFeed
      /\ pkt'["udp_tx"] = pkt["udp_tx"]
      /\ pkt'["uart_tx"] = pkt["uart_tx"] /\ pkt'["udp_rx"] = pkt["udp_rx"]
  <2>1. "apps" \in Threads /\ Go("apps", "start") /\ pkt' = [pkt EXCEPT !["apps"] = NULL]
    BY <1>1, ChainNames
  <2> QED  BY <2>1, OthersStay
<1>4. One(pkt'["apps"]) = <<>>
  BY <1>3 DEF One
<1> DEFINE C == One(pkt["udp_tx"])
<1>5. /\ UdpChain = (((C \o AppsToUDP) \o One(pkt["apps"])) \o UARTtoApps) \o InFeed
      /\ UdpChain' = (((C \o AppsToUDP') \o One(pkt'["apps"])) \o UARTtoApps') \o InFeed'
  BY <1>1, <1>3 DEF UdpChain, InFeed
<1>6. C \in Seq(Buffers)
  BY PartTypes
<1> HIDE DEF C
<1>7. (C \o Append(AppsToUDP, pkt["apps"])) \o <<>> = (C \o AppsToUDP) \o <<pkt["apps"]>>
  BY <1>2, <1>6, PartTypes, PutKeepsChain
<1>8. UdpChain' = UdpChain
  BY <1>1, <1>2, <1>3, <1>4, <1>5, <1>7
<1>9. UartChain' = UartChain
  BY <1>1, <1>3, UartSame
<1>10. QueuesFit'
  BY <1>1, <1>2, PutFits
<1> QED  BY <1>1, <1>8, <1>9, <1>10, UdpStays, UartStays

LEMMA UdpTxGetLink ==
  ASSUME ChainInv, UdpTxGet PROVE UdpStep /\ UartStep /\ QueuesFit'
<1>1. /\ At("udp_tx", "start") /\ Go("udp_tx", "learn")
      /\ UNCHANGED <<mem, UARTtoApps, UDPtoUART>>
      /\ AppsToUDP # <<>> /\ AppsToUDP' = Tail(AppsToUDP)
      /\ pkt' = [pkt EXCEPT !["udp_tx"] = Head(AppsToUDP)]
  BY DEF UdpTxGet, Get
<1>2. One(pkt["udp_tx"]) = <<>>
  BY <1>1, ChainNames, WorksOn
<1>3. /\ pkt'["udp_tx"] = Head(AppsToUDP) /\ InFeed' = InFeed
      /\ pkt'["apps"] = pkt["apps"]
      /\ pkt'["uart_tx"] = pkt["uart_tx"] /\ pkt'["udp_rx"] = pkt["udp_rx"]
  <2>1. /\ "udp_tx" \in Threads /\ Go("udp_tx", "learn")
        /\ pkt' = [pkt EXCEPT !["udp_tx"] = Head(AppsToUDP)]
    BY <1>1, ChainNames
  <2> QED  BY <2>1, OthersStay
<1>4. One(pkt'["udp_tx"]) = <<Head(AppsToUDP)>>
  <2>1. Head(AppsToUDP) \in Buffers
    BY <1>1, PartTypes, HeadAndTail
  <2> QED  BY <1>3, <2>1, Parameters DEF One
<1>5. /\ UdpChain = (One(pkt["udp_tx"]) \o AppsToUDP)
                        \o One(pkt["apps"]) \o UARTtoApps \o InFeed
      /\ UdpChain' = (One(pkt'["udp_tx"]) \o AppsToUDP')
                        \o One(pkt["apps"]) \o UARTtoApps \o InFeed
  BY <1>1, <1>3 DEF UdpChain, InFeed
<1>6. <<Head(AppsToUDP)>> \o Tail(AppsToUDP) = <<>> \o AppsToUDP
  BY <1>1, PartTypes, HeadAndTail, ConcatEmptySeq
<1>7. UdpChain' = UdpChain
  BY <1>1, <1>2, <1>4, <1>5, <1>6
<1>8. UartChain' = UartChain
  BY <1>1, <1>3, UartSame
<1>9. QueuesFit'
  BY <1>1, GetFits
<1> QED  BY <1>1, <1>7, <1>8, <1>9, UdpStays, UartStays

(* udp_tx is done with a packet.                                           *)
LEMMA UdpTxLeaveLink ==
  ASSUME ChainInv, NEW l, At("udp_tx", l), l # "start", l # "retry",
         pkt' = [pkt EXCEPT !["udp_tx"] = NULL], Go("udp_tx", "start"),
         UNCHANGED <<mem, queues>>
  PROVE  UdpStep /\ UartStep /\ QueuesFit'
<1>1. pkt["udp_tx"] \in Buffers /\ One(pkt["udp_tx"]) = <<pkt["udp_tx"]>>
  BY ChainNames, WorksOn
<1>2. /\ pkt'["udp_tx"] = NULL /\ InFeed' = InFeed
      /\ pkt'["apps"] = pkt["apps"]
      /\ pkt'["uart_tx"] = pkt["uart_tx"] /\ pkt'["udp_rx"] = pkt["udp_rx"]
  BY ChainNames, OthersStay
<1> DEFINE h == <<pkt["udp_tx"]>>
           p == One(pkt["apps"])
<1>3. UdpChain = (((h \o AppsToUDP) \o p) \o UARTtoApps) \o InFeed
  BY <1>1 DEF UdpChain, InFeed
<1>4. UdpChain' = (((Tail(h) \o AppsToUDP) \o p) \o UARTtoApps) \o InFeed
  <2>1. One(pkt'["udp_tx"]) = Tail(h)
    BY <1>2 DEF One
  <2>2. UdpChain' = (((One(pkt'["udp_tx"]) \o AppsToUDP) \o p) \o UARTtoApps) \o InFeed
    BY <1>2 DEF UdpChain, InFeed, queues
  <2> QED  BY <2>1, <2>2
<1>5. h \in Seq(Buffers) /\ h # <<>>
  BY <1>1
<1> HIDE DEF h
<1>6. p \in Seq(Buffers)
  BY PartTypes
<1> HIDE DEF p
<1>7. AppsToUDP \in Seq(Buffers) /\ UARTtoApps \in Seq(Buffers) /\ InFeed \in Seq(Buffers)
  BY PartTypes
<1> DEFINE ha == h \o AppsToUDP
<1>8. ha \in Seq(Buffers) /\ ha # <<>> /\ Tail(ha) = Tail(h) \o AppsToUDP
  BY <1>5, <1>7, TailOfConcat
<1> HIDE DEF ha
<1> DEFINE hap == ha \o p
<1>9. hap \in Seq(Buffers) /\ hap # <<>> /\ Tail(hap) = Tail(ha) \o p
  BY <1>6, <1>8, TailOfConcat
<1> HIDE DEF hap
<1> DEFINE hapu == hap \o UARTtoApps
<1>10. hapu \in Seq(Buffers) /\ hapu # <<>> /\ Tail(hapu) = Tail(hap) \o UARTtoApps
  BY <1>7, <1>9, TailOfConcat
<1> HIDE DEF hapu
<1>11. hapu \o InFeed # <<>> /\ Tail(hapu \o InFeed) = Tail(hapu) \o InFeed
  BY <1>7, <1>10, TailOfConcat
<1>12. UdpChain # <<>> /\ UdpChain' = Tail(UdpChain)
  BY <1>3, <1>4, <1>8, <1>9, <1>10, <1>11 DEF ha, hap, hapu
<1>13. UdpStep
  BY <1>12, ChainLeaves DEF UdpStep
<1>14. UartChain' = UartChain
  BY <1>2, UartSame DEF queues
<1>15. QueuesFit'
  BY DEF queues, QueuesFit, ChainInv
<1> QED  BY <1>13, <1>14, <1>15, UartStays

LEMMA UdpTxLearnLink ==
  ASSUME ChainInv, UdpTxLearn PROVE UdpStep /\ UartStep /\ QueuesFit'
<1>1. At("udp_tx", "learn") /\ UNCHANGED <<mem, queues>>
  BY DEF UdpTxLearn
<1>2. CASE bp_relinquish("udp_tx") /\ Go("udp_tx", "start")
  BY <1>1, <1>2, UdpTxLeaveLink DEF bp_relinquish
<1>3. CASE Go("udp_tx", "send") /\ UNCHANGED pkt
  <2>1. pkt \in [Threads -> Buffers \cup {NULL}] /\ "udp_tx" \in Threads
    BY ChainParts, ChainNames DEF PktType
  <2>2. pkt' = [pkt EXCEPT !["udp_tx"] = pkt["udp_tx"]]
    BY <1>3, <2>1
  <2>3. InFeed' = InFeed
    BY <1>3, <2>1, <2>2, OthersStay
  <2>4. UdpChain' = UdpChain /\ UartChain' = UartChain
    BY <1>1, <1>3, <2>3, UdpSame, UartSame DEF queues
  <2>5. QueuesFit'
    BY <1>1 DEF queues, QueuesFit, ChainInv
  <2> QED  BY <1>1, <2>4, <2>5, UdpStays, UartStays
<1> QED  BY <1>2, <1>3 DEF UdpTxLearn

LEMMA UdpTxSendLink ==
  ASSUME ChainInv, UdpTxSend PROVE UdpStep /\ UartStep /\ QueuesFit'
BY UdpTxLeaveLink DEF UdpTxSend, bp_relinquish

LEMMA UartTxGetLink ==
  ASSUME ChainInv, UartTxGet PROVE UdpStep /\ UartStep /\ QueuesFit'
<1>1. /\ At("uart_tx", "start") /\ Go("uart_tx", "validate")
      /\ UNCHANGED <<mem, UARTtoApps, AppsToUDP>>
      /\ UDPtoUART # <<>> /\ UDPtoUART' = Tail(UDPtoUART)
      /\ pkt' = [pkt EXCEPT !["uart_tx"] = Head(UDPtoUART)]
  BY DEF UartTxGet, Get
<1>2. One(pkt["uart_tx"]) = <<>>
  BY <1>1, ChainNames, WorksOn
<1>3. /\ pkt'["uart_tx"] = Head(UDPtoUART) /\ InFeed' = InFeed
      /\ pkt'["udp_tx"] = pkt["udp_tx"] /\ pkt'["apps"] = pkt["apps"]
      /\ pkt'["udp_rx"] = pkt["udp_rx"]
  <2>1. /\ "uart_tx" \in Threads /\ Go("uart_tx", "validate")
        /\ pkt' = [pkt EXCEPT !["uart_tx"] = Head(UDPtoUART)]
    BY <1>1, ChainNames
  <2> QED  BY <2>1, OthersStay
<1>4. One(pkt'["uart_tx"]) = <<Head(UDPtoUART)>>
  <2>1. Head(UDPtoUART) \in Buffers
    BY <1>1, PartTypes, HeadAndTail
  <2> QED  BY <1>3, <2>1, Parameters DEF One
<1>5. /\ UartChain = (One(pkt["uart_tx"]) \o UDPtoUART) \o One(pkt["udp_rx"])
      /\ UartChain' = (One(pkt'["uart_tx"]) \o UDPtoUART') \o One(pkt["udp_rx"])
  BY <1>3 DEF UartChain
<1>6. <<Head(UDPtoUART)>> \o Tail(UDPtoUART) = <<>> \o UDPtoUART
  BY <1>1, PartTypes, HeadAndTail, ConcatEmptySeq
<1>7. UartChain' = UartChain
  BY <1>1, <1>2, <1>4, <1>5, <1>6
<1>8. UdpChain' = UdpChain
  BY <1>1, <1>3, UdpSame
<1>9. QueuesFit'
  BY <1>1, GetFits
<1> QED  BY <1>1, <1>7, <1>8, <1>9, UdpStays, UartStays

(* uart_tx is done with a packet.                                          *)
LEMMA UartTxLeaveLink ==
  ASSUME ChainInv, NEW l, At("uart_tx", l), l # "start", l # "retry",
         pkt' = [pkt EXCEPT !["uart_tx"] = NULL], Go("uart_tx", "start"),
         UNCHANGED <<mem, queues>>
  PROVE  UdpStep /\ UartStep /\ QueuesFit'
<1>1. pkt["uart_tx"] \in Buffers /\ One(pkt["uart_tx"]) = <<pkt["uart_tx"]>>
  BY ChainNames, WorksOn
<1>2. /\ pkt'["uart_tx"] = NULL /\ InFeed' = InFeed
      /\ pkt'["udp_tx"] = pkt["udp_tx"] /\ pkt'["apps"] = pkt["apps"]
      /\ pkt'["udp_rx"] = pkt["udp_rx"]
  BY ChainNames, OthersStay
<1> DEFINE h == <<pkt["uart_tx"]>>
           p == One(pkt["udp_rx"])
<1>3. UartChain = (h \o UDPtoUART) \o p
  BY <1>1 DEF UartChain
<1>4. UartChain' = (Tail(h) \o UDPtoUART) \o p
  <2>1. One(pkt'["uart_tx"]) = Tail(h)
    BY <1>2 DEF One
  <2>2. UartChain' = (One(pkt'["uart_tx"]) \o UDPtoUART) \o p
    BY <1>2 DEF UartChain, queues
  <2> QED  BY <2>1, <2>2
<1>5. h \in Seq(Buffers) /\ h # <<>>
  BY <1>1
<1> HIDE DEF h
<1>6. p \in Seq(Buffers) /\ UDPtoUART \in Seq(Buffers)
  BY PartTypes
<1> HIDE DEF p
<1> DEFINE hq == h \o UDPtoUART
<1>7. hq \in Seq(Buffers) /\ hq # <<>> /\ Tail(hq) = Tail(h) \o UDPtoUART
  BY <1>5, <1>6, TailOfConcat
<1>8. UartChain = hq \o p
  BY <1>3
<1> HIDE DEF hq
<1>9. hq \o p # <<>> /\ Tail(hq \o p) = Tail(hq) \o p
  BY <1>6, <1>7, TailOfConcat
<1>10. UartChain # <<>> /\ UartChain' = Tail(UartChain)
  BY <1>4, <1>7, <1>8, <1>9
<1>11. UartStep
  BY <1>10, ChainLeaves DEF UartStep
<1>12. UdpChain' = UdpChain
  BY <1>2, UdpSame DEF queues
<1>13. QueuesFit'
  BY DEF queues, QueuesFit, ChainInv
<1> QED  BY <1>11, <1>12, <1>13, UdpStays

LEMMA UartTxValidateLink ==
  ASSUME ChainInv, UartTxValidate PROVE UdpStep /\ UartStep /\ QueuesFit'
<1>1. At("uart_tx", "validate") /\ UNCHANGED <<mem, queues>>
  BY DEF UartTxValidate
<1>2. CASE bp_relinquish("uart_tx") /\ Go("uart_tx", "start")
  BY <1>1, <1>2, UartTxLeaveLink DEF bp_relinquish
<1>3. CASE Go("uart_tx", "write") /\ UNCHANGED pkt
  <2>1. pkt \in [Threads -> Buffers \cup {NULL}] /\ "uart_tx" \in Threads
    BY ChainParts, ChainNames DEF PktType
  <2>2. pkt' = [pkt EXCEPT !["uart_tx"] = pkt["uart_tx"]]
    BY <1>3, <2>1
  <2>3. InFeed' = InFeed
    BY <1>3, <2>1, <2>2, OthersStay
  <2>4. UdpChain' = UdpChain /\ UartChain' = UartChain
    BY <1>1, <1>3, <2>3, UdpSame, UartSame DEF queues
  <2>5. QueuesFit'
    BY <1>1 DEF queues, QueuesFit, ChainInv
  <2> QED  BY <1>1, <2>4, <2>5, UdpStays, UartStays
<1> QED  BY <1>2, <1>3 DEF UartTxValidate

LEMMA UartTxWriteLink ==
  ASSUME ChainInv, UartTxWrite PROVE UdpStep /\ UartStep /\ QueuesFit'
BY UartTxLeaveLink DEF UartTxWrite, bp_relinquish

LEMMA UdpRxPutLink ==
  ASSUME ChainInv, UdpRxPut PROVE UdpStep /\ UartStep /\ QueuesFit'
<1>1. /\ At("udp_rx", "put") /\ Go("udp_rx", "start")
      /\ UNCHANGED <<mem, UARTtoApps, AppsToUDP>>
      /\ Len(UDPtoUART) < QCap /\ UDPtoUART' = Append(UDPtoUART, pkt["udp_rx"])
      /\ pkt' = [pkt EXCEPT !["udp_rx"] = NULL]
  BY DEF UdpRxPut, Put
<1>2. pkt["udp_rx"] \in Buffers /\ One(pkt["udp_rx"]) = <<pkt["udp_rx"]>>
  BY <1>1, ChainNames, WorksOn
<1>3. /\ pkt'["udp_rx"] = NULL /\ InFeed' = InFeed
      /\ pkt'["udp_tx"] = pkt["udp_tx"] /\ pkt'["apps"] = pkt["apps"]
      /\ pkt'["uart_tx"] = pkt["uart_tx"]
  <2>1. "udp_rx" \in Threads /\ Go("udp_rx", "start") /\ pkt' = [pkt EXCEPT !["udp_rx"] = NULL]
    BY <1>1, ChainNames
  <2> QED  BY <2>1, OthersStay
<1>4. One(pkt'["udp_rx"]) = <<>>
  BY <1>3 DEF One
<1> DEFINE C == One(pkt["uart_tx"])
<1>5. /\ UartChain = (C \o UDPtoUART) \o One(pkt["udp_rx"])
      /\ UartChain' = (C \o UDPtoUART') \o One(pkt'["udp_rx"])
  BY <1>3 DEF UartChain
<1>6. C \in Seq(Buffers)
  BY PartTypes
<1> HIDE DEF C
<1>7. (C \o Append(UDPtoUART, pkt["udp_rx"])) \o <<>> = (C \o UDPtoUART) \o <<pkt["udp_rx"]>>
  BY <1>2, <1>6, PartTypes, PutKeepsChain
<1>8. UartChain' = UartChain
  BY <1>1, <1>2, <1>4, <1>5, <1>7
<1>9. UdpChain' = UdpChain
  BY <1>1, <1>3, UdpSame
<1>10. QueuesFit'
  BY <1>1, <1>2, PutFits
<1> QED  BY <1>1, <1>8, <1>9, <1>10, UdpStays, UartStays

(* udp_rx: a datagram in a fresh buffer joins the way to the UART.         *)
LEMMA UdpRxRecvLink ==
  ASSUME ChainInv, UdpRxRecv PROVE UdpStep /\ UartStep /\ QueuesFit'
<1>1. At("udp_rx", "start") /\ UNCHANGED queues /\ bp_fetch("udp_rx")
  BY DEF UdpRxRecv
<1>2. CASE pool = <<>>
  BY <1>1, <1>2, StutterLink DEF UdpRxRecv, bp_fetch
<1>3. CASE pool # <<>>
  <2>1. /\ pkt' = [pkt EXCEPT !["udp_rx"] = Head(pool)] /\ Go("udp_rx", "put")
        /\ \E c : mem' = [mem EXCEPT ![Head(pool)] = c]
    BY <1>1, <1>3 DEF UdpRxRecv, bp_fetch
  <2>2. pool \in Seq(Buffers)
    BY ChainParts DEF QueueTypes
  <2>3. Head(pool) \in Buffers /\ Head(pool) \in Range(pool)
    <3>1. DOMAIN pool = 1 .. Len(pool) /\ 1 \in 1 .. Len(pool) /\ Head(pool) = pool[1]
      BY <1>3, <2>2, SeqFacts
    <3> QED  BY <1>3, <2>2, <3>1, SeqFacts DEF Range
  <2>4. pkt["udp_rx"] = NULL /\ One(pkt["udp_rx"]) = <<>>
    BY <1>1, ChainNames, WorksOn
  <2>5. /\ pkt'["udp_rx"] = Head(pool) /\ InFeed' = InFeed
        /\ pkt'["udp_tx"] = pkt["udp_tx"] /\ pkt'["apps"] = pkt["apps"]
        /\ pkt'["uart_tx"] = pkt["uart_tx"]
    <3>1. /\ "udp_rx" \in Threads /\ Go("udp_rx", "put")
          /\ pkt' = [pkt EXCEPT !["udp_rx"] = Head(pool)]
      BY <2>1, ChainNames
    <3> QED  BY <3>1, OthersStay
  <2>6. One(pkt'["udp_rx"]) = <<Head(pool)>>
    BY <2>3, <2>5, Parameters DEF One
  <2>7. \A b \in Buffers : b \notin Range(pool) => mem'[b] = mem[b]
    BY <2>1, <2>3, ChainParts
  <2>8. /\ \A b \in Range(UdpChain) : mem'[b] = mem[b]
        /\ \A b \in Range(UartChain) : mem'[b] = mem[b]
    <3>1. Range(UdpChain) \subseteq Buffers /\ Range(UartChain) \subseteq Buffers
      BY UdpChainFacts, UartChainFacts, RangeOfSeq
    <3> QED  BY <2>7, <3>1, UdpChainFacts, UartChainFacts
  <2> DEFINE C == One(pkt["uart_tx"]) \o UDPtoUART
  <2>9. C \in Seq(Buffers)
    BY PartTypes, ConcatProperties
  <2>10. UartChain = C \o <<>> /\ UartChain' = C \o <<Head(pool)>>
    BY <1>1, <2>4, <2>5, <2>6 DEF UartChain, queues
  <2> HIDE DEF C
  <2>11. UartChain' = Append(UartChain, Head(pool))
    BY <2>3, <2>9, <2>10, ConcatEmptySeq, AppendIsConcat
  <2>12. UartChain \in Seq(Buffers) /\ Len(UartChain) < QCap + 2
    BY <2>4, UartChainFacts
  <2>13. UartStep
    BY <2>3, <2>8, <2>11, <2>12, ChainGrows DEF UartStep
  <2>14. UdpChain' = UdpChain
    BY <1>1, <2>5, UdpSame DEF queues
  <2>15. QueuesFit'
    BY <1>1 DEF queues, QueuesFit, ChainInv
  <2> QED  BY <2>8, <2>13, <2>14, <2>15, UdpStays
<1> QED  BY <1>2, <1>3

(* The memset of a bp_relinquish may hit a packet on its way.              *)
LEMMA MemsetLink ==
  ASSUME ChainInv, NEW t \in Threads, Memset(t)
  PROVE  UdpStep /\ UartStep /\ QueuesFit'
<1>1. /\ scrub[t] \in Buffers /\ mem' = [mem EXCEPT ![scrub[t]] = Zeroed]
      /\ UNCHANGED <<pkt, queues, pc>>
  BY ChainParts DEF Memset, bp_relinquish_memset, Running
<1>2. UdpChain' = UdpChain /\ UartChain' = UartChain
  BY <1>1, UdpSame, LastSame, UartSame DEF queues
<1>3. UdpStep /\ UartStep
  BY <1>1, <1>2 DEF UdpStep, UartStep, ChainStep
<1>4. QueuesFit'
  BY <1>1 DEF queues, QueuesFit, ChainInv
<1> QED  BY <1>3, <1>4

LEMMA NextLink ==
  ASSUME ChainInv, [Next]_vars PROVE UdpStep /\ UartStep /\ QueuesFit'
<1>1. ASSUME NEW t \in Threads, Memset(t) PROVE UdpStep /\ UartStep /\ QueuesFit'
  BY <1>1, MemsetLink
<1>2. CASE Expire \/ UdpRxOpen \/ UdpRxError \/ UNCHANGED vars
  BY <1>2, StutterLink DEF Expire, UdpRxOpen, UdpRxError, vars, queues
<1>3. CASE uart_rx
  BY <1>1, <1>3, ChainNames, FeedFetchLink, FeedAppendLink, FeedAbortLink,
     FeedCompleteLink, FeedPutLink DEF uart_rx
<1>4. CASE apps
  BY <1>1, <1>4, ChainNames, AppsGetLink, AppsHandleLink, AppsPutLink DEF apps
<1>5. CASE udp_tx
  BY <1>1, <1>5, ChainNames, UdpTxGetLink, UdpTxLearnLink, UdpTxSendLink DEF udp_tx
<1>6. CASE uart_tx
  BY <1>1, <1>6, ChainNames, UartTxGetLink, UartTxValidateLink, UartTxWriteLink DEF uart_tx
<1>7. CASE udp_rx
  BY <1>1, <1>2, <1>7, ChainNames, UdpRxRecvLink, UdpRxPutLink DEF udp_rx
<1> QED  BY <1>2, <1>3, <1>4, <1>5, <1>6, <1>7 DEF Next

-----------------------------------------------------------------------------
(* The refinements.                                                        *)

LEMMA ChainInvInit == Init => ChainInv
<1>1. Init => ClientInv
  BY ClientInvInit
<1>2. Init => QueuesFit
  BY Parameters DEF Init, QueuesFit
<1> QED  BY <1>1, <1>2 DEF ChainInv

LEMMA ChainInvNext == ChainInv /\ [Next]_vars => ChainInv'
<1>1. ChainInv /\ [Next]_vars => ClientInv'
  BY ClientInvNext DEF ChainInv
<1>2. ChainInv /\ [Next]_vars => QueuesFit'
  BY NextLink
<1> QED  BY <1>1, <1>2 DEF ChainInv

LEMMA ChainInductive == Spec => []ChainInv
<1> QED  BY ChainInvInit, ChainInvNext, PTL DEF Spec

LEMMA LinksAreChains ==
  ChainInv => /\ mem \in [Buffers -> Contents]
              /\ UdpChain \in Seq(Buffers) /\ UartChain \in Seq(Buffers)
              /\ LinkToUdp = ContentsOf(mem, UdpChain)
              /\ LinkToUart = ContentsOf(mem, UartChain)
BY ChainParts, UdpChainFacts, UartChainFacts

LEMMA LinksAreChainsNext ==
  ChainInv' => /\ mem' \in [Buffers -> Contents]
               /\ LinkToUdp' = ContentsOf(mem', UdpChain')
               /\ LinkToUart' = ContentsOf(mem', UartChain')
<1>1. ChainInv => /\ mem \in [Buffers -> Contents]
                  /\ LinkToUdp = ContentsOf(mem, UdpChain)
                  /\ LinkToUart = ContentsOf(mem, UartChain)
  BY LinksAreChains
<1>2. (ChainInv => /\ mem \in [Buffers -> Contents]
                   /\ LinkToUdp = ContentsOf(mem, UdpChain)
                   /\ LinkToUart = ContentsOf(mem, UartChain))'
  BY <1>1, PTL
<1> QED  BY <1>2

LEMMA LinksStep ==
  ChainInv /\ [Next]_vars =>
    /\ LinkStep(LinkToUdp, LinkToUdp', 2 * QCap + 3)
    /\ LinkStep(LinkToUart, LinkToUart', QCap + 2)
<1> SUFFICES ASSUME ChainInv, [Next]_vars
             PROVE  /\ LinkStep(LinkToUdp, LinkToUdp', 2 * QCap + 3)
                    /\ LinkStep(LinkToUart, LinkToUart', QCap + 2)
  OBVIOUS
<1>1. /\ mem \in [Buffers -> Contents]
      /\ UdpChain \in Seq(Buffers) /\ UartChain \in Seq(Buffers)
      /\ LinkToUdp = ContentsOf(mem, UdpChain) /\ LinkToUart = ContentsOf(mem, UartChain)
  BY LinksAreChains
<1>2. /\ mem' \in [Buffers -> Contents]
      /\ LinkToUdp' = ContentsOf(mem', UdpChain') /\ LinkToUart' = ContentsOf(mem', UartChain')
  BY ChainInvNext, LinksAreChainsNext
<1>3. IsInjective(UdpChain) /\ IsInjective(UartChain)
  BY UdpChainFacts, UartChainFacts
<1>4. /\ ChainStep(UdpChain, mem, UdpChain', mem', 2 * QCap + 3)
      /\ ChainStep(UartChain, mem, UartChain', mem', QCap + 2)
  BY NextLink DEF UdpStep, UartStep
<1>5. LinkStep(ContentsOf(mem, UdpChain), ContentsOf(mem', UdpChain'), 2 * QCap + 3)
  BY <1>1, <1>2, <1>3, <1>4, ChainStepIsLinkStep
<1>6. LinkStep(ContentsOf(mem, UartChain), ContentsOf(mem', UartChain'), QCap + 2)
  BY <1>1, <1>2, <1>3, <1>4, ChainStepIsLinkStep
<1> QED  BY <1>1, <1>2, <1>5, <1>6

LEMMA LinksInit == Init => LinkToUdp = <<>> /\ LinkToUart = <<>>
<1> SUFFICES ASSUME Init PROVE LinkToUdp = <<>> /\ LinkToUart = <<>>
  OBVIOUS
<1>1. /\ UARTtoApps = <<>> /\ AppsToUDP = <<>> /\ UDPtoUART = <<>>
      /\ \A t \in Threads : pkt[t] = NULL /\ pc[t] = "start"
  BY DEF Init, PoolInit
<1>2. UdpChain = <<>> \o <<>> \o <<>> \o <<>> \o <<>> /\ UartChain = <<>> \o <<>> \o <<>>
  BY <1>1, ChainNames DEF UdpChain, UartChain, One
<1>3. UdpChain = <<>> /\ UartChain = <<>>
  <2>1. <<>> \o <<>> = <<>>
    OBVIOUS
  <2> QED  BY <1>2, <2>1
<1>4. ContentsOf(mem, <<>>) = <<>>
  BY DEF ContentsOf
<1> QED  BY <1>3, <1>4, ChainInvInit, LinksAreChains

(* The way to UDP is a link: whatever the threads do, and however their    *)
(* steps interleave, packets leave it in the order in which uart_rx has    *)
(* put them in, none of them lost or twice, and no more than 2 * QCap + 3  *)
(* are inside.  (A memset can wipe one, a restart loses all.)              *)
THEOREM OrderedToUdp == Spec => LinkToUdpSpec
<1>1. Init => ToUdp!Init
  BY LinksInit DEF ToUdp!Init
<1>2. ChainInv /\ [Next]_vars => [ToUdp!Next]_LinkToUdp
  BY LinksStep DEF LinkStep, ToUdp!Next, ToUdp!Accept, ToUdp!Leave, ToUdp!Wipe, ToUdp!Restart
<1> QED  BY <1>1, <1>2, ChainInductive, PTL DEF Spec, LinkToUdpSpec, ToUdp!Spec

(* And so is the way to the UART, for QCap + 2 packets.                    *)
THEOREM OrderedToUart == Spec => LinkToUartSpec
<1>1. Init => ToUart!Init
  BY LinksInit DEF ToUart!Init
<1>2. ChainInv /\ [Next]_vars => [ToUart!Next]_LinkToUart
  BY LinksStep DEF LinkStep, ToUart!Next, ToUart!Accept, ToUart!Leave, ToUart!Wipe, ToUart!Restart
<1> QED  BY <1>1, <1>2, ChainInductive, PTL DEF Spec, LinkToUartSpec, ToUart!Spec

-----------------------------------------------------------------------------
(***************************************************************************)
(* Under the priorities of the threads the pool never runs out, if it has  *)
(* two buffers for every slot of a queue and four more.                    *)
(*                                                                         *)
(* PrioritySpec allows fewer steps than Spec, so the invariant above holds *)
(* of it too.  What the priorities add is that a datagram is only taken in *)
(* when uart_tx has nothing to do, so that at most one buffer is on the    *)
(* way to the UART; with the account of the buffers that leaves one in the *)
(* pool for whoever fetches.                                               *)
(*                                                                         *)
(* And they decide who can be overtaken between the two steps of a         *)
(* bp_relinquish, and so which packets its memset can wipe: see Contained. *)
(* With both, the way to the UART is a link for one packet that wipes none *)
(* (PromptToUartOrdered).                                                  *)
(***************************************************************************)
OnTheWay == Len(UDPtoUART) + Held("uart_tx") + Held("udp_rx")

ShortQueues == Len(UARTtoApps) <= QCap /\ Len(AppsToUDP) <= QCap

PriorityInv == Inv /\ OneOnTheWayToUart /\ ShortQueues /\ NeverUnderflows

LEMMA PriorityNextIsNext == PriorityNext => Next
BY DEF PriorityNext, Next

(* There is always a buffer for a thread that has none, as long as only    *)
(* one other, or none, is on the way to the UART.                          *)
LEMMA PoolNotEmpty ==
  ASSUME PriorityInv, EnoughBuffers,
         \/ pkt["uart_rx"] = NULL
         \/ OnTheWay = 0
  PROVE  pool # <<>>
<1>1. /\ Len(pool) \in Nat /\ Len(UARTtoApps) \in Nat
      /\ Len(AppsToUDP) \in Nat /\ Len(UDPtoUART) \in Nat
  BY TypeParts, Lengths DEF PriorityInv, Inv
<1>2. pkt["uart_rx"] = NULL => Held("uart_rx") = 0
  BY DEF Held
<1>3. Len(pool) > 0
  BY <1>1, <1>2, HeldType, Parameters
     DEF PriorityInv, Inv, Accounted, OneOnTheWayToUart, ShortQueues, EnoughBuffers,
         OnTheWay, Threads
<1>4. Len(<<>>) = 0
  OBVIOUS
<1> QED  BY <1>3, <1>4

(* Steps after which no more is on the way to the UART and no queue to UDP *)
(* is longer than before, and which do not come from an empty pool.        *)
LEMMA NoMoreThanBefore ==
  ASSUME PriorityInv, Inv',
         OnTheWay' <= 1, ShortQueues',
         EnoughBuffers => ~ohNoLed',
         EnoughBuffers => pc'["uart_rx"] # "retry"
  PROVE  PriorityInv'
BY DEF PriorityInv, OneOnTheWayToUart, NeverUnderflows, OnTheWay, EnoughBuffers

LEMMA HeldExcept ==
  ASSUME PktType, NEW t \in Threads, NEW x, pkt' = [pkt EXCEPT ![t] = x]
  PROVE  /\ \A u \in Threads \ {t} : Held(u)' = Held(u)
         /\ Held(t)' = IF x = NULL THEN 0 ELSE 1
BY DEF PktType, Held

LEMMA GoElsewhere ==
  ASSUME PcType, NEW t \in Threads, NEW l, Go(t, l)
  PROVE  pc'["uart_rx"] = IF t = "uart_rx" THEN l ELSE pc["uart_rx"]
BY DEF PcType, Go, Threads

LEMMA Facts ==
  PriorityInv => /\ Inv /\ QueueTypes /\ PktType /\ PcType
                 /\ Len(UDPtoUART) \in Nat
                 /\ OnTheWay <= 1 /\ ShortQueues
                 /\ (EnoughBuffers => ~ohNoLed /\ pc["uart_rx"] # "retry")
                 /\ \A t \in Threads : Held(t) \in 0 .. 1
                 /\ "uart_rx" \in Threads /\ "uart_tx" \in Threads /\ "udp_rx" \in Threads
                 /\ "udp_tx" \in Threads /\ "apps" \in Threads
BY TypeParts, Lengths, HeldType
   DEF PriorityInv, Inv, OneOnTheWayToUart, OnTheWay, NeverUnderflows, Threads

LEMMA RelinquishPriority ==
  ASSUME PriorityInv, Inv', NEW t \in Threads, pkt[t] # NULL, bp_relinquish(t),
         Go(t, "start"), UNCHANGED queues
  PROVE  PriorityInv'
<1>1. Len(pool) < PoolCap
  BY Facts, InvNeverOverflows DEF NeverOverflows
<1>2. pkt' = [pkt EXCEPT ![t] = NULL] /\ ohNoLed' = ohNoLed
  BY <1>1 DEF bp_relinquish
<1>3. /\ \A u \in Threads \ {t} : Held(u)' = Held(u)
      /\ Held(t)' = 0
  BY <1>2, Facts, HeldExcept
<1>4. OnTheWay' <= 1 /\ ShortQueues'
  BY <1>3, Facts DEF OnTheWay, ShortQueues, queues
<1>5. EnoughBuffers => pc'["uart_rx"] # "retry"
  BY Facts, GoElsewhere
<1> QED  BY <1>2, <1>4, <1>5, Facts, NoMoreThanBefore

LEMMA WalkPriority ==
  ASSUME PriorityInv, Inv', NEW t \in Threads, NEW l, l # "retry", Go(t, l),
         UNCHANGED <<pkt, ohNoLed, queues>>
  PROVE  PriorityInv'
<1>1. OnTheWay' <= 1 /\ ShortQueues'
  BY Facts DEF OnTheWay, ShortQueues, queues, Held
<1>2. EnoughBuffers => pc'["uart_rx"] # "retry"
  BY Facts, GoElsewhere
<1> QED  BY <1>1, <1>2, Facts, NoMoreThanBefore

LEMMA StayPriority ==
  ASSUME PriorityInv, Inv', UNCHANGED <<pkt, ohNoLed, queues, pc>>
  PROVE  PriorityInv'
<1>1. OnTheWay' <= 1 /\ ShortQueues'
  BY Facts DEF OnTheWay, ShortQueues, queues, Held
<1> QED  BY <1>1, Facts, NoMoreThanBefore

(* A packet moves on its way to UDP.                                       *)
LEMMA ToUdpPriority ==
  ASSUME PriorityInv, Inv', NEW t \in {"uart_rx", "apps", "udp_tx"}, NEW l, l # "retry",
         Go(t, l), NEW x, pkt' = [pkt EXCEPT ![t] = x],
         UNCHANGED <<UDPtoUART, ohNoLed>>, ShortQueues'
  PROVE  PriorityInv'
<1>1. Held("uart_tx")' = Held("uart_tx") /\ Held("udp_rx")' = Held("udp_rx")
  BY Facts, HeldExcept
<1>2. OnTheWay' <= 1
  BY <1>1, Facts DEF OnTheWay
<1>3. EnoughBuffers => pc'["uart_rx"] # "retry"
  BY Facts, GoElsewhere
<1> QED  BY <1>2, <1>3, Facts, NoMoreThanBefore

(* Where each thread is when it has no packet.                             *)
LEMMA Idle ==
  ASSUME Inv, NEW t \in Threads, pc[t] \in WithoutPacket
  PROVE  pkt[t] = NULL /\ Held(t) = 0
BY DEF Inv, HoldsWhereItShould, Held

(* What the priorities say of udp_rx: when it runs, uart_tx is idle.       *)
LEMMA UartTxIdle ==
  ASSUME PriorityInv, MayRun("udp_rx"), pc["udp_rx"] = "start"
  PROVE  OnTheWay = 0
<1>1. ~Ready("uart_tx")
  BY DEF MayRun, Threads, Priority
<1>2. pc["uart_tx"] = "start" /\ UDPtoUART = <<>>
  BY <1>1 DEF Ready
<1>3. Held("uart_tx") = 0 /\ Held("udp_rx") = 0
  BY <1>2, Facts, Idle DEF WithoutPacket
<1> QED  BY <1>2, <1>3 DEF OnTheWay

LEMMA UartRxPriority == ASSUME PriorityInv, Inv', uart_rx PROVE PriorityInv'
<1>1. CASE FeedFetch
  <2>1. pkt["uart_rx"] = NULL /\ bp_fetch("uart_rx") /\ UNCHANGED queues
    BY <1>1, Facts, Idle DEF FeedFetch, At, WithoutPacket
  <2>2. pkt' = pkt \/ pkt' = [pkt EXCEPT !["uart_rx"] = Head(pool)]
    BY <2>1 DEF bp_fetch
  <2>3. Held("uart_tx")' = Held("uart_tx") /\ Held("udp_rx")' = Held("udp_rx")
    <3>1. CASE pkt' = pkt
      BY <3>1 DEF Held
    <3>2. CASE pkt' = [pkt EXCEPT !["uart_rx"] = Head(pool)]
      BY <3>2, Facts, HeldExcept
    <3> QED  BY <2>2, <3>1, <3>2
  <2>4. OnTheWay' <= 1 /\ ShortQueues'
    BY <2>1, <2>3, Facts DEF OnTheWay, ShortQueues, queues
  <2>5. EnoughBuffers => pool # <<>>
    BY <2>1, PoolNotEmpty
  <2>6. EnoughBuffers => ~ohNoLed'
    BY <2>1, <2>5, Facts DEF bp_fetch
  <2>7. EnoughBuffers => pc'["uart_rx"] # "retry"
    BY <1>1, <2>5, Facts, GoElsewhere DEF FeedFetch
  <2> QED  BY <2>4, <2>6, <2>7, NoMoreThanBefore
<1>2. CASE FeedAppend
  BY <1>2, StayPriority DEF FeedAppend
<1>3. CASE FeedAbort
  <2>1. pkt["uart_rx"] # NULL
    BY <1>3, Facts DEF FeedAbort, Inv, HoldsWhereItShould, At, WithoutPacket
  <2> QED  BY <1>3, <2>1, Facts, RelinquishPriority DEF FeedAbort
<1>4. CASE FeedComplete
  <2>1. pkt["uart_rx"] # NULL
    BY <1>4, Facts DEF FeedComplete, Inv, HoldsWhereItShould, At, WithoutPacket
  <2>2. CASE Go("uart_rx", "put") /\ UNCHANGED <<pool, pkt, scrub, ohNoLed>>
    BY <1>4, <2>2, Facts, WalkPriority DEF FeedComplete
  <2>3. CASE bp_relinquish("uart_rx") /\ Go("uart_rx", "start")
    BY <1>4, <2>1, <2>3, Facts, RelinquishPriority DEF FeedComplete
  <2> QED  BY <1>4, <2>2, <2>3 DEF FeedComplete
<1>5. CASE FeedPut
  <2>1. /\ Len(UARTtoApps) < QCap /\ UARTtoApps' = Append(UARTtoApps, pkt["uart_rx"])
        /\ pkt' = [pkt EXCEPT !["uart_rx"] = NULL] /\ AppsToUDP' = AppsToUDP
        /\ pkt["uart_rx"] # NULL
    BY <1>5, Facts DEF FeedPut, Put, Inv, HoldsWhereItShould, At, WithoutPacket
  <2>2. pkt["uart_rx"] \in Buffers
    BY <2>1, Facts DEF PktType
  <2>3. Len(UARTtoApps') = Len(UARTtoApps) + 1 /\ Len(UARTtoApps) \in Nat
    BY <2>1, <2>2, Facts, SeqFacts DEF QueueTypes
  <2>4. ShortQueues'
    BY <2>1, <2>3, Facts, Parameters DEF ShortQueues
  <2> QED  BY <1>5, <2>1, <2>4, ToUdpPriority DEF FeedPut
<1>6. CASE Memset("uart_rx")
  BY <1>6, StayPriority DEF Memset, bp_relinquish_memset
<1> QED  BY <1>1, <1>2, <1>3, <1>4, <1>5, <1>6 DEF uart_rx

LEMMA AppsPriority == ASSUME PriorityInv, Inv', apps PROVE PriorityInv'
<1>1. CASE AppsGet
  <2>1. /\ UARTtoApps # <<>> /\ UARTtoApps' = Tail(UARTtoApps) /\ AppsToUDP' = AppsToUDP
        /\ pkt' = [pkt EXCEPT !["apps"] = Head(UARTtoApps)]
    BY <1>1 DEF AppsGet, Get
  <2>2. Len(UARTtoApps') = Len(UARTtoApps) - 1 /\ Len(UARTtoApps) \in Nat
    BY <2>1, Facts, SeqFacts DEF QueueTypes
  <2>3. ShortQueues'
    BY <2>1, <2>2, Facts, Parameters DEF ShortQueues
  <2> QED  BY <1>1, <2>1, <2>3, ToUdpPriority DEF AppsGet
<1>2. CASE AppsHandle
  <2>1. CASE Reboot
    <3>1. Held("uart_tx")' = 0 /\ Held("udp_rx")' = 0 /\ ohNoLed' = FALSE
      BY <2>1, Facts DEF Reboot, PoolReboot, Held
    <3>2. Len(UARTtoApps') = 0 /\ Len(AppsToUDP') = 0 /\ Len(UDPtoUART') = 0
      BY <2>1 DEF Reboot
    <3>3. pc'["uart_rx"] # "retry"
      BY <2>1, Facts DEF Reboot
    <3> QED
      BY <3>1, <3>2, <3>3, NoMoreThanBefore, Parameters DEF OnTheWay, ShortQueues
  <2>2. CASE Go("apps", "put") /\ UNCHANGED <<pool, mem, pkt, scrub, ohNoLed, queues, tables, udp_sock>>
    BY <2>2, Facts, WalkPriority
  <2> QED  BY <1>2, <2>1, <2>2 DEF AppsHandle
<1>3. CASE AppsPut
  <2>1. /\ Len(AppsToUDP) < QCap /\ AppsToUDP' = Append(AppsToUDP, pkt["apps"])
        /\ pkt' = [pkt EXCEPT !["apps"] = NULL] /\ UARTtoApps' = UARTtoApps
        /\ pkt["apps"] # NULL
    BY <1>3, Facts DEF AppsPut, Put, Inv, HoldsWhereItShould, At, WithoutPacket
  <2>2. pkt["apps"] \in Buffers
    BY <2>1, Facts DEF PktType
  <2>3. Len(AppsToUDP') = Len(AppsToUDP) + 1 /\ Len(AppsToUDP) \in Nat
    BY <2>1, <2>2, Facts, SeqFacts DEF QueueTypes
  <2>4. ShortQueues'
    BY <2>1, <2>3, Facts, Parameters DEF ShortQueues
  <2> QED  BY <1>3, <2>1, <2>4, ToUdpPriority DEF AppsPut
<1>4. CASE Memset("apps")
  BY <1>4, StayPriority DEF Memset, bp_relinquish_memset
<1> QED  BY <1>1, <1>2, <1>3, <1>4 DEF apps

LEMMA UdpTxPriority == ASSUME PriorityInv, Inv', udp_tx PROVE PriorityInv'
<1>1. CASE UdpTxGet
  <2>1. /\ AppsToUDP # <<>> /\ AppsToUDP' = Tail(AppsToUDP) /\ UARTtoApps' = UARTtoApps
        /\ pkt' = [pkt EXCEPT !["udp_tx"] = Head(AppsToUDP)]
    BY <1>1 DEF UdpTxGet, Get
  <2>2. Len(AppsToUDP') = Len(AppsToUDP) - 1 /\ Len(AppsToUDP) \in Nat
    BY <2>1, Facts, SeqFacts DEF QueueTypes
  <2>3. ShortQueues'
    BY <2>1, <2>2, Facts, Parameters DEF ShortQueues
  <2> QED  BY <1>1, <2>1, <2>3, ToUdpPriority DEF UdpTxGet
<1>2. CASE UdpTxLearn
  <2>1. pkt["udp_tx"] # NULL
    BY <1>2, Facts DEF UdpTxLearn, Inv, HoldsWhereItShould, At, WithoutPacket
  <2>2. CASE bp_relinquish("udp_tx") /\ Go("udp_tx", "start")
    BY <1>2, <2>1, <2>2, Facts, RelinquishPriority DEF UdpTxLearn
  <2>3. CASE Go("udp_tx", "send") /\ UNCHANGED <<pool, pkt, scrub, ohNoLed>>
    BY <1>2, <2>3, Facts, WalkPriority DEF UdpTxLearn
  <2> QED  BY <1>2, <2>2, <2>3 DEF UdpTxLearn
<1>3. CASE UdpTxSend
  <2>1. pkt["udp_tx"] # NULL
    BY <1>3, Facts DEF UdpTxSend, Inv, HoldsWhereItShould, At, WithoutPacket
  <2> QED  BY <1>3, <2>1, Facts, RelinquishPriority DEF UdpTxSend
<1>4. CASE Memset("udp_tx")
  BY <1>4, StayPriority DEF Memset, bp_relinquish_memset
<1> QED  BY <1>1, <1>2, <1>3, <1>4 DEF udp_tx

LEMMA UartTxPriority == ASSUME PriorityInv, Inv', uart_tx PROVE PriorityInv'
<1>1. CASE UartTxGet
  <2>1. /\ UDPtoUART # <<>> /\ UDPtoUART' = Tail(UDPtoUART)
        /\ UNCHANGED <<UARTtoApps, AppsToUDP, ohNoLed>>
        /\ pkt' = [pkt EXCEPT !["uart_tx"] = Head(UDPtoUART)]
        /\ Go("uart_tx", "validate")
    BY <1>1 DEF UartTxGet, Get
  <2>2. Len(UDPtoUART') = Len(UDPtoUART) - 1
    BY <2>1, Facts, SeqFacts DEF QueueTypes
  <2>3. Held("udp_rx")' = Held("udp_rx")
    BY <2>1, Facts, HeldExcept
  <2>4. Held("uart_tx")' \in 0 .. 1
    BY DEF Held
  <2>5. Held("uart_tx") = 0
    BY <1>1, Facts, Idle DEF UartTxGet, At, WithoutPacket
  <2>6. OnTheWay' <= 1 /\ ShortQueues'
    BY <2>1, <2>2, <2>3, <2>5, <2>4, Facts DEF OnTheWay, ShortQueues
  <2>7. EnoughBuffers => pc'["uart_rx"] # "retry"
    BY <2>1, Facts, GoElsewhere
  <2> QED  BY <2>1, <2>6, <2>7, Facts, NoMoreThanBefore
<1>2. CASE UartTxValidate
  <2>1. pkt["uart_tx"] # NULL
    BY <1>2, Facts DEF UartTxValidate, Inv, HoldsWhereItShould, At, WithoutPacket
  <2>2. CASE bp_relinquish("uart_tx") /\ Go("uart_tx", "start")
    BY <1>2, <2>1, <2>2, Facts, RelinquishPriority DEF UartTxValidate
  <2>3. CASE Go("uart_tx", "write") /\ UNCHANGED <<pool, pkt, scrub, ohNoLed>>
    BY <1>2, <2>3, Facts, WalkPriority DEF UartTxValidate
  <2> QED  BY <1>2, <2>2, <2>3 DEF UartTxValidate
<1>3. CASE UartTxWrite
  <2>1. pkt["uart_tx"] # NULL
    BY <1>3, Facts DEF UartTxWrite, Inv, HoldsWhereItShould, At, WithoutPacket
  <2> QED  BY <1>3, <2>1, Facts, RelinquishPriority DEF UartTxWrite
<1>4. CASE Memset("uart_tx")
  BY <1>4, StayPriority DEF Memset, bp_relinquish_memset
<1> QED  BY <1>1, <1>2, <1>3, <1>4 DEF uart_tx

LEMMA UdpRxPriority ==
  ASSUME PriorityInv, Inv', MayRun("udp_rx"), udp_rx PROVE PriorityInv'
<1>1. CASE UdpRxOpen \/ UdpRxError
  BY <1>1, StayPriority DEF UdpRxOpen, UdpRxError
<1>2. CASE UdpRxRecv
  <2>1. pc["udp_rx"] = "start" /\ bp_fetch("udp_rx") /\ UNCHANGED queues
    BY <1>2 DEF UdpRxRecv, At
  <2>2. OnTheWay = 0
    BY <2>1, UartTxIdle
  <2>3. Held("udp_rx")' \in 0 .. 1
    BY DEF Held
  <2>4. Held("uart_tx")' = Held("uart_tx")
    <3>1. CASE pkt' = pkt
      BY <3>1 DEF Held
    <3>2. CASE pkt' = [pkt EXCEPT !["udp_rx"] = Head(pool)]
      BY <3>2, Facts, HeldExcept
    <3> QED  BY <2>1, <3>1, <3>2 DEF bp_fetch
  <2>5. OnTheWay' <= 1 /\ ShortQueues'
    BY <2>1, <2>2, <2>4, <2>3, Facts DEF OnTheWay, ShortQueues, queues
  <2>6. EnoughBuffers => pool # <<>>
    BY <2>2, PoolNotEmpty
  <2>7. EnoughBuffers => ~ohNoLed'
    BY <2>1, <2>6, Facts DEF bp_fetch
  <2>8. EnoughBuffers => pc'["uart_rx"] # "retry"
    BY <1>2, <2>6, Facts, GoElsewhere DEF UdpRxRecv
  <2> QED  BY <2>5, <2>7, <2>8, NoMoreThanBefore
<1>3. CASE UdpRxPut
  <2>1. /\ UDPtoUART' = Append(UDPtoUART, pkt["udp_rx"])
        /\ pkt' = [pkt EXCEPT !["udp_rx"] = NULL]
        /\ UNCHANGED <<UARTtoApps, AppsToUDP, ohNoLed>> /\ Go("udp_rx", "start")
        /\ pkt["udp_rx"] # NULL
    BY <1>3, Facts DEF UdpRxPut, Put, Inv, HoldsWhereItShould, At, WithoutPacket
  <2>2. pkt["udp_rx"] \in Buffers /\ Held("udp_rx") = 1
    BY <2>1, Facts DEF PktType, Held
  <2>3. Len(UDPtoUART') = Len(UDPtoUART) + 1
    BY <2>1, <2>2, Facts, SeqFacts DEF QueueTypes
  <2>4. Held("uart_tx")' = Held("uart_tx") /\ Held("udp_rx")' = 0
    BY <2>1, Facts, HeldExcept
  <2>5. OnTheWay' <= 1 /\ ShortQueues'
    BY <2>1, <2>2, <2>3, <2>4, Facts DEF OnTheWay, ShortQueues
  <2>6. EnoughBuffers => pc'["uart_rx"] # "retry"
    BY <2>1, Facts, GoElsewhere
  <2> QED  BY <2>1, <2>5, <2>6, Facts, NoMoreThanBefore
<1>4. CASE Memset("udp_rx")
  BY <1>4, StayPriority DEF Memset, bp_relinquish_memset
<1> QED  BY <1>1, <1>2, <1>3, <1>4 DEF udp_rx

-----------------------------------------------------------------------------
LEMMA PriorityInit == Init => PriorityInv
<1> SUFFICES ASSUME Init PROVE PriorityInv
  OBVIOUS
<1>1. Inv
  BY InvInit
<1>2. /\ Len(UARTtoApps) = 0 /\ Len(AppsToUDP) = 0 /\ Len(UDPtoUART) = 0
      /\ ohNoLed = FALSE
  BY DEF Init, PoolInit
<1>3. \A t \in Threads : Held(t) = 0 /\ pc[t] = "start"
  BY DEF Init, PoolInit, Held
<1>4. OneOnTheWayToUart
  BY <1>2, <1>3 DEF OneOnTheWayToUart, Threads
<1>5. NeverUnderflows
  BY <1>2, <1>3 DEF NeverUnderflows, Threads
<1>6. ShortQueues
  BY <1>2, Parameters DEF ShortQueues
<1> QED  BY <1>1, <1>4, <1>5, <1>6 DEF PriorityInv

LEMMA PriorityStep == PriorityInv /\ [PriorityNext]_vars => PriorityInv'
<1> SUFFICES ASSUME PriorityInv, [PriorityNext]_vars PROVE PriorityInv'
  OBVIOUS
<1>1. Inv'
  BY PriorityNextIsNext, InvNext DEF PriorityInv
<1>2. CASE Expire \/ UNCHANGED vars
  BY <1>1, <1>2, StayPriority DEF Expire, vars, queues
<1>3. CASE MayRun("udp_rx") /\ udp_rx
  BY <1>1, <1>3, UdpRxPriority
<1> QED
  BY <1>1, <1>2, <1>3, UartRxPriority, AppsPriority, UdpTxPriority, UartTxPriority
     DEF PriorityNext

THEOREM PriorityInductive == PrioritySpec => []PriorityInv
<1> QED  BY PriorityInit, PriorityStep, PTL DEF PrioritySpec

(* Whatever the length of the queues: uart_tx empties UDPtoUART before     *)
(* udp_rx takes in another datagram.                                       *)
THEOREM OnePacketToUart == PrioritySpec => []OneOnTheWayToUart
<1>1. PriorityInv => OneOnTheWayToUart
  BY DEF PriorityInv
<1> QED  BY <1>1, PriorityInductive, PTL

(* With at least 2 * QCap + 4 buffers (main.c: 50, for queues of 20),      *)
(* bp_fetch always finds one: OH_NO_LED stays dark, and feed never waits.  *)
THEOREM NoUnderflow == PrioritySpec => []NeverUnderflows
<1>1. PriorityInv => NeverUnderflows
  BY DEF PriorityInv
<1> QED  BY <1>1, PriorityInductive, PTL

-----------------------------------------------------------------------------
(* What is in the buffers.  Between the k_msgq_put and the memset of its   *)
(* bp_relinquish a thread still refers to a buffer that may be in use      *)
(* again, and would wipe it.  The priorities leave only udp_tx in that     *)
(* position, and only while no datagram can be taken in: what it wipes is  *)
(* free, or on its way from the UART (once more).                          *)

AliasOfUdpTx ==
  scrub["udp_tx"] # NULL =>
    /\ scrub["udp_tx"] \notin OnTheWayToUart
    /\ Range(mem[scrub["udp_tx"]]) \subseteq UartChunks
Aliases ==
  /\ scrub["apps"] = NULL /\ scrub["udp_rx"] = NULL
  /\ \A t \in {"uart_rx", "uart_tx"} : scrub[t] # NULL => scrub[t] \in Range(pool)
  /\ AliasOfUdpTx
LearnedTables ==
  /\ node_table \subseteq Senders(UdpChunks)
  /\ forward_for_nodes \subseteq Senders(UartChunks)
WayToUart == \A b \in OnTheWayToUart : \E c \in UdpChunks : mem[b] = <<c>>
WayToUdp == \A b \in OnTheWayToUdp : Range(mem[b]) \subseteq UartChunks

Contained == Aliases /\ LearnedTables /\ WayToUart /\ WayToUdp
ContentInv == ClientInv /\ PooledIsScrubbed /\ Contained

LEMMA ContainedFacts ==
  Contained => OnlyUdpTxLate /\ UdpPacketsIntact /\ NoEcho
<1> SUFFICES ASSUME Contained PROVE OnlyUdpTxLate /\ UdpPacketsIntact /\ NoEcho
  OBVIOUS
<1>1. OnlyUdpTxLate
  BY DEF Contained, Aliases, OnlyUdpTxLate, Threads, Running
<1>2. \A c : Len(<<c>>) = 1 /\ Head(<<c>>) = c
  OBVIOUS
<1>3. UdpPacketsIntact
  BY <1>2 DEF Contained, WayToUart, UdpPacketsIntact
<1> QED  BY <1>1, <1>3 DEF Contained, NoEcho, LearnedTables, WayToUdp

LEMMA NothingEchoed == Range(Zeroed) = {}
BY DEF Range, Zeroed

(* The sets of buffers are apart (OneOwner).                               *)
LEMMA WaysApart ==
  ASSUME ClientInv
  PROVE  /\ pool \in Seq(Buffers) /\ IsInjective(pool)
         /\ Range(pool) \subseteq Buffers
         /\ OnTheWayToUart \subseteq Buffers /\ OnTheWayToUdp \subseteq Buffers
         /\ Range(pool) \cap OnTheWayToUart = {} /\ Range(pool) \cap OnTheWayToUdp = {}
         /\ OnTheWayToUart \cap OnTheWayToUdp = {}
         /\ \A t \in Threads : pkt[t] # NULL => pkt[t] \in Buffers /\ pkt[t] \notin Range(pool)
<1>1. /\ ClientProofs!TypeOK /\ ClientProofs!Apart
      /\ QueueTypes /\ PktType /\ QueuesApart
  BY ClientParameters, ClientProofs!OneOwnerParts, TypeParts
     DEF ClientProofs!PoolAssumption, ClientInv, Inv
<1>2. /\ IsInjective(pool) /\ \A b \in InTransit : b \notin Range(pool)
      /\ \A t \in Threads : pkt[t] # NULL => pkt[t] \notin Range(pool) /\ pkt[t] \notin InTransit
      /\ \A t, u \in Threads : pkt[t] # NULL /\ pkt[t] = pkt[u] => t = u
      /\ InTransit \subseteq Buffers
  BY <1>1 DEF ClientProofs!TypeOK, ClientProofs!Apart, ClientProofs!Range, Range,
              ClientProofs!IsInjective, IsInjective
<1>3. pool \in Seq(Buffers) /\ Range(pool) \subseteq Buffers
  BY <1>1, RangeOfSeq DEF QueueTypes
<1>4. \A t \in Threads : pkt[t] # NULL => pkt[t] \in Buffers
  BY <1>1 DEF PktType
<1>5. OnTheWayToUart \subseteq Buffers /\ OnTheWayToUdp \subseteq Buffers
  BY <1>2, <1>4 DEF OnTheWayToUart, OnTheWayToUdp, InTransit, Threads
<1>6. Range(pool) \cap OnTheWayToUart = {} /\ Range(pool) \cap OnTheWayToUdp = {}
  BY <1>2 DEF OnTheWayToUart, OnTheWayToUdp, InTransit, Threads
<1>7. ASSUME NEW b \in OnTheWayToUart PROVE b \notin OnTheWayToUdp
  <2>1. CASE b \in Range(UDPtoUART)
    BY <1>1, <1>2, <2>1 DEF OnTheWayToUdp, InTransit, Threads, QueuesApart
  <2>2. CASE b # NULL /\ b \in {pkt["udp_rx"], pkt["uart_tx"]}
    BY <1>2, <2>2 DEF OnTheWayToUdp, InTransit, Threads
  <2> QED  BY <2>1, <2>2 DEF OnTheWayToUart
<1> QED  BY <1>2, <1>3, <1>4, <1>5, <1>6, <1>7

(* Nothing new comes in, and no content changes.                           *)
LEMMA MoveContained ==
  ASSUME Contained, UNCHANGED <<pool, mem, scrub>>, LearnedTables',
         OnTheWayToUart' \subseteq OnTheWayToUart, OnTheWayToUdp' \subseteq OnTheWayToUdp
  PROVE  Contained'
<1>1. Aliases'
  BY DEF Contained, Aliases, AliasOfUdpTx
<1>2. WayToUart' /\ WayToUdp'
  BY DEF Contained, WayToUart, WayToUdp
<1> QED  BY <1>1, <1>2 DEF Contained

LEMMA SameTables ==
  ASSUME Contained, UNCHANGED tables PROVE LearnedTables'
BY DEF Contained, LearnedTables, tables

LEMMA StutterContained ==
  ASSUME Contained, UNCHANGED <<pool, mem, pkt, scrub, queues>>, LearnedTables'
  PROVE  Contained'
<1>1. OnTheWayToUart' = OnTheWayToUart /\ OnTheWayToUdp' = OnTheWayToUdp
  BY DEF OnTheWayToUart, OnTheWayToUdp, queues
<1> QED  BY <1>1, MoveContained

(* k_msgq_get and k_msgq_put: from one end of a way to another.            *)
LEMMA GetContained ==
  ASSUME ClientInv, Contained, UNCHANGED <<pool, mem, scrub, tables>>,
         \/ Get("apps", UARTtoApps) /\ UNCHANGED <<AppsToUDP, UDPtoUART>>
         \/ Get("udp_tx", AppsToUDP) /\ UNCHANGED <<UARTtoApps, UDPtoUART>>
         \/ Get("uart_tx", UDPtoUART) /\ UNCHANGED <<UARTtoApps, AppsToUDP>>
  PROVE  Contained'
<1>1. QueueTypes /\ QueuesApart /\ PktType
  BY TypeParts DEF ClientInv, Inv
<1>2. CASE Get("apps", UARTtoApps) /\ UNCHANGED <<AppsToUDP, UDPtoUART>>
  <2>1. /\ Head(UARTtoApps) \in Range(UARTtoApps)
        /\ Range(UARTtoApps') \subseteq Range(UARTtoApps)
    BY <1>1, <1>2, GetFrom DEF Get, QueueTypes, QueuesApart
  <2>2. \A t \in Threads : pkt'[t] = IF t = "apps" THEN Head(UARTtoApps) ELSE pkt[t]
    BY <1>1, <1>2 DEF Get, PktType
  <2>3. OnTheWayToUart' \subseteq OnTheWayToUart /\ OnTheWayToUdp' \subseteq OnTheWayToUdp
    BY <1>2, <2>1, <2>2 DEF OnTheWayToUart, OnTheWayToUdp, Threads
  <2> QED  BY <2>3, SameTables, MoveContained
<1>3. CASE Get("udp_tx", AppsToUDP) /\ UNCHANGED <<UARTtoApps, UDPtoUART>>
  <2>1. /\ Head(AppsToUDP) \in Range(AppsToUDP)
        /\ Range(AppsToUDP') \subseteq Range(AppsToUDP)
    BY <1>1, <1>3, GetFrom DEF Get, QueueTypes, QueuesApart
  <2>2. \A t \in Threads : pkt'[t] = IF t = "udp_tx" THEN Head(AppsToUDP) ELSE pkt[t]
    BY <1>1, <1>3 DEF Get, PktType
  <2>3. OnTheWayToUart' \subseteq OnTheWayToUart /\ OnTheWayToUdp' \subseteq OnTheWayToUdp
    BY <1>3, <2>1, <2>2 DEF OnTheWayToUart, OnTheWayToUdp, Threads
  <2> QED  BY <2>3, SameTables, MoveContained
<1>4. CASE Get("uart_tx", UDPtoUART) /\ UNCHANGED <<UARTtoApps, AppsToUDP>>
  <2>1. /\ Head(UDPtoUART) \in Range(UDPtoUART)
        /\ Range(UDPtoUART') \subseteq Range(UDPtoUART)
    BY <1>1, <1>4, GetFrom DEF Get, QueueTypes, QueuesApart
  <2>2. \A t \in Threads : pkt'[t] = IF t = "uart_tx" THEN Head(UDPtoUART) ELSE pkt[t]
    BY <1>1, <1>4 DEF Get, PktType
  <2>3. OnTheWayToUart' \subseteq OnTheWayToUart /\ OnTheWayToUdp' \subseteq OnTheWayToUdp
    BY <1>4, <2>1, <2>2 DEF OnTheWayToUart, OnTheWayToUdp, Threads
  <2> QED  BY <2>3, SameTables, MoveContained
<1> QED  BY <1>2, <1>3, <1>4

LEMMA PutContained ==
  ASSUME ClientInv, Contained, UNCHANGED <<pool, mem, scrub, tables>>,
         NEW t \in {"uart_rx", "apps", "udp_rx"}, pkt[t] # NULL,
         \/ t = "uart_rx" /\ Put(t, UARTtoApps) /\ UNCHANGED <<AppsToUDP, UDPtoUART>>
         \/ t = "apps" /\ Put(t, AppsToUDP) /\ UNCHANGED <<UARTtoApps, UDPtoUART>>
         \/ t = "udp_rx" /\ Put(t, UDPtoUART) /\ UNCHANGED <<UARTtoApps, AppsToUDP>>
  PROVE  Contained'
<1>1. QueueTypes /\ PktType /\ pkt[t] \in Buffers /\ t \in Threads
  BY TypeParts, PktContents DEF ClientInv, Inv, Threads
<1>2. \A u \in Threads : pkt'[u] = IF u = t THEN NULL ELSE pkt[u]
  BY <1>1 DEF Put, PktType
<1>3. CASE t = "uart_rx" /\ Put(t, UARTtoApps) /\ UNCHANGED <<AppsToUDP, UDPtoUART>>
  <2>1. Range(UARTtoApps') = Range(UARTtoApps) \cup {pkt[t]}
    BY <1>1, <1>3, PutTo DEF Put, QueueTypes
  <2>2. OnTheWayToUart' \subseteq OnTheWayToUart /\ OnTheWayToUdp' \subseteq OnTheWayToUdp
    BY <1>2, <1>3, <2>1 DEF OnTheWayToUart, OnTheWayToUdp, Threads
  <2> QED  BY <2>2, SameTables, MoveContained
<1>4. CASE t = "apps" /\ Put(t, AppsToUDP) /\ UNCHANGED <<UARTtoApps, UDPtoUART>>
  <2>1. Range(AppsToUDP') = Range(AppsToUDP) \cup {pkt[t]}
    BY <1>1, <1>4, PutTo DEF Put, QueueTypes
  <2>2. OnTheWayToUart' \subseteq OnTheWayToUart /\ OnTheWayToUdp' \subseteq OnTheWayToUdp
    BY <1>2, <1>4, <2>1 DEF OnTheWayToUart, OnTheWayToUdp, Threads
  <2> QED  BY <2>2, SameTables, MoveContained
<1>5. CASE t = "udp_rx" /\ Put(t, UDPtoUART) /\ UNCHANGED <<UARTtoApps, AppsToUDP>>
  <2>1. Range(UDPtoUART') = Range(UDPtoUART) \cup {pkt[t]}
    BY <1>1, <1>5, PutTo DEF Put, QueueTypes
  <2>2. OnTheWayToUart' \subseteq OnTheWayToUart /\ OnTheWayToUdp' \subseteq OnTheWayToUdp
    BY <1>2, <1>5, <2>1 DEF OnTheWayToUart, OnTheWayToUdp, Threads
  <2> QED  BY <2>2, SameTables, MoveContained
<1> QED  BY <1>3, <1>4, <1>5

(* feed fetches: what is left in the buffer came from the UART, too.       *)
LEMMA FeedFetchContained ==
  ASSUME ContentInv, MayRun("uart_rx"), FeedFetch PROVE Contained'
<1>1. /\ Running("uart_rx") /\ Running("uart_tx")
      /\ scrub["apps"] = NULL /\ scrub["udp_rx"] = NULL
  BY DEF FeedFetch, At, MayRun, Ready, Priority, Threads, ContentInv, Contained, Aliases
<1>2. UNCHANGED <<mem, scrub, queues, tables>> /\ bp_fetch("uart_rx")
  BY DEF FeedFetch, bp_fetch
<1>3. LearnedTables'
  BY <1>2, SameTables DEF ContentInv
<1>4. CASE pool = <<>>
  BY <1>2, <1>3, <1>4, StutterContained DEF ContentInv, bp_fetch
<1>5. CASE pool # <<>>
  <2>1. /\ pkt' = [pkt EXCEPT !["uart_rx"] = Head(pool)]
        /\ Head(pool) \in Range(pool) /\ Range(pool') \subseteq Range(pool)
        /\ Head(pool) \in Buffers
    BY <1>2, <1>5, WaysApart, GetFrom DEF bp_fetch, ContentInv
  <2>2. \A t \in Threads : pkt'[t] = IF t = "uart_rx" THEN Head(pool) ELSE pkt[t]
    BY <2>1, TypeParts DEF ContentInv, ClientInv, Inv, PktType
  <2>3. /\ OnTheWayToUart' = OnTheWayToUart
        /\ OnTheWayToUdp' \subseteq OnTheWayToUdp \cup {Head(pool)}
    BY <1>2, <2>2 DEF OnTheWayToUart, OnTheWayToUdp, queues, Threads
  <2>4. mem[Head(pool)] = Zeroed \/ scrub["udp_tx"] = Head(pool)
    <3>1. mem[Head(pool)] = Zeroed \/ \E t \in Threads : scrub[t] = Head(pool)
      BY <2>1 DEF ContentInv, PooledIsScrubbed
    <3> QED  BY <1>1, <2>1, <3>1, Parameters DEF Running, Threads
  <2>5. Range(mem[Head(pool)]) \subseteq UartChunks
    BY <2>1, <2>4, NothingEchoed, Parameters
       DEF ContentInv, Contained, Aliases, AliasOfUdpTx
  <2>6. Aliases'
    BY <1>1, <1>2, <2>3 DEF ContentInv, Contained, Aliases, AliasOfUdpTx, Running
  <2>7. WayToUart' /\ WayToUdp'
    BY <1>2, <2>3, <2>5 DEF ContentInv, Contained, WayToUart, WayToUdp
  <2> QED  BY <1>3, <2>6, <2>7 DEF Contained
<1> QED  BY <1>4, <1>5

(* Nobody is inside bp_relinquish when udp_rx takes in a datagram.         *)
LEMMA UdpRxRecvContained ==
  ASSUME ContentInv, MayRun("udp_rx"), UdpRxRecv PROVE Contained'
<1>1. \A t \in Threads : scrub[t] = NULL
  BY DEF UdpRxRecv, At, MayRun, Ready, AtBlockingCall, Running, Priority, Threads,
         ContentInv, Contained, Aliases
<1>2. UNCHANGED <<scrub, queues, tables>> /\ bp_fetch("udp_rx")
  BY DEF UdpRxRecv, bp_fetch
<1>3. LearnedTables'
  BY <1>2, SameTables DEF ContentInv
<1>4. CASE pool = <<>>
  BY <1>2, <1>3, <1>4, StutterContained DEF ContentInv, bp_fetch, UdpRxRecv
<1>5. CASE pool # <<>>
  <2>1. PICK c \in UdpChunks : mem' = [mem EXCEPT ![Head(pool)] = <<c>>]
    BY <1>5 DEF UdpRxRecv
  <2>2. /\ pkt' = [pkt EXCEPT !["udp_rx"] = Head(pool)]
        /\ Head(pool) \in Range(pool) /\ Head(pool) \in Buffers
    BY <1>2, <1>5, WaysApart, GetFrom DEF bp_fetch, ContentInv
  <2>3. \A t \in Threads : pkt'[t] = IF t = "udp_rx" THEN Head(pool) ELSE pkt[t]
    BY <2>2, TypeParts DEF ContentInv, ClientInv, Inv, PktType
  <2>4. /\ OnTheWayToUart' \subseteq OnTheWayToUart \cup {Head(pool)}
        /\ OnTheWayToUdp' = OnTheWayToUdp
    BY <1>2, <2>3 DEF OnTheWayToUart, OnTheWayToUdp, queues, Threads
  <2>5. /\ mem'[Head(pool)] = <<c>>
        /\ \A b \in Buffers : b # Head(pool) => mem'[b] = mem[b]
    BY <2>1, <2>2, TypeParts DEF ContentInv, ClientInv, Inv, DataTypes
  <2>6. /\ OnTheWayToUart \subseteq Buffers /\ OnTheWayToUdp \subseteq Buffers
        /\ Head(pool) \notin OnTheWayToUdp
    BY <2>2, WaysApart DEF ContentInv
  <2>7. Aliases'
    BY <1>1, <1>2 DEF Aliases, AliasOfUdpTx, Threads
  <2>8. WayToUart' /\ WayToUdp'
    BY <2>4, <2>5, <2>6 DEF ContentInv, Contained, WayToUart, WayToUdp
  <2> QED  BY <1>3, <2>7, <2>8 DEF Contained
<1> QED  BY <1>4, <1>5

(* A byte of the frame that uart_rx receives.                              *)
LEMMA RangeAppend ==
  ASSUME NEW S, NEW s \in Seq(S), NEW x \in S
  PROVE  Range(Append(s, x)) \subseteq Range(s) \cup {x}
<1>1. /\ DOMAIN Append(s, x) = 1 .. Len(s) + 1 /\ DOMAIN s = 1 .. Len(s) /\ Len(s) \in Nat
      /\ \A i \in 1 .. Len(s) : Append(s, x)[i] = s[i]
      /\ Append(s, x)[Len(s) + 1] = x
  OBVIOUS
<1>2. \A i \in 1 .. Len(s) + 1 : i \in 1 .. Len(s) \/ i = Len(s) + 1
  BY <1>1
<1> QED  BY <1>1, <1>2, Zenon DEF Range

LEMMA FeedAppendContained == ASSUME ContentInv, FeedAppend PROVE Contained'
<1>1. pkt["uart_rx"] # NULL /\ "uart_rx" \in Threads
  BY PacketAt DEF FeedAppend, ContentInv, Threads
<1>2. PICK c \in UartChunks :
        mem' = [mem EXCEPT ![pkt["uart_rx"]] = Append(mem[pkt["uart_rx"]], c)]
  BY DEF FeedAppend
<1>3. UNCHANGED <<pool, pkt, scrub, queues, tables>>
  BY DEF FeedAppend
<1>4. /\ OnTheWayToUart' = OnTheWayToUart /\ OnTheWayToUdp' = OnTheWayToUdp
      /\ pkt["uart_rx"] \in OnTheWayToUdp
  BY <1>1, <1>3 DEF OnTheWayToUart, OnTheWayToUdp, queues
<1>5. /\ pkt["uart_rx"] \in Buffers /\ pkt["uart_rx"] \notin OnTheWayToUart
      /\ OnTheWayToUart \subseteq Buffers /\ OnTheWayToUdp \subseteq Buffers
  BY <1>1, <1>4, WaysApart DEF ContentInv
<1>6. /\ mem'[pkt["uart_rx"]] = Append(mem[pkt["uart_rx"]], c)
      /\ \A b : b # pkt["uart_rx"] => mem'[b] = mem[b]
      /\ mem[pkt["uart_rx"]] \in Contents
  BY <1>2, <1>5, TypeParts DEF ContentInv, ClientInv, Inv, DataTypes
<1>7. mem[pkt["uart_rx"]] \in Seq(Chunks) /\ c \in Chunks
  BY <1>6, Parameters DEF Contents, Chunks
<1>8. Range(mem'[pkt["uart_rx"]]) \subseteq UartChunks
  BY <1>4, <1>6, <1>7, RangeAppend DEF ContentInv, Contained, WayToUdp
<1>9. Aliases'
  BY <1>3, <1>4, <1>6, <1>8 DEF ContentInv, Contained, Aliases, AliasOfUdpTx
<1>10. WayToUart' /\ WayToUdp'
  BY <1>4, <1>5, <1>6, <1>8 DEF ContentInv, Contained, WayToUart, WayToUdp
<1>11. LearnedTables'
  BY <1>3, SameTables DEF ContentInv
<1> QED  BY <1>9, <1>10, <1>11 DEF Contained

(* Of the three threads that relinquish, only udp_tx can be overtaken by   *)
(* one that fetches; and it had a packet from the UART.                    *)
LEMMA RelinquishContained ==
  ASSUME ContentInv, NEW t \in {"uart_rx", "uart_tx", "udp_tx"}, pkt[t] # NULL,
         bp_relinquish(t), UNCHANGED <<mem, queues>>, LearnedTables'
  PROVE  Contained'
<1>1. t \in Threads
  BY DEF Threads
<1>2. /\ pkt[t] \in Buffers /\ pool \in Seq(Buffers) /\ Len(pool) < PoolCap
      /\ PktType /\ UseTypes
  BY <1>1, WaysApart, InvNeverOverflows, TypeParts
     DEF ContentInv, ClientInv, NeverOverflows, Inv
<1>3. /\ pool' = Append(pool, pkt[t]) /\ scrub' = [scrub EXCEPT ![t] = pkt[t]]
      /\ pkt' = [pkt EXCEPT ![t] = NULL]
  BY <1>2 DEF bp_relinquish
<1>4. Range(pool') = Range(pool) \cup {pkt[t]}
  BY <1>2, <1>3, PutTo
<1>5. \A u \in Threads : /\ scrub'[u] = IF u = t THEN pkt[t] ELSE scrub[u]
                         /\ pkt'[u] = IF u = t THEN NULL ELSE pkt[u]
  BY <1>1, <1>2, <1>3 DEF PktType, UseTypes
<1>6. OnTheWayToUart' \subseteq OnTheWayToUart /\ OnTheWayToUdp' \subseteq OnTheWayToUdp
  BY <1>5 DEF OnTheWayToUart, OnTheWayToUdp, queues, Threads
<1>7. t = "udp_tx" => pkt[t] \in OnTheWayToUdp /\ pkt[t] \notin OnTheWayToUart
  BY WaysApart DEF OnTheWayToUdp, ContentInv
<1>8. \A u \in {"uart_rx", "uart_tx"} : scrub'[u] # NULL => scrub'[u] \in Range(pool')
  BY <1>4, <1>5 DEF ContentInv, Contained, Aliases, Threads
<1>9. AliasOfUdpTx'
  BY <1>5, <1>6, <1>7
     DEF ContentInv, Contained, Aliases, AliasOfUdpTx, WayToUdp, Threads
<1>10. Aliases'
  BY <1>5, <1>8, <1>9 DEF ContentInv, Contained, Aliases, Threads
<1>11. WayToUart' /\ WayToUdp'
  BY <1>6 DEF ContentInv, Contained, WayToUart, WayToUdp
<1> QED  BY <1>10, <1>11 DEF Contained

LEMMA MemsetContained ==
  ASSUME ContentInv, NEW t \in Threads, Memset(t) PROVE Contained'
<1>1. /\ mem' = [mem EXCEPT ![scrub[t]] = Zeroed] /\ scrub' = [scrub EXCEPT ![t] = NULL]
      /\ scrub[t] # NULL /\ UNCHANGED <<pool, pkt, queues, tables>>
  BY DEF Memset, bp_relinquish_memset, Running
<1>2. scrub[t] \notin OnTheWayToUart
  BY <1>1, WaysApart DEF ContentInv, Contained, Aliases, AliasOfUdpTx, Threads
<1>3. OnTheWayToUart' = OnTheWayToUart /\ OnTheWayToUdp' = OnTheWayToUdp
  BY <1>1 DEF OnTheWayToUart, OnTheWayToUdp, queues
<1>4. \A b \in Buffers : mem'[b] = IF b = scrub[t] THEN Zeroed ELSE mem[b]
  BY <1>1, TypeParts DEF ContentInv, ClientInv, Inv, DataTypes
<1>5. \A u \in Threads : /\ scrub'[u] = IF u = t THEN NULL ELSE scrub[u]
                         /\ scrub[u] \in Buffers \cup {NULL}
  BY <1>1, TypeParts DEF ContentInv, ClientInv, Inv, UseTypes
<1>6. OnTheWayToUart \subseteq Buffers /\ OnTheWayToUdp \subseteq Buffers
  BY WaysApart DEF ContentInv
<1>7. AliasOfUdpTx'
  BY <1>3, <1>4, <1>5, NothingEchoed DEF ContentInv, Contained, Aliases, AliasOfUdpTx, Threads
<1>8. Aliases'
  BY <1>1, <1>5, <1>7 DEF ContentInv, Contained, Aliases, Threads
<1>9. WayToUart' /\ WayToUdp'
  BY <1>2, <1>3, <1>4, <1>6, NothingEchoed DEF ContentInv, Contained, WayToUart, WayToUdp
<1>10. LearnedTables'
  BY <1>1, SameTables DEF ContentInv
<1> QED  BY <1>8, <1>9, <1>10 DEF Contained

LEMMA EmptyContained ==
  ASSUME UARTtoApps = <<>>, AppsToUDP = <<>>, UDPtoUART = <<>>,
         pkt = [t \in Threads |-> NULL], scrub = [t \in Threads |-> NULL],
         node_table = {}, forward_for_nodes = {}
  PROVE  Contained
<1>1. OnTheWayToUart = {} /\ OnTheWayToUdp = {}
  BY DEF OnTheWayToUart, OnTheWayToUdp, Threads, Range
<1> QED
  BY <1>1 DEF Contained, Aliases, AliasOfUdpTx, LearnedTables, WayToUart, WayToUdp, Threads

LEMMA RebootContained == ASSUME Reboot PROVE Contained'
<1>1. OnTheWayToUart' = {} /\ OnTheWayToUdp' = {}
  BY DEF Reboot, PoolReboot, OnTheWayToUart, OnTheWayToUdp, Threads, Range
<1> QED
  BY <1>1 DEF Reboot, PoolReboot, Contained, Aliases, AliasOfUdpTx, LearnedTables,
              WayToUart, WayToUdp, Threads

LEMMA UartRxContained ==
  ASSUME ContentInv, MayRun("uart_rx"), uart_rx PROVE Contained'
<1>1. CASE FeedFetch
  BY <1>1, FeedFetchContained
<1>2. CASE FeedAppend
  BY <1>2, FeedAppendContained
<1>3. CASE FeedAbort \/ FeedComplete
  <2>1. pkt["uart_rx"] # NULL
    BY <1>3, PacketAt DEF FeedAbort, FeedComplete, ContentInv, Threads
  <2>2. /\ UNCHANGED <<mem, queues, tables>>
        /\ bp_relinquish("uart_rx") \/ UNCHANGED <<pool, pkt, scrub>>
    BY <1>3 DEF FeedAbort, FeedComplete
  <2>3. LearnedTables'
    BY <2>2, SameTables DEF ContentInv
  <2> QED  BY <2>1, <2>2, <2>3, RelinquishContained, StutterContained DEF ContentInv
<1>4. CASE FeedPut
  <2>1. pkt["uart_rx"] # NULL
    BY <1>4, PacketAt DEF FeedPut, ContentInv, Threads
  <2> QED  BY <1>4, <2>1, PutContained DEF FeedPut, ContentInv
<1>5. CASE Memset("uart_rx")
  BY <1>5, MemsetContained DEF Threads
<1> QED  BY <1>1, <1>2, <1>3, <1>4, <1>5 DEF uart_rx

LEMMA AppsContained == ASSUME ContentInv, apps PROVE Contained'
<1>1. CASE AppsGet
  BY <1>1, GetContained DEF AppsGet, ContentInv
<1>2. CASE AppsHandle
  <2>1. Reboot \/ UNCHANGED <<pool, mem, pkt, scrub, queues, tables>>
    BY <1>2 DEF AppsHandle
  <2> QED  BY <2>1, RebootContained, StutterContained, SameTables DEF ContentInv
<1>3. CASE AppsPut
  <2>1. pkt["apps"] # NULL
    BY <1>3, PacketAt DEF AppsPut, ContentInv, Threads
  <2> QED  BY <1>3, <2>1, PutContained DEF AppsPut, ContentInv
<1>4. CASE Memset("apps")
  BY <1>4, MemsetContained DEF Threads
<1> QED  BY <1>1, <1>2, <1>3, <1>4 DEF apps

(* udp_tx learns from a packet of the UART ...                             *)
LEMMA UdpTxContained == ASSUME ContentInv, udp_tx PROVE Contained'
<1>1. CASE UdpTxGet
  BY <1>1, GetContained DEF UdpTxGet, ContentInv
<1>2. CASE UdpTxLearn
  <2> DEFINE c == mem[pkt["udp_tx"]]
  <2>1. pkt["udp_tx"] # NULL /\ "udp_tx" \in Threads
    BY <1>2, PacketAt DEF UdpTxLearn, ContentInv, Threads
  <2>2. /\ UNCHANGED <<mem, queues, node_table>>
        /\ bp_relinquish("udp_tx") \/ UNCHANGED <<pool, pkt, scrub>>
        /\ forward_for_nodes' = IF HasSender(c) THEN Touched(forward_for_nodes, Head(c).src)
                                                ELSE forward_for_nodes
    BY <1>2 DEF UdpTxLearn
  <2>3. Range(c) \subseteq UartChunks
    BY <2>1 DEF ContentInv, Contained, WayToUdp, OnTheWayToUdp
  <2>4. c \in Seq(Chunks)
    BY <2>1, PktContents, Parameters DEF ContentInv, ClientInv, Contents
  <2>5. c # <<>> => Head(c) \in Range(c)
    <3>1. c # <<>> => Head(c) = c[1] /\ 1 \in 1 .. Len(c) /\ DOMAIN c = 1 .. Len(c)
      BY <2>4
    <3> QED  BY <3>1, Zenon DEF Range
  <2>6. HasSender(c) => Head(c).src \in Senders(UartChunks)
    BY <2>3, <2>5 DEF HasSender, Senders
  <2>7. LearnedTables'
    BY <2>2, <2>6 DEF ContentInv, Contained, LearnedTables, Touched
  <2> QED  BY <2>1, <2>2, <2>7, RelinquishContained, StutterContained DEF ContentInv
<1>3. CASE UdpTxSend
  <2>1. pkt["udp_tx"] # NULL
    BY <1>3, PacketAt DEF UdpTxSend, ContentInv, Threads
  <2> QED  BY <1>3, <2>1, RelinquishContained, SameTables DEF UdpTxSend, ContentInv
<1>4. CASE Memset("udp_tx")
  BY <1>4, MemsetContained DEF Threads
<1> QED  BY <1>1, <1>2, <1>3, <1>4 DEF udp_tx

(* ... and uart_tx from one that udp_rx has received.                      *)
LEMMA UartTxContained == ASSUME ContentInv, uart_tx PROVE Contained'
<1>1. CASE UartTxGet
  BY <1>1, GetContained DEF UartTxGet, ContentInv
<1>2. CASE UartTxValidate
  <2> DEFINE c == mem[pkt["uart_tx"]]
  <2>1. pkt["uart_tx"] # NULL /\ "uart_tx" \in Threads
    BY <1>2, PacketAt DEF UartTxValidate, ContentInv, Threads
  <2>2. /\ UNCHANGED <<mem, queues, forward_for_nodes>>
        /\ bp_relinquish("uart_tx") \/ UNCHANGED <<pool, pkt, scrub>>
        /\ node_table' = Touched(node_table, Head(c).src) \/ node_table' = node_table
    BY <1>2 DEF UartTxValidate
  <2>3. PICK x \in UdpChunks : c = <<x>>
    BY <2>1 DEF ContentInv, Contained, WayToUart, OnTheWayToUart
  <2>4. Head(c).src \in Senders(UdpChunks)
    BY <2>3 DEF Senders
  <2>5. LearnedTables'
    BY <2>2, <2>4 DEF ContentInv, Contained, LearnedTables, Touched
  <2> QED  BY <2>1, <2>2, <2>5, RelinquishContained, StutterContained DEF ContentInv
<1>3. CASE UartTxWrite
  <2>1. pkt["uart_tx"] # NULL
    BY <1>3, PacketAt DEF UartTxWrite, ContentInv, Threads
  <2> QED  BY <1>3, <2>1, RelinquishContained, SameTables DEF UartTxWrite, ContentInv
<1>4. CASE Memset("uart_tx")
  BY <1>4, MemsetContained DEF Threads
<1> QED  BY <1>1, <1>2, <1>3, <1>4 DEF uart_tx

LEMMA UdpRxContained ==
  ASSUME ContentInv, MayRun("udp_rx"), udp_rx PROVE Contained'
<1>1. CASE UdpRxOpen \/ UdpRxError
  BY <1>1, StutterContained, SameTables DEF UdpRxOpen, UdpRxError, ContentInv
<1>2. CASE UdpRxRecv
  BY <1>2, UdpRxRecvContained
<1>3. CASE UdpRxPut
  <2>1. pkt["udp_rx"] # NULL
    BY <1>3, PacketAt DEF UdpRxPut, ContentInv, Threads
  <2> QED  BY <1>3, <2>1, PutContained DEF UdpRxPut, ContentInv
<1>4. CASE Memset("udp_rx")
  BY <1>4, MemsetContained DEF Threads
<1> QED  BY <1>1, <1>2, <1>3, <1>4 DEF udp_rx

LEMMA PriorityStepContained ==
  Contained /\ ClientInv /\ PooledIsScrubbed /\ [PriorityNext]_vars => Contained'
<1> SUFFICES ASSUME ContentInv, [PriorityNext]_vars PROVE Contained'
  BY DEF ContentInv
<1>1. CASE Expire
  <2>1. LearnedTables'
    BY <1>1 DEF Expire, ContentInv, Contained, LearnedTables
  <2> QED  BY <1>1, <2>1, StutterContained DEF Expire, ContentInv
<1>2. CASE UNCHANGED vars
  <2>1. LearnedTables'
    BY <1>2 DEF vars, ContentInv, Contained, LearnedTables
  <2> QED  BY <1>2, <2>1, StutterContained DEF vars, queues, ContentInv
<1> QED
  BY <1>1, <1>2, UartRxContained, AppsContained, UdpTxContained, UartTxContained,
     UdpRxContained DEF PriorityNext

(* PrioritySpec allows no step that Spec does not.                         *)
LEMMA PriorityImplements == PrioritySpec => Spec
BY PriorityNextIsNext, PTL DEF PrioritySpec, Spec

THEOREM ContentInductive == PrioritySpec => []Contained
<1>1. Init => Contained
  BY EmptyContained DEF Init, PoolInit
<1> QED
  BY <1>1, PriorityStepContained, PriorityImplements, ClientInductive, PipelineScrubs, PTL
     DEF PrioritySpec

(* However late a thread is with the memset at the end of bp_relinquish,   *)
(* the buffer is still free, unless that thread is udp_tx.                 *)
THEOREM OthersScrubInTime == PrioritySpec => []OnlyUdpTxLate
<1> QED  BY ContentInductive, ContainedFacts, PTL

(* From udp_rx's memcpy to uart_tx's last byte, what was received is not   *)
(* wiped by the memset of another thread.                                  *)
THEOREM UdpPacketsArrive == PrioritySpec => []UdpPacketsIntact
<1> QED  BY ContentInductive, ContainedFacts, PTL

(* Nothing goes back to where it came from: the packets to UDP have only   *)
(* bytes of the UART in them, although feed does not clear its buffer, and *)
(* each of the node tables knows only nodes of its side.                   *)
THEOREM NothingComesBack == PrioritySpec => []NoEcho
<1> QED  BY ContentInductive, ContainedFacts, PTL

-----------------------------------------------------------------------------
(* The way to the UART as a link for one packet.  It is the link of        *)
(* OrderedToUart; that at most one buffer is on the way narrows what its   *)
(* steps can be, and a packet cannot have been wiped if nothing on the way *)
(* is ever empty.                                                          *)

PromptInv == ChainInv /\ Contained /\ OneOnTheWayToUart

LEMMA PromptFacts ==
  PromptInv => /\ LinkToUart \in Seq(Contents) /\ Len(LinkToUart) <= 1
               /\ \A i \in DOMAIN LinkToUart : LinkToUart[i] # Zeroed
<1> SUFFICES ASSUME PromptInv
             PROVE  /\ LinkToUart \in Seq(Contents) /\ Len(LinkToUart) <= 1
                    /\ \A i \in DOMAIN LinkToUart : LinkToUart[i] # Zeroed
  OBVIOUS
<1>1. /\ mem \in [Buffers -> Contents] /\ UartChain \in Seq(Buffers)
      /\ LinkToUart = ContentsOf(mem, UartChain)
  BY LinksAreChains DEF PromptInv
<1>2. /\ ContentsOf(mem, UartChain) \in Seq(Contents)
      /\ Len(ContentsOf(mem, UartChain)) = Len(UartChain)
      /\ DOMAIN ContentsOf(mem, UartChain) = 1 .. Len(UartChain)
      /\ \A i \in 1 .. Len(UartChain) : ContentsOf(mem, UartChain)[i] = mem[UartChain[i]]
  BY <1>1, ContentsOfType
<1>3. Len(UartChain) <= 1
  BY UartChainFacts DEF PromptInv, OneOnTheWayToUart
<1>4. Range(UartChain) = OnTheWayToUart
  BY UartChainFacts DEF PromptInv, OnTheWayToUart
<1>5. \A c : <<c>> # Zeroed
  BY DEF Zeroed
<1>6. ASSUME NEW i \in 1 .. Len(UartChain) PROVE mem[UartChain[i]] # Zeroed
  <2>1. DOMAIN UartChain = 1 .. Len(UartChain)
    BY <1>1
  <2>2. UartChain[i] \in OnTheWayToUart
    BY <1>4, <2>1 DEF Range
  <2>3. PICK c \in UdpChunks : mem[UartChain[i]] = <<c>>
    BY <2>2 DEF PromptInv, Contained, WayToUart
  <2> QED  BY <1>5, <2>3
<1> QED  BY <1>1, <1>2, <1>3, <1>6

LEMMA PromptFactsNext ==
  PromptInv' => /\ LinkToUart' \in Seq(Contents) /\ Len(LinkToUart') <= 1
                /\ \A i \in DOMAIN LinkToUart' : LinkToUart'[i] # Zeroed
<1>1. (PromptInv => /\ LinkToUart \in Seq(Contents) /\ Len(LinkToUart) <= 1
                    /\ \A i \in DOMAIN LinkToUart : LinkToUart[i] # Zeroed)'
  BY PromptFacts, PTL
<1> QED  BY <1>1 DEF Zeroed

LEMMA PromptStep ==
  ASSUME NEW l \in Seq(Contents), NEW k \in Seq(Contents), Len(l) <= 1, Len(k) <= 1,
         \A i \in DOMAIN k : k[i] # Zeroed, NEW cap, LinkStep(l, k, cap)
  PROVE  \/ k = l
         \/ Len(l) < 1 /\ \E p \in Contents : k = Append(l, p)
         \/ l # <<>> /\ k = Tail(l)
         \/ k = <<>>
<1>1. CASE \E p \in Contents : k = Append(l, p)
  BY <1>1, SeqFacts
<1>2. ~ \E i \in DOMAIN l : k = [l EXCEPT ![i] = Zeroed]
  <2> SUFFICES ASSUME NEW i \in DOMAIN l, k = [l EXCEPT ![i] = Zeroed] PROVE FALSE
    OBVIOUS
  <2>1. i \in DOMAIN k /\ k[i] = Zeroed
    OBVIOUS
  <2> QED  BY <2>1
<1> QED  BY <1>1, <1>2 DEF LinkStep

(* Under the priorities of the threads what udp_rx takes in goes out to    *)
(* the UART one packet at a time, in order, none lost, twice or wiped.     *)
THEOREM PromptToUartOrdered == PrioritySpec => PromptLinkToUartSpec
<1>1. Init => PromptToUart!Init
  BY LinksInit DEF PromptToUart!Init
<1>2. PromptInv /\ PromptInv' /\ [Next]_vars => [PromptToUart!Next]_LinkToUart
  <2> SUFFICES ASSUME PromptInv, PromptInv', [Next]_vars
               PROVE  [PromptToUart!Next]_LinkToUart
    OBVIOUS
  <2>1. LinkToUart \in Seq(Contents) /\ Len(LinkToUart) <= 1
    BY PromptFacts
  <2>2. /\ LinkToUart' \in Seq(Contents) /\ Len(LinkToUart') <= 1
        /\ \A i \in DOMAIN LinkToUart' : LinkToUart'[i] # Zeroed
    BY PromptFactsNext
  <2>3. LinkStep(LinkToUart, LinkToUart', QCap + 2)
    BY LinksStep DEF PromptInv
  <2>4. \/ LinkToUart' = LinkToUart
        \/ Len(LinkToUart) < 1 /\ \E p \in Contents : LinkToUart' = Append(LinkToUart, p)
        \/ LinkToUart # <<>> /\ LinkToUart' = Tail(LinkToUart)
        \/ LinkToUart' = <<>>
    BY <2>1, <2>2, <2>3, PromptStep
  <2> QED
    BY <2>4 DEF PromptToUart!Next, PromptToUart!Accept, PromptToUart!Leave,
                PromptToUart!Restart
<1>3. PrioritySpec => []PromptInv
  <2>1. PrioritySpec => []ChainInv
    BY PriorityImplements, ChainInductive
  <2>2. PrioritySpec => []Contained
    BY ContentInductive
  <2>3. PrioritySpec => []OneOnTheWayToUart
    BY OnePacketToUart
  <2>4. ChainInv /\ Contained /\ OneOnTheWayToUart => PromptInv
    BY DEF PromptInv
  <2> QED  BY <2>1, <2>2, <2>3, <2>4, PTL
<1>4. PrioritySpec => Spec
  BY PriorityImplements
<1> QED
  BY <1>1, <1>2, <1>3, <1>4, PTL DEF Spec, PromptLinkToUartSpec, PromptToUart!Spec

-----------------------------------------------------------------------------
(* What can happen to a packet on its way to UDP.                          *)

(* Its bytes change only by the receiver's own append to the frame that it *)
(* has not passed on, and by a memset of udp_tx; a restart forgets it.     *)
ToUdpChange(b) ==
  mem'[b] # mem[b] =>
    \/ /\ b = pkt["uart_rx"] /\ pc["uart_rx"] = "frame"
       /\ \E c \in UartChunks : mem'[b] = Append(mem[b], c)
    \/ b = scrub["udp_tx"] /\ mem'[b] = Zeroed
    \/ Reboot
ToUdpChanges == \A b \in OnTheWayToUdp : ToUdpChange(b)
OnlyUdpTxWipes == [][ToUdpChanges]_vars

LEMMA MemsetChanges ==
  ASSUME ContentInv, NEW t \in Threads, Memset(t) PROVE ToUdpChanges
<1>1. mem' = [mem EXCEPT ![scrub[t]] = Zeroed] /\ scrub[t] # NULL
  BY DEF Memset, bp_relinquish_memset, Running
<1>2. \A b \in Buffers : mem'[b] = IF b = scrub[t] THEN Zeroed ELSE mem[b]
  BY <1>1, TypeParts DEF ContentInv, ClientInv, Inv, DataTypes
<1>3. OnTheWayToUdp \subseteq Buffers /\ Range(pool) \cap OnTheWayToUdp = {}
  BY WaysApart DEF ContentInv
<1>4. t # "udp_tx" => scrub[t] \in Range(pool)
  BY <1>1 DEF ContentInv, Contained, Aliases, Threads
<1> QED  BY <1>2, <1>3, <1>4 DEF ToUdpChanges, ToUdpChange

LEMMA FeedAppendChanges == ASSUME ContentInv, FeedAppend PROVE ToUdpChanges
<1>1. PICK c \in UartChunks :
        mem' = [mem EXCEPT ![pkt["uart_rx"]] = Append(mem[pkt["uart_rx"]], c)]
  BY DEF FeedAppend
<1>2. pc["uart_rx"] = "frame"
  BY DEF FeedAppend, At
<1>3. \A b \in Buffers :
        mem'[b] = IF b = pkt["uart_rx"] THEN Append(mem[pkt["uart_rx"]], c) ELSE mem[b]
  BY <1>1, TypeParts DEF ContentInv, ClientInv, Inv, DataTypes
<1>4. OnTheWayToUdp \subseteq Buffers
  BY WaysApart DEF ContentInv
<1> QED  BY <1>2, <1>3, <1>4 DEF ToUdpChanges, ToUdpChange

LEMMA UdpRxRecvChanges == ASSUME ContentInv, UdpRxRecv PROVE ToUdpChanges
<1>1. CASE pool = <<>>
  BY <1>1 DEF UdpRxRecv, ToUdpChanges, ToUdpChange
<1>2. CASE pool # <<>>
  <2>1. PICK c \in UdpChunks : mem' = [mem EXCEPT ![Head(pool)] = <<c>>]
    BY <1>2 DEF UdpRxRecv
  <2>2. /\ Head(pool) \in Range(pool) /\ OnTheWayToUdp \subseteq Buffers
        /\ Range(pool) \cap OnTheWayToUdp = {}
    BY <1>2, WaysApart, GetFrom DEF ContentInv
  <2>3. \A b \in OnTheWayToUdp : mem'[b] = mem[b]
    BY <2>1, <2>2, TypeParts DEF ContentInv, ClientInv, Inv, DataTypes
  <2> QED  BY <2>3 DEF ToUdpChanges, ToUdpChange
<1> QED  BY <1>1, <1>2

(* A packet from LocalTalk that was passed on is as it was received until  *)
(* it is sent, unless udp_tx was late with the memset for the last packet  *)
(* that had this buffer: no other thread wipes it, and none adds to it.    *)
THEOREM OnlyUdpTxCanWipe == PrioritySpec => OnlyUdpTxWipes
<1>1. ContentInv /\ [PriorityNext]_vars => [ToUdpChanges]_vars
  <2> SUFFICES ASSUME ContentInv, PriorityNext PROVE ToUdpChanges
    OBVIOUS
  <2>1. CASE mem' = mem
    BY <2>1 DEF ToUdpChanges, ToUdpChange
  <2>2. CASE Reboot
    BY <2>2 DEF ToUdpChanges, ToUdpChange
  <2>3. \/ mem' = mem
        \/ Reboot
        \/ FeedAppend
        \/ UdpRxRecv
        \/ \E t \in Threads : Memset(t)
    BY DEF PriorityNext, uart_rx, apps, udp_tx, uart_tx, udp_rx, Expire, Threads,
           FeedFetch, FeedAbort, FeedComplete, FeedPut, AppsGet, AppsHandle, AppsPut,
           UdpTxGet, UdpTxLearn, UdpTxSend, UartTxGet, UartTxValidate, UartTxWrite,
           UdpRxOpen, UdpRxError, UdpRxPut
  <2> QED
    BY <2>1, <2>2, <2>3, MemsetChanges, FeedAppendChanges, UdpRxRecvChanges
<1>2. PrioritySpec => []ContentInv
  <2>1. ClientInv /\ PooledIsScrubbed /\ Contained => ContentInv
    BY DEF ContentInv
  <2> QED
    BY <2>1, ContentInductive, PriorityImplements, ClientInductive, PipelineScrubs, PTL
<1> QED  BY <1>1, <1>2, PTL DEF PrioritySpec, OnlyUdpTxWipes
===============================================================================
