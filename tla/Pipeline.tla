------------------------------- MODULE Pipeline -------------------------------
(***************************************************************************)
(* The packet pipeline of the bridge: the five threads that main starts    *)
(* (uart_rx and uart_tx of uart.c, udp_rx and udp_tx of ip.c, apps of      *)
(* apps.c), the message queues of buffer pointers between them and the     *)
(* buffer pool they all share.                                             *)
(*                                                                         *)
(*   TashTalk -> uart_rx -UARTtoApps-> apps -AppsToUDP-> udp_tx -> LToUDP  *)
(*   TashTalk <- uart_tx <------------UDPtoUART--------- udp_rx <- LToUDP  *)
(*                                                                         *)
(* A step of a thread is what it does from one kernel call that can block  *)
(* or be overtaken at to the next.  The bytes of packets are abstracted to *)
(* runs of bytes (Chunks); the byte level of the UART is in other modules. *)
(***************************************************************************)
EXTENDS Naturals, Sequences, FiniteSets, Functions

CONSTANTS
  Buffers, BufferCount, PoolCap, NULL,   \* as in BufferPool
  QCap,     \* main.c: slots of UARTtoApps, AppsToUDP and UDPtoUART, 20 each
  UartChunks, UdpChunks, \* the runs of bytes that arrive from either side
  MaxLen    \* how many of them a packet buffer takes (605 bytes)

Nodes == 0 .. 255       \* LLAP node numbers
Broadcast == 255

(* What the code tells apart in a run of bytes, once it comes first in a    *)
(* packet: the header's destination and source nodes, and whether it is     *)
(*   runt     3 bytes or less                                               *)
(*   control  an RTS or CTS, 3 bytes of header and the frame check sequence *)
(*   setap    a broadcast ATP TREQ that asks for the "airtalk setap" set-up *)
(*   bad      a packet that tashtalk_tx_validate rejects (its length field) *)
(*   data     any other                                                     *)
Kinds == {"runt", "control", "setap", "bad", "data"}

Threads == {"uart_rx", "uart_tx", "udp_rx", "udp_tx", "apps"}

(* A packet buffer: the runs of bytes appended since its length was 0.      *)
Chunks == UartChunks \cup UdpChunks
Contents == UNION {[1 .. n -> Chunks] : n \in 0 .. MaxLen}
Zeroed == <<>>

VARIABLES
  pool, mem, pkt, scrub, ohNoLed,      \* the buffer pool and its users
  UARTtoApps, AppsToUDP, UDPtoUART,    \* the queues of main.c
  pc,                                  \* where each thread is in its run loop
  node_table,         \* uart.c: nodes heard from over UDP in the last hour
  forward_for_nodes,  \* ip.c: nodes heard from on LocalTalk in the last hour
  udp_sock            \* ip.c: there is a socket (udp_sock # -1)

vars == <<pool, mem, pkt, scrub, ohNoLed, UARTtoApps, AppsToUDP, UDPtoUART,
          pc, node_table, forward_for_nodes, udp_sock>>

INSTANCE BufferPool

ASSUME PipelineAssumption ==
  /\ PoolParameters
  /\ QCap \in Nat \ {0}
  /\ MaxLen \in Nat \ {0}
  /\ Chunks \subseteq [dst : Nodes, src : Nodes, kind : Kinds]

queues == <<UARTtoApps, AppsToUDP, UDPtoUART>>
tables == <<node_table, forward_for_nodes>>

Init ==
  /\ PoolInit
  /\ UARTtoApps = <<>> /\ AppsToUDP = <<>> /\ UDPtoUART = <<>>
  /\ pc = [t \in Threads |-> "start"]
  /\ node_table = {}
  /\ forward_for_nodes = {}
  /\ udp_sock = FALSE

-------------------------------------------------------------------------------
(* Thread t is at l, and not in a bp_relinquish that it made there.         *)
At(t, l) == Running(t) /\ pc[t] = l
Go(t, l) == pc' = [pc EXCEPT ![t] = l]

(* Mutant: every node number is learned.                                    *)
Touched_any(table, node) == table \cup {node}

(* nt_touch, which ignores node numbers that are no node's.                 *)
Touched(table, node) == IF node \in {0, Broadcast} THEN table ELSE table \cup {node}

(* Mutant: the packet stays with the thread that passes it on.              *)
Put_keeps_packet(t, q) ==
  /\ Len(q) < QCap
  /\ q' = Append(q, pkt[t])
  /\ UNCHANGED pkt

(* Mutant: the newest packet first.                                         *)
Get_newest(t, q) ==
  /\ q # <<>>
  /\ pkt' = [pkt EXCEPT ![t] = q[Len(q)]]
  /\ q' = SubSeq(q, 1, Len(q) - 1)

(* k_msgq_put of t's packet to q, and k_msgq_get of t's next one from q.    *)
Put(t, q) ==
  /\ Len(q) < QCap
  /\ q' = Append(q, pkt[t])
  /\ pkt' = [pkt EXCEPT ![t] = NULL]
Get(t, q) ==
  /\ q # <<>>
  /\ pkt' = [pkt EXCEPT ![t] = Head(q)]
  /\ q' = Tail(q)

(* The accessors of packet_utils.c, on content c: a field of a packet that  *)
(* is too short for it reads as 0.                                          *)
Destination(c) == IF c = <<>> THEN 0 ELSE Head(c).dst
IsSetap(c) == c # <<>> /\ Head(c).kind = "setap"
IsHandshake(c) == Len(c) = 1 /\ Head(c).kind = "control"
HasSender(c) == c # <<>> /\ (Len(c) = 1 => Head(c).kind # "runt")
TxValid(c) == Len(c) = 1 /\ Head(c).kind \in {"control", "setap", "data"}

(* The end of a bp_relinquish that thread t is in the middle of.            *)
Memset(t) ==
  /\ bp_relinquish_memset(t)
  /\ UNCHANGED <<queues, pc, tables, udp_sock>>
-------------------------------------------------------------------------------
(* uart_rx: tashtalk.c's feed, one byte of the UART after the other.        *)

(* The first byte of a frame: feed fetches a buffer, if need be every 10 ms *)
(* until there is one.                                                      *)
FeedFetch ==
  /\ At("uart_rx", "start") \/ At("uart_rx", "retry")
  /\ bp_fetch("uart_rx")
  /\ Go("uart_rx", IF pool # <<>> THEN "frame" ELSE "retry")
  /\ UNCHANGED <<mem, queues, tables, udp_sock>>

(* Bytes of the frame; append drops what does not fit.                      *)
FeedAppend ==
  /\ At("uart_rx", "frame")
  /\ Len(mem[pkt["uart_rx"]]) < MaxLen
  /\ \E c \in UartChunks :
       mem' = [mem EXCEPT ![pkt["uart_rx"]] = Append(@, c)]
  /\ UNCHANGED <<pool, pkt, scrub, ohNoLed, queues, pc, tables, udp_sock>>

(* Mutant: forgets the packet without relinquishing it.                     *)
FeedAbort_leaks ==
  /\ At("uart_rx", "frame")
  /\ pkt' = [pkt EXCEPT !["uart_rx"] = NULL]
  /\ Go("uart_rx", "start")
  /\ UNCHANGED <<pool, scrub, ohNoLed, mem, queues, tables, udp_sock>>

(* 00 FE or 00 FA: a framing error or an aborted frame.                     *)
FeedAbort ==
  /\ At("uart_rx", "frame")
  /\ bp_relinquish("uart_rx")
  /\ Go("uart_rx", "start")
  /\ UNCHANGED <<mem, queues, tables, udp_sock>>

(* 00 FD: the frame is complete.  Whatever its CRC, it is passed on if it   *)
(* is for everyone or for a node heard from over UDP.                       *)
FeedComplete ==
  LET dst == Destination(mem[pkt["uart_rx"]])
  IN  /\ At("uart_rx", "frame")
      /\ IF dst = Broadcast \/ dst \in node_table
         THEN /\ Go("uart_rx", "put")
              /\ UNCHANGED <<pool, pkt, scrub, ohNoLed>>
         ELSE /\ bp_relinquish("uart_rx")
              /\ Go("uart_rx", "start")
      /\ UNCHANGED <<mem, queues, tables, udp_sock>>

(* Mutant: packet_in_progress is not set to NULL afterwards.                *)
FeedPut_no_reset ==
  /\ At("uart_rx", "put")
  /\ Len(UARTtoApps) < QCap
  /\ UARTtoApps' = Append(UARTtoApps, pkt["uart_rx"])
  /\ Go("uart_rx", "start")
  /\ UNCHANGED <<pool, mem, pkt, scrub, ohNoLed, AppsToUDP, UDPtoUART, tables, udp_sock>>

FeedPut ==
  /\ At("uart_rx", "put")
  /\ Put("uart_rx", UARTtoApps)
  /\ Go("uart_rx", "start")
  /\ UNCHANGED <<pool, mem, scrub, ohNoLed, AppsToUDP, UDPtoUART, tables, udp_sock>>

-------------------------------------------------------------------------------
(* apps: apps_runloop.                                                      *)
AppsGet ==
  /\ At("apps", "start")
  /\ Get("apps", UARTtoApps)
  /\ Go("apps", "handle")
  /\ UNCHANGED <<pool, mem, scrub, ohNoLed, AppsToUDP, UDPtoUART, tables, udp_sock>>

(* handle_configuration_packet restarts the whole firmware, in the middle   *)
(* of whatever the other threads are doing; it never reports a packet as    *)
(* handled.  (An NBP lookup is recognised and only logged.)                 *)
Reboot ==
  /\ PoolReboot
  /\ UARTtoApps' = <<>> /\ AppsToUDP' = <<>> /\ UDPtoUART' = <<>>
  /\ pc' = [t \in Threads |-> "start"]
  /\ node_table' = {}
  /\ forward_for_nodes' = {}
  /\ udp_sock' = FALSE

AppsHandle ==
  /\ At("apps", "handle")
  /\ IF IsSetap(mem[pkt["apps"]])
     THEN Reboot
     ELSE /\ Go("apps", "put")
          /\ UNCHANGED <<pool, mem, pkt, scrub, ohNoLed, queues, tables, udp_sock>>

AppsPut ==
  /\ At("apps", "put")
  /\ Put("apps", AppsToUDP)
  /\ Go("apps", "start")
  /\ UNCHANGED <<pool, mem, scrub, ohNoLed, UARTtoApps, UDPtoUART, tables, udp_sock>>

-------------------------------------------------------------------------------
(* udp_tx: udp_tx_runloop.                                                  *)
UdpTxGet ==
  /\ At("udp_tx", "start")
  /\ Get("udp_tx", AppsToUDP)
  /\ Go("udp_tx", "learn")
  /\ UNCHANGED <<pool, mem, scrub, ohNoLed, UARTtoApps, UDPtoUART, tables, udp_sock>>

(* Mutant: relinquishes an RTS or CTS, and then goes on with it.            *)
UdpTxLearn_falls_through ==
  /\ At("udp_tx", "learn")
  /\ IF IsHandshake(mem[pkt["udp_tx"]])
     THEN pool' = Append(pool, pkt["udp_tx"]) ELSE UNCHANGED pool
  /\ Go("udp_tx", "send")
  /\ UNCHANGED <<mem, pkt, scrub, ohNoLed, queues, tables, udp_sock>>

(* The sender is a node to forward traffic for; RTS and CTS stay local.     *)
UdpTxLearn ==
  LET c == mem[pkt["udp_tx"]]
  IN  /\ At("udp_tx", "learn")
      /\ forward_for_nodes' = IF HasSender(c) THEN Touched(forward_for_nodes, Head(c).src)
                                              ELSE forward_for_nodes
      /\ IF IsHandshake(c)
         THEN bp_relinquish("udp_tx") /\ Go("udp_tx", "start")
         ELSE Go("udp_tx", "send") /\ UNCHANGED <<pool, pkt, scrub, ohNoLed>>
      /\ UNCHANGED <<mem, queues, node_table, udp_sock>>

(* Mutant: keeps the packet until there is a socket.                        *)
UdpTxSend_waits ==
  /\ At("udp_tx", "send")
  /\ udp_sock
  /\ bp_relinquish("udp_tx")
  /\ Go("udp_tx", "start")
  /\ UNCHANGED <<mem, queues, tables, udp_sock>>

(* sendto the multicast group, when there is a socket; either way (and      *)
(* whatever sendto returns) that was all for this packet.                   *)
UdpTxSend ==
  /\ At("udp_tx", "send")
  /\ bp_relinquish("udp_tx")
  /\ Go("udp_tx", "start")
  /\ UNCHANGED <<mem, queues, tables, udp_sock>>

-------------------------------------------------------------------------------
(* uart_tx: uart_tx_runloop.                                                *)
UartTxGet ==
  /\ At("uart_tx", "start")
  /\ Get("uart_tx", UDPtoUART)
  /\ Go("uart_tx", "validate")
  /\ UNCHANGED <<pool, mem, scrub, ohNoLed, UARTtoApps, AppsToUDP, tables, udp_sock>>

(* The sender of a valid packet is a node to answer for on LocalTalk.       *)
UartTxValidate ==
  LET c == mem[pkt["uart_tx"]]
  IN  /\ At("uart_tx", "validate")
      /\ IF TxValid(c)
         THEN /\ node_table' = Touched(node_table, Head(c).src)
              /\ Go("uart_tx", "write")
              /\ UNCHANGED <<pool, pkt, scrub, ohNoLed>>
         ELSE /\ bp_relinquish("uart_tx")
              /\ Go("uart_tx", "start")
              /\ UNCHANGED node_table
      /\ UNCHANGED <<mem, queues, forward_for_nodes, udp_sock>>

(* The bytes go out to TashTalk.                                            *)
UartTxWrite ==
  /\ At("uart_tx", "write")
  /\ bp_relinquish("uart_tx")
  /\ Go("uart_tx", "start")
  /\ UNCHANGED <<mem, queues, tables, udp_sock>>

-------------------------------------------------------------------------------
(* udp_rx: udp_rx_runloop.                                                  *)

(* init_udp succeeds, at start-up or on one of the retries.                 *)
UdpRxOpen ==
  /\ At("udp_rx", "start")
  /\ ~udp_sock
  /\ udp_sock' = TRUE
  /\ UNCHANGED <<pool, mem, pkt, scrub, ohNoLed, queues, pc, tables>>

(* recv fails: the socket is closed.                                        *)
UdpRxError ==
  /\ At("udp_rx", "start")
  /\ udp_sock
  /\ udp_sock' = FALSE
  /\ UNCHANGED <<pool, mem, pkt, scrub, ohNoLed, queues, pc, tables>>

(* recv returns a datagram that is long enough (len > 7: neither a runt nor *)
(* an RTS or CTS) and for everyone or for a node heard from on LocalTalk.   *)
(* It is copied to a fresh buffer, or dropped when there is none.           *)
UdpRxRecv ==
  /\ At("udp_rx", "start")
  /\ udp_sock
  /\ \E c \in UdpChunks :
       /\ c.kind \notin {"runt", "control"}
       /\ c.dst = Broadcast \/ c.dst \in forward_for_nodes
       /\ bp_fetch("udp_rx")
       /\ IF pool # <<>>
          THEN mem' = [mem EXCEPT ![Head(pool)] = <<c>>] /\ Go("udp_rx", "put")
          ELSE UNCHANGED <<mem, pc>>
  /\ UNCHANGED <<queues, tables, udp_sock>>

(* Mutant: does not wait (K_NO_WAIT) and does not look whether it worked.   *)
UdpRxPut_no_wait ==
  /\ At("udp_rx", "put")
  /\ pkt' = [pkt EXCEPT !["udp_rx"] = NULL]
  /\ UDPtoUART' = IF Len(UDPtoUART) < QCap THEN Append(UDPtoUART, pkt["udp_rx"])
                                           ELSE UDPtoUART
  /\ Go("udp_rx", "start")
  /\ UNCHANGED <<pool, mem, scrub, ohNoLed, UARTtoApps, AppsToUDP, tables, udp_sock>>

UdpRxPut ==
  /\ At("udp_rx", "put")
  /\ Put("udp_rx", UDPtoUART)
  /\ Go("udp_rx", "start")
  /\ UNCHANGED <<pool, mem, scrub, ohNoLed, UARTtoApps, AppsToUDP, tables, udp_sock>>

-------------------------------------------------------------------------------
(* An hour has gone by since a node was last heard from (nt_fresh).         *)
Expire ==
  /\ \/ /\ \E n \in node_table : node_table' = node_table \ {n}
        /\ UNCHANGED forward_for_nodes
     \/ /\ \E n \in forward_for_nodes : forward_for_nodes' = forward_for_nodes \ {n}
        /\ UNCHANGED node_table
  /\ UNCHANGED <<pool, mem, pkt, scrub, ohNoLed, queues, pc, udp_sock>>

uart_rx == FeedFetch \/ FeedAppend \/ FeedAbort \/ FeedComplete \/ FeedPut
           \/ Memset("uart_rx")
apps == AppsGet \/ AppsHandle \/ AppsPut \/ Memset("apps")
udp_tx == UdpTxGet \/ UdpTxLearn \/ UdpTxSend \/ Memset("udp_tx")
uart_tx == UartTxGet \/ UartTxValidate \/ UartTxWrite \/ Memset("uart_tx")
udp_rx == UdpRxOpen \/ UdpRxError \/ UdpRxRecv \/ UdpRxPut \/ Memset("udp_rx")
Next == uart_rx \/ apps \/ udp_tx \/ uart_tx \/ udp_rx \/ Expire

(* Any thread may be overtaken by any other at any point.  Which schedules  *)
(* the kernel really allows is the subject of PriorityPipeline.             *)
Spec == Init /\ [][Next]_vars

(* Every thread that can go on eventually does: the UART and the network do *)
(* not keep the processor busy for ever.  Nothing is assumed of the bytes   *)
(* and datagrams that arrive, nor of init_udp, recv and the clock.          *)
Fairness ==
  /\ WF_vars(FeedPut) /\ WF_vars(Memset("uart_rx"))
  /\ WF_vars(apps) /\ WF_vars(udp_tx) /\ WF_vars(uart_tx)
  /\ WF_vars(UdpRxPut) /\ WF_vars(Memset("udp_rx"))

FairSpec == Spec /\ Fairness

-------------------------------------------------------------------------------
Locations == [
  uart_rx |-> {"start", "retry", "frame", "put"},
  apps    |-> {"start", "handle", "put"},
  udp_tx  |-> {"start", "learn", "send"},
  uart_tx |-> {"start", "validate", "write"},
  udp_rx  |-> {"start", "put"} ]
AllLocations == UNION {Locations[t] : t \in Threads}

TypeOK ==
  /\ PoolTypeOK
  /\ UARTtoApps \in Seq(Buffers)
  /\ AppsToUDP \in Seq(Buffers)
  /\ UDPtoUART \in Seq(Buffers)
  /\ pc \in [Threads -> AllLocations]
  /\ \A t \in Threads : pc[t] \in Locations[t]
  /\ node_table \subseteq Nodes \ {0, Broadcast}
  /\ forward_for_nodes \subseteq Nodes \ {0, Broadcast}
  /\ udp_sock \in BOOLEAN

(* A thread has a packet exactly while it is between fetching or getting    *)
(* one and passing it on or relinquishing it.                               *)
WithoutPacket == {"start", "retry"}
HoldsWhereItShould ==
  \A t \in Threads : (pkt[t] = NULL) <=> (pc[t] \in WithoutPacket)

Held(t) == IF pkt[t] = NULL THEN 0 ELSE 1

(* No packet buffer is lost or queued twice on any path through the five    *)
(* threads, their early exits included: free buffers, buffers in the three  *)
(* queues and buffers with a thread always add up to all there are.         *)
Accounted ==
  Len(pool) + Len(UARTtoApps) + Len(AppsToUDP) + Len(UDPtoUART)
    + Held("uart_rx") + Held("uart_tx") + Held("udp_rx") + Held("udp_tx") + Held("apps")
  = BufferCount

(* Hence bp_relinquish never finds the pool's queue full ("have you         *)
(* relinquished a bad pointer?").                                           *)
NeverOverflows == \A t \in Threads : pkt[t] # NULL => Len(pool) < PoolCap

(* The buffers on their way between two threads.                            *)
InTransit == Range(UARTtoApps) \cup Range(AppsToUDP) \cup Range(UDPtoUART)

(* The threads follow the discipline of BufferPoolClient, so whatever the   *)
(* pool promises to such clients it promises to them.                       *)
Client == INSTANCE BufferPoolClient WITH transit <- InTransit
ClientSpec == Client!Spec

(* The two directions of the bridge as ordered links.  A packet is accepted *)
(* when uart_rx decides to forward it or udp_rx has filled a buffer, and    *)
(* leaves when udp_tx or uart_tx relinquishes it.  However the threads      *)
(* interleave, none is lost, doubled or overtaken; the memset of a thread   *)
(* that is still inside bp_relinquish can wipe one that is on its way.      *)
PacketOf(t) == IF pkt[t] = NULL THEN <<>> ELSE <<mem[pkt[t]]>>
PacketsOf(q) == [i \in DOMAIN q |-> mem[q[i]]]

LinkToUdp ==
  PacketOf("udp_tx") \o PacketsOf(AppsToUDP) \o PacketOf("apps")
    \o PacketsOf(UARTtoApps)
    \o (IF pc["uart_rx"] = "put" THEN PacketOf("uart_rx") ELSE <<>>)
LinkToUart ==
  PacketOf("uart_tx") \o PacketsOf(UDPtoUART) \o PacketOf("udp_rx")

ToUdp == INSTANCE PacketLink WITH link <- LinkToUdp, Packets <- Contents,
  Nothing <- Zeroed, Capacity <- 2 * QCap + 3, CanWipe <- TRUE
ToUart == INSTANCE PacketLink WITH link <- LinkToUart, Packets <- Contents,
  Nothing <- Zeroed, Capacity <- QCap + 2, CanWipe <- TRUE
LinkToUdpSpec == ToUdp!Spec
LinkToUartSpec == ToUart!Spec

(* A packet that a thread passes to the next one does not stay in the       *)
(* bridge: with fair scheduling its buffer comes back to the pool, full     *)
(* queues and an exhausted pool notwithstanding.                            *)
PacketsMoveOn ==
  \A b \in Buffers : (b \in InTransit) ~> (b \in Range(pool))
===============================================================================
