---------------------------- MODULE PriorityPipeline ----------------------------
(***************************************************************************)
(* Pipeline on the one processor of the board, scheduled by the priorities *)
(* that the threads are created with.  A ready thread of higher priority   *)
(* overtakes at once; threads of equal priority do not overtake each other *)
(* (prj.conf sets no time slice, and Zephyr's default is none), they take  *)
(* turns when one blocks.                                                  *)
(***************************************************************************)
EXTENDS Pipeline

(* Mutants: other choices of the priorities.                                *)
Priority_uart_tx_last == [uart_tx |-> 6, uart_rx |-> 4, udp_rx |-> 5, udp_tx |-> 5, apps |-> 5]
Priority_uart_rx_first == [uart_tx |-> 3, uart_rx |-> 2, udp_rx |-> 5, udp_tx |-> 5, apps |-> 5]
Priority_udp_rx_early == [uart_tx |-> 3, uart_rx |-> 4, udp_rx |-> 4, udp_tx |-> 5, apps |-> 5]

(* THREAD_UART_TX_PRIORITY and so on; the kernel runs the lowest number.    *)
Priority == [uart_tx |-> 3, uart_rx |-> 4, udp_rx |-> 5, udp_tx |-> 5, apps |-> 5]

(* Thread t has something to do now.  uart_rx at "start" and "frame" waits  *)
(* for bytes, at "retry" it sleeps: whether it gets on is not its choice.   *)
(* (Nobody overtakes the threads of lowest priority: nothing asks whether   *)
(* they are ready.)                                                         *)
Ready(t) ==
  \/ ~Running(t)
  \/ t = "uart_tx" /\ (pc[t] = "start" => UDPtoUART # <<>>)
  \/ t = "uart_rx" /\ pc[t] = "put" /\ Len(UARTtoApps) < QCap

(* Thread t is at a call that can block, so another one may be running:     *)
(* k_msgq_get, k_msgq_put with K_FOREVER, recv or sendto.                   *)
AtBlockingCall(t) == Running(t) /\ pc[t] \in {"start", "put", "send"}

MayRun(t) ==
  \A u \in Threads \ {t} :
    /\ Priority[u] < Priority[t] => ~Ready(u)
    /\ Priority[u] = Priority[t] => AtBlockingCall(u)

PriorityNext ==
  \/ MayRun("uart_rx") /\ uart_rx
  \/ MayRun("apps") /\ apps
  \/ MayRun("udp_tx") /\ udp_tx
  \/ MayRun("uart_tx") /\ uart_tx
  \/ MayRun("udp_rx") /\ udp_rx
  \/ Expire

PrioritySpec == Init /\ [][PriorityNext]_vars

-------------------------------------------------------------------------------
(* How many buffers the bridge needs: the two queues on the way to UDP can  *)
(* be full with the threads around them holding one more each, while at     *)
(* most one buffer is on the way to the UART.  main.c has 50 of them, and   *)
(* queues of 20.                                                            *)
EnoughBuffers == BufferCount >= 2 * QCap + 4

(* uart_tx is done with a packet before udp_rx can take in the next one.    *)
OneOnTheWayToUart ==
  Len(UDPtoUART) + Held("uart_tx") + Held("udp_rx") <= 1

(* The pool never runs out ("BUG: bp_fetch underflowed buffer pool" is not  *)
(* reached): no datagram is dropped for want of a buffer, and feed never    *)
(* goes round in circles.                                                   *)
NeverUnderflows ==
  EnoughBuffers => ~ohNoLed /\ pc["uart_rx"] # "retry"

(* Only udp_tx can be so late with its memset that the buffer is in use     *)
(* again: nobody who fetches can overtake uart_rx and uart_tx in the middle *)
(* of a bp_relinquish.                                                      *)
OnlyUdpTxLate ==
  \A t \in Threads \ {"udp_tx"} : ~Running(t) => scrub[t] \in Range(pool)

(* The memset that comes late never wipes a packet from UDP: from the fetch *)
(* in udp_rx to the relinquish in uart_tx it is what was received.          *)
OnTheWayToUart ==
  Range(UDPtoUART) \cup ({pkt["udp_rx"], pkt["uart_tx"]} \ {NULL})
UdpPacketsIntact ==
  \A b \in OnTheWayToUart : Len(mem[b]) = 1 /\ Head(mem[b]) \in UdpChunks

(* Hence the way to the UART is a link for one packet at a time that wipes  *)
(* none.                                                                    *)
PromptToUart == INSTANCE PacketLink WITH link <- LinkToUart,
  Packets <- Contents, Nothing <- Zeroed, Capacity <- 1, CanWipe <- FALSE
PromptLinkToUartSpec == PromptToUart!Spec

(* What came in on one side never goes back out on it: packets on the way   *)
(* to UDP hold only bytes from the UART, whatever was left in the buffers   *)
(* that uart_rx fetched; and so each table only learns nodes of its side.   *)
OnTheWayToUdp ==
  Range(UARTtoApps) \cup Range(AppsToUDP)
    \cup ({pkt["uart_rx"], pkt["apps"], pkt["udp_tx"]} \ {NULL})
Senders(chunks) == {c.src : c \in chunks}
NoEcho ==
  /\ \A b \in OnTheWayToUdp : Range(mem[b]) \subseteq UartChunks
  /\ node_table \subseteq Senders(UdpChunks)
  /\ forward_for_nodes \subseteq Senders(UartChunks)
===============================================================================
