-------------------------------- MODULE UartLink --------------------------------
(***************************************************************************)
(* The way to TashTalk: uart_tx, which writes packets and node masks to    *)
(* the UART, uart_rx, which resets TashTalk over the same UART when it     *)
(* sees only handshakes (uart_check_for_tx_wedge), main, which does so     *)
(* once at the start, and TashTalk's command parser at the other end.      *)
(*                                                                         *)
(* A byte is one step, since TashTalk has only the order of the bytes to   *)
(* tell commands from data:  0 nothing, 1 a frame follows, 2 a node mask   *)
(* follows.  Frames are short here: source, number of bytes that follow,   *)
(* and these; as with LLAP, TashTalk takes the length from the frame.      *)
(***************************************************************************)
EXTENDS NodeTable, Sequences

CONSTANTS
  Frames,      \* the packets that arrive from UDP
  ZeroCount,   \* uart_init_tashtalk: 1024 zeros
  MaxHandshakes, \* uart_check_for_tx_wedge: 10
  QCap,        \* slots of UDPtoUART
  MaxLost      \* bound: bytes that TashTalk misses

Bytes == 0 .. Bit[ByteBits] - 1

ASSUME LinkAssumption ==
  /\ Bytes = NodeIds            \* the number of a node is a byte
  /\ 2 \in Bytes                \* and so are the commands
  /\ \A f \in Frames : f \in Seq(Bytes) /\ Len(f) >= 2
  /\ ZeroCount \in Nat
  /\ ZeroCount > Bit[ByteBits]  \* the zeros are longer than any frame
  /\ MaxHandshakes \in Nat
  /\ QCap \in Nat \ {0}
  /\ MaxLost \in Nat

VARIABLES
  handshake_count,  \* frames in a row that were handshakes
  UDPtoUART,        \* main.c: packets for uart_tx
  packet,           \* the packet that uart_tx is sending
  pc,               \* what main, uart_rx and uart_tx are doing
  written,          \* bytes that each of them has written of that
  tt,               \* TashTalk: what it is waiting for, and what it has of it
  ttMask,           \* TashTalk: the nodes it answers for
  lost              \* bytes that it has missed

vars == <<now, node_table, nodebits, handshake_count, UDPtoUART, packet, pc,
          written, tt, ttMask, lost>>

table == <<now, node_table, nodebits>>
tashtalk == <<tt, ttMask, lost>>
Writers == {"main", "uart_rx", "uart_tx"}

-------------------------------------------------------------------------------
(* TashTalk.                                                                *)
ClaimedLength(frame) == 2 + frame[2]

Complete(mode, got) ==
  IF mode = "mask" THEN Len(got) = NodeBytes
                   ELSE Len(got) >= 2 /\ Len(got) = ClaimedLength(got)

AfterCommand(byte) ==
  CASE byte = 1 -> [mode |-> "frame", got |-> <<>>]
    [] byte = 2 -> [mode |-> "mask", got |-> <<>>]
    [] OTHER    -> tt

AfterData(byte) ==
  LET got == Append(tt.got, byte)
  IN  [mode |-> IF Complete(tt.mode, got) THEN "command" ELSE tt.mode, got |-> got]

Receive(byte) ==
  /\ tt' = IF tt.mode = "command" THEN AfterCommand(byte) ELSE AfterData(byte)
  /\ ttMask' = IF tt.mode = "mask" /\ tt'.mode = "command" THEN tt'.got ELSE ttMask
  /\ UNCHANGED lost

(* TashTalk misses a byte that it has no room for ("buffer weirdness").     *)
(* The CTS line is there to prevent that, and uart_tx looks at it only for  *)
(* the bytes of a frame.  No byte of a reset is missed here: the question   *)
(* is what a reset achieves when all of it arrives.                         *)
Miss ==
  /\ lost < MaxLost
  /\ lost' = lost + 1
  /\ UNCHANGED <<tt, ttMask>>

-------------------------------------------------------------------------------
(* The writers.  What is to be written for a reset, a mask or a frame.      *)
(* uart_write_node_table reads the mask byte by byte as it goes.            *)
MaskByte(i) == IF i = 0 THEN 2 ELSE nodebits[i]
ResetByte(i) == IF i <= NodeBytes THEN MaskByte(i) ELSE 0
FrameByte(i) == IF i = 0 THEN 1 ELSE packet[i]

(* Mutant: a quarter of the zeros.                                          *)
ResetLength_quarter == 1 + NodeBytes + ZeroCount \div 4

ResetLength == 1 + NodeBytes + ZeroCount
MaskLength == 1 + NodeBytes
FrameLength == 1 + Len(packet)

(* Thread t goes on to write the next byte, or to l if that was the last.   *)
Advance(t, total, l) ==
  LET last == written[t] + 1 = total
  IN  /\ written' = [written EXCEPT ![t] = IF last THEN 0 ELSE @ + 1]
      /\ pc' = IF last THEN [pc EXCEPT ![t] = l] ELSE pc

(* uart_init_tashtalk, called by main and by uart_check_for_tx_wedge.       *)
ResetTashTalk(t) ==
  /\ pc[t] = "reset"
  /\ Receive(ResetByte(written[t]))
  /\ Advance(t, ResetLength, "wait")
  /\ handshake_count' = IF pc'[t] = "wait" THEN 0 ELSE handshake_count
  /\ UNCHANGED <<table, UDPtoUART, packet>>

(* uart_rx has a frame to forward; uart_check_for_tx_wedge looks at it.     *)
ForwardFrame ==
  /\ pc["uart_rx"] = "wait"
  /\ \E handshake \in BOOLEAN :
       IF handshake
       THEN /\ handshake_count' = handshake_count + 1
            /\ pc' = IF handshake_count' > MaxHandshakes
                     THEN [pc EXCEPT !["uart_rx"] = "reset"] ELSE pc
       ELSE handshake_count' = 0 /\ UNCHANGED pc
  /\ UNCHANGED <<table, UDPtoUART, packet, written, tashtalk>>

(* udp_rx has a packet for uart_tx.                                         *)
PacketFromUdp ==
  /\ Len(UDPtoUART) < QCap
  /\ \E f \in Frames : UDPtoUART' = Append(UDPtoUART, f)
  /\ UNCHANGED <<table, handshake_count, packet, pc, written, tashtalk>>

(* Mutant: any packet will do.                                              *)
tashtalk_tx_validate_any(frame) == TRUE

(* The length field of the packet agrees with its length.                   *)
tashtalk_tx_validate(frame) == Len(frame) = ClaimedLength(frame)

(* Mutants: takes the mask before the sender is marked; tells TashTalk only *)
(* of nodes that are new.                                                   *)
UartTxGet_stale ==
  /\ pc["uart_tx"] = "wait"
  /\ UDPtoUART # <<>>
  /\ packet' = Head(UDPtoUART)
  /\ UDPtoUART' = Tail(UDPtoUART)
  /\ IF tashtalk_tx_validate(packet')
     THEN /\ node_table' = nt_touch(node_table, packet'[1])
          /\ nodebits' = nt_serialise(node_table, Cutoff)
          /\ pc' = [pc EXCEPT !["uart_tx"] = IF nodebits' # nodebits THEN "mask" ELSE "frame"]
     ELSE UNCHANGED <<node_table, nodebits, pc>>
  /\ UNCHANGED <<now, handshake_count, written, tashtalk>>
UartTxGet_only_new ==
  /\ pc["uart_tx"] = "wait"
  /\ UDPtoUART # <<>>
  /\ packet' = Head(UDPtoUART)
  /\ UDPtoUART' = Tail(UDPtoUART)
  /\ IF tashtalk_tx_validate(packet')
     THEN /\ node_table' = nt_touch(node_table, packet'[1])
          /\ nodebits' = nt_serialise(node_table', Cutoff)
          /\ pc' = [pc EXCEPT !["uart_tx"] =
                      IF Listed(nodebits') \subseteq Listed(nodebits) THEN "frame" ELSE "mask"]
     ELSE UNCHANGED <<node_table, nodebits, pc>>
  /\ UNCHANGED <<now, handshake_count, written, tashtalk>>

(* uart_tx takes a packet: its sender is a node to answer for; TashTalk is  *)
(* told if that changes the mask, before the frame.                         *)
UartTxGet ==
  /\ pc["uart_tx"] = "wait"
  /\ UDPtoUART # <<>>
  /\ packet' = Head(UDPtoUART)
  /\ UDPtoUART' = Tail(UDPtoUART)
  /\ IF tashtalk_tx_validate(packet')
     THEN /\ node_table' = nt_touch(node_table, packet'[1])
          /\ nodebits' = nt_serialise(node_table', Cutoff)
          /\ pc' = [pc EXCEPT !["uart_tx"] = IF nodebits' # nodebits THEN "mask" ELSE "frame"]
     ELSE UNCHANGED <<node_table, nodebits, pc>>
  /\ UNCHANGED <<now, handshake_count, written, tashtalk>>

(* uart_write_node_table, which does not look at CTS.                       *)
UartTxWriteMask ==
  /\ pc["uart_tx"] = "mask"
  /\ Receive(MaskByte(written["uart_tx"])) \/ Miss
  /\ Advance("uart_tx", MaskLength, "frame")
  /\ UNCHANGED <<table, handshake_count, UDPtoUART, packet>>

(* The frame: uart_tx waits for CTS before each byte, but for the command.  *)
UartTxWriteFrame ==
  /\ pc["uart_tx"] = "frame"
  /\ Receive(FrameByte(written["uart_tx"])) \/ (written["uart_tx"] = 0 /\ Miss)
  /\ Advance("uart_tx", FrameLength, "wait")
  /\ UNCHANGED <<table, handshake_count, UDPtoUART, packet>>

-------------------------------------------------------------------------------
(* The scheduler.                                                           *)

(* Mutant: udp_rx comes before the threads of the UART.                     *)
Priority_udp_rx_first ==
  [main |-> 0, uart_tx |-> 3, uart_rx |-> 4, udp_rx |-> 2, apps |-> 5]

(* The kernel runs the lowest number.  main starts the others at its end.   *)
Priority == [main |-> 0, uart_tx |-> 3, uart_rx |-> 4, udp_rx |-> 5, apps |-> 5]

Ready(t) == pc[t] # "wait" \/ (t = "uart_tx" /\ UDPtoUART # <<>>)
MayRun(t) == \A u \in Writers \ {t} : Priority[u] < Priority[t] => ~Ready(u)

(* A set-up request: apps calls sys_reboot.  TashTalk has no part in that.  *)
Reboot ==
  /\ now' = 0
  /\ node_table' = EmptyTable
  /\ nodebits' = EmptyMask
  /\ handshake_count' = 0
  /\ UDPtoUART' = <<>>
  /\ packet' = <<>>
  /\ pc' = [t \in Writers |-> IF t = "main" THEN "reset" ELSE "wait"]
  /\ written' = [t \in Writers |-> 0]
  /\ UNCHANGED tashtalk

Init ==
  /\ TableInit
  /\ handshake_count = 0
  /\ UDPtoUART = <<>>
  /\ packet = <<>>
  /\ pc = [t \in Writers |-> IF t = "main" THEN "reset" ELSE "wait"]
  /\ written = [t \in Writers |-> 0]
  /\ tt = [mode |-> "command", got |-> <<>>]
  /\ ttMask = EmptyMask
  /\ lost = 0

main == ResetTashTalk("main")
uart_rx == MayRun("uart_rx") /\ (ForwardFrame \/ ResetTashTalk("uart_rx"))
uart_tx == MayRun("uart_tx") /\ (UartTxGet \/ UartTxWriteMask \/ UartTxWriteFrame)
udp_rx == MayRun("udp_rx") /\ PacketFromUdp
apps == MayRun("apps") /\ Reboot
Clock == Tick /\ UNCHANGED <<handshake_count, UDPtoUART, packet, pc, written, tashtalk>>

Next == main \/ uart_rx \/ uart_tx \/ udp_rx \/ apps \/ Clock
Spec == Init /\ [][Next]_vars

-------------------------------------------------------------------------------
TypeOK ==
  /\ TableTypeOK
  /\ handshake_count \in 0 .. MaxHandshakes + 1
  /\ UDPtoUART \in Seq(Frames) /\ Len(UDPtoUART) <= QCap
  /\ packet \in Frames \cup {<<>>}
  /\ pc \in [Writers -> {"wait", "reset", "mask", "frame"}]
  /\ written \in [Writers -> 0 .. ResetLength]
  /\ tt \in [mode : {"command", "mask", "frame"}, got : Seq(Bytes)]
  /\ ttMask \in [1 .. NodeBytes -> Bytes]
  /\ lost \in 0 .. MaxLost

Writing(t) == pc[t] # "wait"

(* The UART has no lock.  Still, no two threads are in the middle of        *)
(* writing to it: uart_tx is woken only by udp_rx, which does not run       *)
(* during a reset, and uart_rx does not overtake uart_tx.                   *)
OneWriter == \A t, u \in Writers : Writing(t) /\ Writing(u) => t = u

(* As long as it misses no byte, TashTalk only ever sends what uart_tx meant *)
(* as a frame, whole: bytes of masks, resets and bad packets are never taken *)
(* for one.                                                                  *)
FramesIntact ==
  [][lost = 0 /\ tt.mode = "frame" /\ tt'.mode = "command"
       => pc["uart_tx"] = "frame" /\ tt'.got = packet]_vars

(* As long as no mask is on its way TashTalk answers for the nodes in       *)
(* node_table_packet, so it is enough to tell it of changes: nothing is     *)
(* wrong after a reboot, a reset, or a change undone by another.            *)
MaskTold == lost = 0 /\ ~Writing("main") /\ pc["uart_tx"] # "mask" => ttMask = nodebits

(* TashTalk answers for every node behind the bridge that is fresh, except  *)
(* while a new mask is on its way, and for the sender of a frame before it  *)
(* is given that.  (A node may stay in the mask after it is stale: masks    *)
(* are made only when there is a frame to send.)                            *)
NodesAnswered ==
  lost = 0 /\ ~Writing("main") /\ pc["uart_tx"] # "mask" =>
    /\ Fresh \subseteq Listed(ttMask)
    /\ pc["uart_tx"] = "frame" /\ packet[1] \notin {0, Everyone}
         => packet[1] \in Listed(ttMask)

(* The end of a reset.                                                      *)
ResetDone == \E t \in Writers : pc[t] = "reset" /\ pc'[t] = "wait"

(* A reset brings TashTalk back to where it waits for a command, whatever   *)
(* it was waiting for; the mask that comes first may make that worse.       *)
ResetSynchronises == [][ResetDone => tt'.mode = "command"]_vars

(* "... we should reset the tashtalk to a known state" (uart.c): with the   *)
(* nodes that it is to answer for, since it is not told of them again until *)
(* node_table_packet changes.                                               *)
ResetRestoresMask ==
  [][pc["uart_rx"] = "reset" /\ pc'["uart_rx"] = "wait" => ttMask' = nodebits]_vars
===============================================================================
