------------------------------- MODULE TashTalkRx -------------------------------
(***************************************************************************)
(* The way from TashTalk, byte by byte: what TashTalk sends, the interrupt *)
(* handler that queues it in uart_msgq or silently drops it (serial_cb),   *)
(* and uart_rx, which takes the frames out of it (feed in tashtalk.c).     *)
(*                                                                         *)
(* A 0 byte is an escape: 00 FF stands for a 0 in the frame, 00 FD is the  *)
(* end of a complete frame, 00 FE of one with a framing error and 00 FA of *)
(* one that was aborted.  A lost byte can change the meaning of the next.  *)
(***************************************************************************)
EXTENDS Naturals, Sequences

CONSTANTS
  Data,          \* bytes of frames, as they are on LocalTalk
  Broadcast,     \* the destination of frames for everyone: 255
  RxBufferSize,  \* RX_BUFFER_SIZE: 768
  MaxPacket,     \* bytes of a packet buffer: 605
  MaxFrame,      \* bound: bytes of a frame
  NULL

Literal == 255   \* 0xFF
Complete == 253  \* 0xFD
Damaged == 254   \* 0xFE
Aborted == 250   \* 0xFA
EndCodes == {Complete, Damaged, Aborted}
Bytes == 0 .. 255

ASSUME RxAssumption ==
  /\ Data \subseteq Bytes
  /\ RxBufferSize \in Nat \ {0}
  /\ MaxPacket \in Nat \ {0}
  /\ MaxFrame \in Nat
  /\ NULL \notin Bytes \cup Seq(Bytes)

VARIABLES
  frame,      \* TashTalk: what it has sent of a frame
  owed,       \* TashTalk: the second byte of an escape that it has begun
  lossy,      \* history: a byte of this frame was lost
  prevLossy,  \* history: and of the one before, which can spoil this one
  uart_msgq,  \* bytes for uart_rx, with what they are (see Sent)
  pc,         \* where uart_rx is: in k_msgq_get, in feed, in k_msgq_put
  byte,       \* the byte that uart_rx is feeding
  in_escape, packet_in_progress   \* rxstate

line == <<frame, owed, lossy, prevLossy>>
rxstate == <<in_escape, packet_in_progress>>
vars == <<line, uart_msgq, pc, byte, rxstate>>

-------------------------------------------------------------------------------
(* TashTalk and the interrupt handler.                                      *)

(* A byte as it is sent.  The rest is history: whether nothing was lost so  *)
(* far that can have changed its meaning, and if so, whether it ends a      *)
(* frame, and which.                                                        *)
Sure == ~lossy /\ ~prevLossy
Sent(b, isEnd) ==
  [byte |-> b, sure |-> Sure, end |-> Sure /\ isEnd,
   frame |-> IF Sure /\ isEnd THEN frame ELSE <<>>]

(* The byte is queued if there is room, and otherwise lost; kept says which.*)
serial_cb(sent, kept) ==
  /\ kept = (Len(uart_msgq) < RxBufferSize)
  /\ uart_msgq' = IF kept THEN Append(uart_msgq, sent) ELSE uart_msgq

SendData(b) ==
  /\ owed = NULL /\ Len(frame) < MaxFrame
  /\ frame' = Append(frame, b)
  /\ owed' = IF b = 0 THEN Literal ELSE NULL
  /\ \E kept \in BOOLEAN : serial_cb(Sent(b, FALSE), kept) /\ lossy' = (lossy \/ ~kept)
  /\ UNCHANGED prevLossy

SendEscape(code) ==
  /\ owed = NULL
  /\ owed' = code
  /\ \E kept \in BOOLEAN : serial_cb(Sent(0, FALSE), kept) /\ lossy' = (lossy \/ ~kept)
  /\ UNCHANGED <<frame, prevLossy>>

SendLiteral ==
  /\ owed = Literal
  /\ owed' = NULL
  /\ \E kept \in BOOLEAN : serial_cb(Sent(Literal, FALSE), kept) /\ lossy' = (lossy \/ ~kept)
  /\ UNCHANGED <<frame, prevLossy>>

(* A frame with losses can spoil the next, and the one after that only if   *)
(* the next has no bytes.                                                   *)
SendEnd ==
  /\ owed \in EndCodes
  /\ owed' = NULL
  /\ frame' = <<>>
  /\ \E kept \in BOOLEAN :
       /\ serial_cb(Sent(owed, TRUE), kept)
       /\ prevLossy' = (lossy \/ ~kept \/ (prevLossy /\ frame = <<>>))
  /\ lossy' = FALSE

TashTalk ==
  /\ \/ \E b \in Data : SendData(b)
     \/ \E code \in EndCodes : SendEscape(code)
     \/ SendLiteral
     \/ SendEnd
  /\ UNCHANGED <<pc, byte, rxstate>>

-------------------------------------------------------------------------------
(* uart_rx.                                                                 *)

UartRxGet ==
  /\ pc = "get" /\ uart_msgq # <<>>
  /\ byte' = Head(uart_msgq)
  /\ uart_msgq' = Tail(uart_msgq)
  /\ pc' = "feed"
  /\ UNCHANGED <<line, rxstate>>

(* Mutant: checks after it has written.                                     *)
append_late(packet, b) == IF Len(packet) <= MaxPacket THEN Append(packet, b) ELSE packet

append(packet, b) == IF Len(packet) < MaxPacket THEN Append(packet, b) ELSE packet

(* feed has a buffer, or waits for one (for as long as that takes: the      *)
(* bytes go on coming).  It is zeroed here; see BufferPool for when not.    *)
Packet == IF packet_in_progress = NULL THEN <<>> ELSE packet_in_progress

(* llap_destination_node                                                    *)
Destination(packet) == IF packet = <<>> THEN 0 ELSE packet[1]

NoByte == [byte |-> 0, sure |-> FALSE, end |-> FALSE, frame |-> <<>>]
Done == pc' = "get" /\ byte' = NoByte
Keep(packet) == packet_in_progress' = packet /\ Done
Discard == packet_in_progress' = NULL /\ Done

(* do_something_sensible_with_packet.  Which nodes are fresh is a matter of *)
(* other modules, and so is uart_check_for_tx_wedge.                        *)
Forward(packet) ==
  \/ packet_in_progress' = packet /\ pc' = "put" /\ UNCHANGED byte
  \/ Destination(packet) # Broadcast /\ Discard

(* Mutants: forgets to leave the escape after a 0; forwards frames with     *)
(* framing errors.                                                          *)
FeedEscaped_stays ==
  /\ \/ byte.byte = Literal /\ Keep(append(Packet, 0)) /\ UNCHANGED in_escape
     \/ byte.byte = Complete /\ Forward(Packet) /\ in_escape' = (pc' = "put")
     \/ byte.byte \in {Damaged, Aborted} /\ Discard /\ in_escape' = FALSE
     \/ byte.byte \notin EndCodes \cup {Literal} /\ Keep(Packet) /\ in_escape' = FALSE
FeedEscaped_damaged ==
  /\ \/ byte.byte = Literal /\ Keep(append(Packet, 0))
     \/ byte.byte \in {Complete, Damaged} /\ Forward(Packet)
     \/ byte.byte = Aborted /\ Discard
     \/ byte.byte \notin EndCodes \cup {Literal} /\ Keep(Packet)
  /\ in_escape' = (pc' = "put")

(* The second byte of an escape.  One that is none of the four is dropped.  *)
(* in_escape is reset after the packet is put.                              *)
FeedEscaped ==
  /\ \/ byte.byte = Literal /\ Keep(append(Packet, 0))
     \/ byte.byte = Complete /\ Forward(Packet)
     \/ byte.byte \in {Damaged, Aborted} /\ Discard
     \/ byte.byte \notin EndCodes \cup {Literal} /\ Keep(Packet)
  /\ in_escape' = (pc' = "put")

FeedPlain ==
  IF byte.byte = 0 THEN Keep(Packet) /\ in_escape' = TRUE
                   ELSE Keep(append(Packet, byte.byte)) /\ UNCHANGED in_escape

feed ==
  /\ pc = "feed"
  /\ IF in_escape THEN FeedEscaped ELSE FeedPlain
  /\ UNCHANGED <<line, uart_msgq>>

(* There is room in UARTtoApps, at last.                                    *)
UartRxPut ==
  /\ pc = "put"
  /\ Discard
  /\ in_escape' = FALSE
  /\ UNCHANGED <<line, uart_msgq>>

(* A set-up request: the firmware starts again, while TashTalk goes on.     *)
Reboot ==
  /\ uart_msgq' = <<>>
  /\ Discard
  /\ in_escape' = FALSE
  /\ lossy' = TRUE
  /\ UNCHANGED <<frame, owed, prevLossy>>

-------------------------------------------------------------------------------
(* The board is started while TashTalk is sending whatever it is sending.   *)
Init ==
  /\ frame = <<>>
  /\ owed \in {NULL, Literal} \cup EndCodes
  /\ lossy = TRUE
  /\ prevLossy = TRUE
  /\ uart_msgq = <<>>
  /\ pc = "get"
  /\ byte = NoByte
  /\ in_escape = FALSE
  /\ packet_in_progress = NULL

uart_rx == UartRxGet \/ feed \/ UartRxPut

Next == TashTalk \/ uart_rx \/ Reboot
Spec == Init /\ [][Next]_vars

-------------------------------------------------------------------------------
SentBytes == [byte : Bytes, sure : BOOLEAN, end : BOOLEAN, frame : Seq(Data)]

(* No packet is longer than its buffer, whatever arrives.                   *)
RxTypeOK ==
  /\ frame \in Seq(Data) /\ Len(frame) <= MaxFrame
  /\ owed \in {NULL, Literal} \cup EndCodes
  /\ lossy \in BOOLEAN /\ prevLossy \in BOOLEAN
  /\ uart_msgq \in Seq(SentBytes) /\ Len(uart_msgq) <= RxBufferSize
  /\ pc \in {"get", "feed", "put"}
  /\ byte \in SentBytes
  /\ in_escape \in BOOLEAN
  /\ \/ packet_in_progress = NULL
     \/ packet_in_progress \in Seq(Bytes) /\ Len(packet_in_progress) <= MaxPacket

(* What fits in a packet buffer of a frame.                                 *)
Fitting(f) == SubSeq(f, 1, IF Len(f) < MaxPacket THEN Len(f) ELSE MaxPacket)

(* Losses are local.  Whatever was lost from a frame, by a full queue or a  *)
(* restart in its middle, the frame after the next one comes through as it  *)
(* was sent: feed is in an escape when its end comes, has collected all of  *)
(* it and nothing else, and has not taken a byte in it for its end.         *)
LossIsLocal ==
  pc = "feed" /\ byte.sure =>
    IF byte.end
    THEN in_escape /\ packet_in_progress = Fitting(byte.frame)
    ELSE ~(in_escape /\ byte.byte \in EndCodes)

(* What goes on to apps is, but for losses, a frame that TashTalk called    *)
(* complete; the others go back to the pool.                                *)
ForwardedAsSent ==
  pc = "put" /\ byte.sure =>
    byte.end /\ byte.byte = Complete /\ packet_in_progress = Fitting(byte.frame)
===============================================================================
