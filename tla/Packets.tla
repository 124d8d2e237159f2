--------------------------------- MODULE Packets ---------------------------------
(***************************************************************************)
(* One LocalTalk frame on its way through two bridges, byte by byte: feed, *)
(* which may see only the beginning of it, apps, which looks for NBP       *)
(* look-ups and set-up requests in it, udp_tx, which makes a datagram of   *)
(* it, and udp_rx and uart_tx of another bridge, which make a frame again. *)
(*                                                                         *)
(* Whether a node is fresh, and the queues between, are in Pipeline.       *)
(***************************************************************************)
EXTENDS Crc, PacketUtils

CONSTANTS
  Frames,    \* what other nodes send; see Encode
  NbpType,   \* "AirTalkAP"
  Magic,     \* "airtalk setap"
  MaxType    \* bytes of a type name: 32

NoLookup == <<>>

VARIABLES
  frame,    \* what was sent
  wire,     \* its bytes, as they are on LocalTalk
  packet,   \* the packet, or the datagram that it is in
  crc,      \* rxstate.crc
  at,       \* where it is
  looked,   \* what is_our_nbp_lkup made of it
  taken     \* history: how many bytes of the frame feed was given

vars == <<frame, wire, packet, crc, at, looked, taken>>

-------------------------------------------------------------------------------
(* AppleTalk, as other nodes speak it.                                      *)
PString(str) == <<Len(str)>> \o str

EncodeTuple(t) ==
  <<t.network \div 256, t.network % 256, t.node, t.socket, t.enumerator>>
    \o PString(t.object) \o PString(t.type) \o PString(t.zone)

EncodeTuples(tuples, count) ==
  Loop([i \in 1 .. count |-> [bytes \in Seq(uint8_t) |-> bytes \o EncodeTuple(tuples[i])]],
       <<>>, count)

(* Of the frames that are datagrams some are of NBP, some of ATP; the rest *)
(* of any other, and of one that is not what its type says, is any bytes.   *)
IsDdp(f) == f.type \in {1, 2}
IsNbp(f) == IsDdp(f) /\ f.ddpType = 2 /\ ~f.raw
IsAtp(f) == IsDdp(f) /\ f.ddpType = 3 /\ ~f.raw

NbpBody(f, count) ==
  <<16 * f.function + Len(f.tuples), f.id>> \o EncodeTuples(f.tuples, count)

Body(f) ==
  CASE IsNbp(f) -> NbpBody(f, Len(f.tuples))
    [] IsAtp(f) -> <<64 * f.function + f.flags>> \o f.atp \o f.payload
    [] OTHER    -> f.payload

(* Control frames are three bytes; all others tell their length in ten bits *)
(* that follow those, with six bits of something else before them.          *)
IsControl(f) == f.type >= 128

DdpHeader(f) ==
  CASE f.type = 1 -> <<f.socket, f.srcSocket, f.ddpType>>
    [] f.type = 2 -> f.routing \o <<f.node, f.srcNode, f.socket, f.srcSocket, f.ddpType>>
    [] OTHER      -> <<>>

HeaderLength(f) == 5 + Len(DdpHeader(f))

Header(f, length) ==
  <<f.dst, f.src, f.type, 4 * f.high + (length \div 256), length % 256>> \o DdpHeader(f)

Encode(f) ==
  IF IsControl(f) THEN <<f.dst, f.src, f.type>>
  ELSE Header(f, HeaderLength(f) - 3 + Len(Body(f))) \o Body(f)

(* A frame, field by field.  Fields have their widths, a count of tuples    *)
(* has four bits, and a frame has no more than the 600 bytes after its      *)
(* first three that LLAP allows.                                            *)
PStrings == {str \in Seq(uint8_t) : Len(str) <= 255}
Tuples == [network : 0 .. UINT16_MAX, node : uint8_t, socket : uint8_t,
           enumerator : uint8_t, object : PStrings, type : PStrings, zone : PStrings]

IsFrame(f) ==
  /\ \A field \in {f.dst, f.src, f.type} : field \in uint8_t
  /\ f.high \in 0 .. 63           \* with a long header, the hop count
  /\ f.routing \in Seq(uint8_t)   \* checksum and networks of a long header
  /\ Len(f.routing) = 6
  /\ f.type = 1 => f.node = f.dst \* a short header has no node of its own
  /\ \A field \in {f.node, f.srcNode, f.socket, f.srcSocket, f.ddpType} : field \in uint8_t
  /\ f.raw \in BOOLEAN            \* not what ddpType says, if that is 2 or 3
  /\ f.function \in 0 .. IF f.ddpType = 3 THEN 3 ELSE 15
  /\ f.id \in uint8_t /\ f.tuples \in Seq(Tuples) /\ Len(f.tuples) <= 15  \* of NBP
  /\ f.flags \in 0 .. 63          \* of ATP, with bitmap, TID and user bytes in atp
  /\ f.atp \in Seq(uint8_t) /\ Len(f.atp) = 7
  /\ f.payload \in Seq(uint8_t)
  /\ ~IsControl(f) => HeaderLength(f) + Len(Body(f)) <= 603

ASSUME FramesAssumption == \A f \in Frames : IsFrame(f)

(* Names are C strings, in which there is no 0.                             *)
ASSUME NamesAssumption ==
  /\ NbpType \in Seq(1 .. 255) /\ Len(NbpType) <= MaxType /\ MaxType \in Nat
  /\ Magic \in Seq(1 .. 255) /\ Magic # <<>>

-------------------------------------------------------------------------------
(* feed takes the next byte.                                                *)
Feed ==
  /\ at = "feed" /\ taken < Len(wire)
  /\ LET byte == wire[taken + 1]
     IN  packet' = Append(packet, byte) /\ crc' = crc_state_append(crc, byte)
  /\ taken' = taken + 1
  /\ UNCHANGED <<frame, wire, at, looked>>

(* TashTalk ends the frame, here or too early.  A bad CRC is only logged.   *)
EndFrame ==
  /\ at = "feed"
  /\ at' = "apps"
  /\ UNCHANGED <<frame, wire, packet, crc, looked, taken>>

-------------------------------------------------------------------------------
(* apps.                                                                    *)
NBP_LKUP == 2
ATP_TREQ == 1

is_our_nbp_lkup(p, nbptype) ==
  LET tuple == nbp_tuple(p, 0)
  IN  IF /\ is_nbp_packet(p)
         /\ ddp_destination_node(p) = 255
         /\ nbp_function_code(p) = NBP_LKUP
         /\ nbp_tuple_count(p) > 0
         /\ tuple.ok
         /\ Len(tuple.type) <= MaxType
         /\ pstrncpy(tuple.type, MaxType) = nbptype
      THEN <<tuple.node, tuple.socket, nbp_id(p)>>
      ELSE NoLookup

(* The length byte of the name is skipped, and so is whether the name is    *)
(* within the packet.  (The Wi-Fi details that follow are only printed.)    *)
handle_configuration_packet(p) ==
  /\ is_atp_packet(p)
  /\ atp_function_code(p) = ATP_TREQ
  /\ ddp_destination_node(p) = 255
  /\ ddp_destination_socket(p) = 4
  /\ \A i \in 1 .. Len(Magic) : At(p, atp_payload_offset(p) + i) = Magic[i]

apps ==
  /\ at = "apps"
  /\ looked' = is_our_nbp_lkup(packet, NbpType)
  /\ at' = IF handle_configuration_packet(packet) THEN "rebooted" ELSE "udp_tx"
  /\ UNCHANGED <<frame, wire, packet, crc, taken>>

-------------------------------------------------------------------------------
(* udp_tx: the datagram has 4 bytes more than the packet and no FCS, or     *)
(* what are its last two bytes.                                             *)
RtsOrCts(p) == Len(p) = 5 /\ At(p, 2) \in {132, 133}

udp_tx ==
  /\ at = "udp_tx"
  /\ IF RtsOrCts(packet)
     THEN at' = "dropped" /\ UNCHANGED packet
     ELSE /\ at' = "udp_rx"
          /\ packet' = SubSeq(<<0, 0, 0, 0>> \o packet, 1, Len(packet) + 2)
  /\ UNCHANGED <<frame, wire, crc, looked, taken>>

(* udp_rx of another bridge: the packet with a new FCS.  Mutant: the bytes  *)
(* of that in the wrong order.                                              *)
ToPacket_swapped(datagram) ==
  LET bytes == SubSeq(datagram, 5, Len(datagram))
      fcs == crc_state_append_all(crc_state_init, bytes)
  IN  bytes \o <<crc_state_byte_2(fcs), crc_state_byte_1(fcs)>>

ToPacket(datagram) ==
  LET bytes == SubSeq(datagram, 5, Len(datagram))
      fcs == crc_state_append_all(crc_state_init, bytes)
  IN  bytes \o <<crc_state_byte_1(fcs), crc_state_byte_2(fcs)>>

udp_rx ==
  /\ at = "udp_rx"
  /\ IF Len(packet) > 7
     THEN at' = "uart_tx" /\ packet' = ToPacket(packet)
     ELSE at' = "dropped" /\ UNCHANGED packet
  /\ UNCHANGED <<frame, wire, crc, looked, taken>>

(* Mutant: does not look at the length field.                               *)
tashtalk_tx_validate_lax(p) ==
  /\ Len(p) >= 5 /\ Len(p) # 6
  /\ Len(p) = 5 <=> At(p, 2) >= 128
  /\ crc_state_ok(crc_state_append_all(crc_state_init, p))

tashtalk_tx_validate(p) ==
  /\ Len(p) >= 5 /\ Len(p) # 6
  /\ Len(p) = 5 <=> At(p, 2) >= 128
  /\ Len(p) >= 7 => 256 * (At(p, 3) % 4) + At(p, 4) = Len(p) - 5
  /\ crc_state_ok(crc_state_append_all(crc_state_init, p))

uart_tx ==
  /\ at = "uart_tx"
  /\ at' = IF tashtalk_tx_validate(packet) THEN "sent" ELSE "refused"
  /\ UNCHANGED <<frame, wire, packet, crc, looked, taken>>

(* The frame is sent once more, into a fresh buffer.                        *)
Again ==
  /\ at \in {"rebooted", "dropped", "refused", "sent"}
  /\ packet' = <<>> /\ crc' = crc_state_init /\ at' = "feed" /\ looked' = NoLookup
  /\ taken' = 0
  /\ UNCHANGED <<frame, wire>>

Init ==
  /\ frame \in Frames
  /\ wire = WithFcs(Encode(frame))
  /\ packet = <<>> /\ crc = crc_state_init /\ at = "feed" /\ looked = NoLookup
  /\ taken = 0

Next == Feed \/ EndFrame \/ apps \/ udp_tx \/ udp_rx \/ uart_tx \/ Again
Spec == Init /\ [][Next]_vars

-------------------------------------------------------------------------------
(* A byte is a byte, the register has 16 bits, and no packet or datagram    *)
(* gets longer than one frame with its header.                              *)
TypeOK ==
  /\ frame \in Frames
  /\ \A i \in DOMAIN packet : packet[i] \in 0 .. 255
  /\ Len(packet) <= Len(wire) + 2
  /\ crc \in crc_state_t
  /\ at \in {"feed", "apps", "udp_tx", "udp_rx", "uart_tx",
             "rebooted", "dropped", "refused", "sent"}
  /\ taken \in 0 .. Len(wire)

Whole == taken = Len(wire)

(* Every step through the table is a division by the polynomial of the      *)
(* LocalTalk frame check sequence: none of its 256 entries is wrong.        *)
CrcDivides ==
  [][at = "feed" /\ taken' > taken => crc' = Divide(crc, Last(packet'))]_vars

(* A frame that LocalTalk delivers whole has a good FCS for feed, and is    *)
(* sent at the other end as it was here, FCS and all, be it as short as a   *)
(* frame with a length can be; no control frame is, and of the others only  *)
(* set-up requests are not.                                                 *)
WholeFramesArrive ==
  /\ TypeOK
  /\ Whole => /\ at = "apps" => crc_state_ok(crc)
              /\ at # "refused"
              /\ at = "dropped" => IsControl(frame)
              /\ at = "sent" => packet = wire /\ ~IsControl(frame)

(* The beginning of a frame never is: though udp_rx gives it a good FCS,    *)
(* tashtalk_tx_validate refuses it, wherever it was cut off.                *)
TruncatedNeverSent == at = "sent" => Whole

(* Where the tuples of an NBP frame end, counted from the frame's start.    *)
TupleEnd(count) == HeaderLength(frame) + Len(NbpBody(frame, count))

(* Of every tuple of an NBP frame that has arrived, nbp_tuple reads what    *)
(* was sent, and it reads none that has not arrived completely or was not   *)
(* sent, however the strings before it end.                                 *)
TuplesAsSent ==
  at = "apps" /\ IsNbp(frame) /\ taken > 2 =>
    \A i \in 1 .. Len(frame.tuples) + 1 :
      LET read == nbp_tuple(packet, i - 1)
      IN  IF i <= Len(frame.tuples) /\ taken >= TupleEnd(i)
          THEN /\ read.ok
               /\ \A field \in DOMAIN frame.tuples[i] : read[field] = frame.tuples[i][field]
          ELSE ~read.ok

(* apps answers exactly the broadcast look-ups of which it has the whole    *)
(* first tuple, if that asks for "AirTalkAP" (as a C string: a 0 ends it),   *)
(* and would answer whoever that tuple says.                                *)
SameCString(str, name) ==
  /\ Len(str) >= Len(name) /\ SubSeq(str, 1, Len(name)) = name
  /\ Len(str) > Len(name) => str[Len(name) + 1] = 0
AsksForUs(f) ==
  /\ IsNbp(f) /\ f.node = 255 /\ f.function = NBP_LKUP
  /\ f.tuples # <<>>
  /\ Len(Head(f.tuples).type) <= MaxType /\ SameCString(Head(f.tuples).type, NbpType)
LookupsAsSent ==
  at \in {"rebooted", "udp_tx"} /\ ~frame.raw =>
    looked = IF AsksForUs(frame) /\ taken >= TupleEnd(1)
             THEN <<Head(frame.tuples).node, Head(frame.tuples).socket, frame.id>>
             ELSE NoLookup

(* The firmware restarts exactly when a broadcast ATP request to socket 4   *)
(* has come that has the name at its place, up to the end of that at least  *)
(* (which the FCS of a shorter request can happen to be).                   *)
IsRequest(f) ==
  IsAtp(f) /\ f.node = 255 /\ f.socket = 4 /\ f.function = ATP_TREQ
SetupAsSent ==
  LET name == HeaderLength(frame) + 9
      end == name + Len(Magic)
  IN  at \in {"rebooted", "udp_tx"} /\ ~frame.raw =>
        (at = "rebooted" <=>
           IsRequest(frame) /\ taken >= end /\ SubSeq(wire, name + 1, end) = Magic)
===============================================================================
