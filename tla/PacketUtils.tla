------------------------------- MODULE PacketUtils -------------------------------
(***************************************************************************)
(* packet_utils.c and pstrings.c: what the firmware reads in a packet, and *)
(* the checks that keep it within the packet's length.                     *)
(*                                                                         *)
(* A packet is the sequence of its bytes.  Offsets count from 0, as in the *)
(* code, and the rest of a packet buffer is zero (buffers are zeroed when  *)
(* they are fetched, but for what BufferPool shows).                       *)
(***************************************************************************)
EXTENDS Naturals, Sequences, SequencesExt, Loops

At(packet, offset) == IF offset < Len(packet) THEN packet[offset + 1] ELSE 0

(* Mutant: looks whether the byte before is there.                          *)
Has_previous(packet, offset) == Len(packet) >= offset

(* NUM_LEN_GUARD and BOOL_LEN_GUARD: whether the packet has that byte.      *)
Has(packet, offset) == Len(packet) > offset

(* A function that runs out of packet leaves the cursor here.               *)
PastTheEnd == 1024

skip_pstring(packet, cursor) ==
  IF Has(packet, cursor) THEN cursor + At(packet, cursor) + 1 ELSE PastTheEnd

(* Mutant: looks only whether the length byte is there.                     *)
read_pstring_unguarded(packet, cursor) ==
  IF Has(packet, cursor)
  THEN [ok |-> TRUE, str |-> [i \in 1 .. At(packet, cursor) |-> At(packet, cursor + i)],
        next |-> cursor + At(packet, cursor) + 1]
  ELSE [ok |-> FALSE, str |-> <<>>, next |-> PastTheEnd]

(* What read_pstring finds at the cursor, and where it leaves it.           *)
read_pstring(packet, cursor) ==
  IF Has(packet, cursor) /\ Has(packet, cursor + At(packet, cursor))
  THEN [ok |-> TRUE, str |-> [i \in 1 .. At(packet, cursor) |-> At(packet, cursor + i)],
        next |-> cursor + At(packet, cursor) + 1]
  ELSE [ok |-> FALSE, str |-> <<>>, next |-> PastTheEnd]

(* A Pascal string as a C string, of at most length bytes: up to a 0.       *)
pstrncpy(str, length) ==
  LET copied == SubSeq(str, 1, IF Len(str) < length THEN Len(str) ELSE length)
      zero == SelectInSeq(copied, LAMBDA c : c = 0)
  IN  IF zero = 0 THEN copied ELSE SubSeq(copied, 1, zero - 1)

-------------------------------------------------------------------------------
(* LLAP and DDP.                                                            *)
Guarded(packet, offset, value) == IF Has(packet, offset) THEN value ELSE 0
Byte(packet, offset) == Guarded(packet, offset, At(packet, offset))

LLAP_TYPE_OFFSET == 2
LLAP_PAYLOAD_OFFSET == 3

is_ddp_packet(packet) == Len(packet) > 3 /\ At(packet, LLAP_TYPE_OFFSET) \in {1, 2}
ddp_has_long_header(packet) == At(packet, LLAP_TYPE_OFFSET) = 2

(* Mutant: the offset of the long header for both.                          *)
Ddp_long(packet, long, short) == LLAP_PAYLOAD_OFFSET + long

Ddp(packet, long, short) ==
  LLAP_PAYLOAD_OFFSET + (IF ddp_has_long_header(packet) THEN long ELSE short)

ddp_type(packet) == Byte(packet, Ddp(packet, 12, 4))
ddp_destination_node(packet) ==
  IF ddp_has_long_header(packet) THEN Byte(packet, LLAP_PAYLOAD_OFFSET + 8)
                                 ELSE At(packet, 0)
(* With a short header the check is of the byte after the next.             *)
ddp_destination_socket(packet) ==
  Guarded(packet, Ddp(packet, 10, 4), At(packet, Ddp(packet, 10, 2)))
ddp_payload_offset(packet) == Ddp(packet, 13, 5)

-------------------------------------------------------------------------------
(* NBP and ATP.                                                             *)
is_nbp_packet(packet) == is_ddp_packet(packet) /\ ddp_type(packet) = 2
nbp_function_code(packet) == Byte(packet, ddp_payload_offset(packet)) \div 16
nbp_tuple_count(packet) == Byte(packet, ddp_payload_offset(packet)) % 16
nbp_id(packet) == Byte(packet, ddp_payload_offset(packet) + 1)

NotOk == [ok |-> FALSE]

(* Five bytes and three strings for each tuple before the one wanted.       *)
TupleOffset(packet, tuple) ==
  LET skip(cursor) ==
        skip_pstring(packet, skip_pstring(packet, skip_pstring(packet, cursor + 5)))
  IN  Loop([i \in 1 .. tuple |-> [cursor \in Nat |-> skip(cursor)]],
           ddp_payload_offset(packet) + 2, tuple)

nbp_tuple(packet, tuple) ==
  LET cursor == TupleOffset(packet, tuple)
      object == read_pstring(packet, cursor + 5)
      type == read_pstring(packet, object.next)
      zone == read_pstring(packet, type.next)
  IN  IF ~Has(packet, cursor + 4) \/ ~zone.ok THEN NotOk
      ELSE [ok |-> TRUE,
            network |-> 256 * At(packet, cursor) + At(packet, cursor + 1),
            node |-> At(packet, cursor + 2),
            socket |-> At(packet, cursor + 3),
            enumerator |-> At(packet, cursor + 4),
            object |-> object.str, type |-> type.str, zone |-> zone.str]

is_atp_packet(packet) == is_ddp_packet(packet) /\ ddp_type(packet) = 3
atp_function_code(packet) == Byte(packet, ddp_payload_offset(packet)) \div 64
atp_payload_offset(packet) == ddp_payload_offset(packet) + 8
===============================================================================
