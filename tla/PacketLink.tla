------------------------------ MODULE PacketLink ------------------------------
(***************************************************************************)
(* What one direction of the bridge promises for the packets it accepts:   *)
(* they leave in the order in which they came, each of them once, and      *)
(* there are never more than Capacity of them inside.  Packets may be      *)
(* turned down before they are accepted, and whoever takes a packet out at *)
(* the other end may decide not to send it; neither is visible here.       *)
(*                                                                         *)
(* A packet inside may be wiped if CanWipe: it then still leaves in its    *)
(* turn, but not with what it had in it.  Nothing stands for whatever it    *)
(* has then: in the code that may also be a length that was written after  *)
(* the memset began, and zeros from some byte on.  A restart of the bridge *)
(* loses all packets.                                                      *)
(***************************************************************************)
EXTENDS Naturals, Sequences

CONSTANTS
  Packets,    \* what a packet can be
  Nothing,    \* a packet that has lost what was in it
  Capacity,   \* how many are inside at most
  CanWipe     \* whether one that is inside may be wiped

VARIABLE link   \* the packets inside, the next one to leave first

Init == link = <<>>

Accept ==
  /\ Len(link) < Capacity
  /\ \E p \in Packets : link' = Append(link, p)

Leave ==
  /\ link # <<>>
  /\ link' = Tail(link)

Wipe ==
  /\ CanWipe
  /\ \E i \in DOMAIN link : link' = [link EXCEPT ![i] = Nothing]

Restart == link' = <<>>

Next == Accept \/ Leave \/ Wipe \/ Restart

Spec == Init /\ [][Next]_link
===============================================================================
