------------------------------- MODULE NodeTable -------------------------------
(***************************************************************************)
(* The node freshness tables of node_table.c: when each LocalTalk node was *)
(* last heard from, in whole seconds since the board started, and the bit  *)
(* mask that TashTalk is sent of the nodes that still are there.           *)
(*                                                                         *)
(* The C functions are operators on a table here, for the modules whose    *)
(* threads call them (UartLink); the clock is the only action.             *)
(***************************************************************************)
EXTENDS Integers

CONSTANTS
  NodeBytes,  \* bytes of a mask: 32
  ByteBits,   \* bits of a byte: 8
  Cutoff,     \* seconds for which the table's user takes a node to be there
  MaxTime     \* bound: how long the board is up

ASSUME TableAssumption ==
  /\ NodeBytes \in Nat \ {0}
  /\ ByteBits \in Nat \ {0}
  /\ Cutoff \in Nat \ {0}
  /\ MaxTime \in Nat

NodeIds == 0 .. NodeBytes * ByteBits - 1
Everyone == NodeBytes * ByteBits - 1      \* the broadcast address, 255

VARIABLES
  now,         \* k_uptime_get() / 1000
  node_table,  \* last_seen and seen_at_all of each node
  nodebits     \* the mask that nt_serialise made last

EmptyTable == [last_seen |-> [n \in NodeIds |-> 0],
               seen_at_all |-> [n \in NodeIds |-> FALSE]]
EmptyMask == [i \in 1 .. NodeBytes |-> 0]

-------------------------------------------------------------------------------
(* Mutant: touches whatever number it is given.                             *)
nt_touch_any(table, node) ==
  [last_seen |-> [table.last_seen EXCEPT ![node] = now],
   seen_at_all |-> [table.seen_at_all EXCEPT ![node] = TRUE]]

nt_touch(table, node) ==
  IF node \in {0, Everyone} THEN table
  ELSE [last_seen |-> [table.last_seen EXCEPT ![node] = now],
        seen_at_all |-> [table.seen_at_all EXCEPT ![node] = TRUE]]

(* Mutants: takes a node that was never seen for one seen at second 0; has  *)
(* the comparison the wrong way round.                                      *)
nt_fresh_unseen(table, node, cutoff) ==
  now <= cutoff \/ table.last_seen[node] > now - cutoff
nt_fresh_reversed(table, node, cutoff) ==
  table.seen_at_all[node] /\ table.last_seen[node] <= now - cutoff

(* For the first cutoff seconds every node that was ever seen is fresh.     *)
nt_fresh(table, node, cutoff) ==
  /\ table.seen_at_all[node]
  /\ now <= cutoff \/ table.last_seen[node] > now - cutoff

(* 1 << j                                                                   *)
Bit[j \in Nat] == IF j = 0 THEN 1 ELSE 2 * Bit[j - 1]

(* A byte, after the bits below k have been set in it.                      *)
Byte(bits) ==
  LET upto[k \in Nat] ==
        IF k = 0 THEN 0 ELSE upto[k - 1] + (IF k - 1 \in bits THEN Bit[k - 1] ELSE 0)
  IN  upto[ByteBits]

(* Mutant: does not clear the bits of the mask before.                      *)
nt_serialise_adds(table, cutoff) ==
  [i \in 1 .. NodeBytes |->
     Byte({j \in 0 .. ByteBits - 1 :
             \/ nt_fresh(table, (i - 1) * ByteBits + j, cutoff)
             \/ (nodebits[i] \div Bit[j]) % 2 = 1})]

(* The mask: bit j of byte i, counted from 0, is node ByteBits * i + j.     *)
(* (nt_serialise also tells its caller whether that changed the mask.)      *)
nt_serialise(table, cutoff) ==
  [i \in 1 .. NodeBytes |->
     Byte({j \in 0 .. ByteBits - 1 : nt_fresh(table, (i - 1) * ByteBits + j, cutoff)})]

(* The nodes that a mask has a bit for, as whoever receives it reads it.    *)
Listed(mask) ==
  {n \in NodeIds : (mask[n \div ByteBits + 1] \div Bit[n % ByteBits]) % 2 = 1}

-------------------------------------------------------------------------------
TableInit ==
  /\ now = 0
  /\ node_table = EmptyTable
  /\ nodebits = EmptyMask

Tick ==
  /\ now < MaxTime
  /\ now' = now + 1
  /\ UNCHANGED <<node_table, nodebits>>

-------------------------------------------------------------------------------
(* Nodes are never seen in the future, and numbers that are no node's are   *)
(* never seen.                                                              *)
TableTypeOK ==
  /\ now \in Nat
  /\ node_table \in [last_seen : [NodeIds -> 0 .. now],
                     seen_at_all : [NodeIds -> BOOLEAN]]
  /\ \A n \in {0, Everyone} : ~node_table.seen_at_all[n]
  /\ nodebits \in [1 .. NodeBytes -> 0 .. Bit[ByteBits] - 1]

SecondsAgo(n) == now - node_table.last_seen[n]

(* The special case for the time after the start and the comparison for the *)
(* time after that fit together: a node seen less than Cutoff seconds ago   *)
(* is fresh, and no fresh node was seen more than Cutoff seconds ago.       *)
(* (node_table.h says "less than cutoff seconds ago"; exactly Cutoff is     *)
(* possible, for a node seen in second 0.)                                  *)
FreshWithinASecond ==
  \A n \in NodeIds :
    /\ node_table.seen_at_all[n] /\ SecondsAgo(n) < Cutoff
         => nt_fresh(node_table, n, Cutoff)
    /\ nt_fresh(node_table, n, Cutoff)
         => node_table.seen_at_all[n] /\ SecondsAgo(n) <= Cutoff

(* All that the threads that use a table can see of it: the set of fresh    *)
(* nodes starts empty, gets one more node when that is touched, and only    *)
(* time and a new start of the board take nodes out.  No clock, no start    *)
(* and no order of touches makes a node fresh by itself.  (Pipeline has     *)
(* tables as sets.)                                                         *)
Fresh == {n \in NodeIds : nt_fresh(node_table, n, Cutoff)}
FreshSetSpec ==
  /\ Fresh = {}
  /\ [][\/ now' > now /\ Fresh' \subseteq Fresh
        \/ now' = 0 /\ Fresh' = {}
        \/ \E n \in NodeIds \ {0, Everyone} : Fresh' = Fresh \cup {n}]_Fresh

(* The mask for TashTalk has the bit of a node set exactly if nt_fresh says *)
(* that the node is there at that moment, whatever the mask was before.     *)
MaskListsFresh ==
  [][nodebits' # nodebits => Listed(nodebits') = Fresh']_nodebits
===============================================================================
