------------------------------ MODULE BufferPool ------------------------------
(***************************************************************************)
(* The packet buffer pool of buffer_pool.c.  Every LLAP packet on its way  *)
(* through the bridge lives in one of BufferCount static buffers; the pool *)
(* is a Zephyr message queue of the pointers that are free.                *)
(*                                                                         *)
(* The calls of the pool are given here as actions on the pool's state,    *)
(* one per atomic step of the C function, for the modules whose threads    *)
(* make the calls.  k_msgq_put and k_msgq_get are atomic (the kernel locks *)
(* the queue); what a function does before and after them is not.  In      *)
(* particular bp_relinquish puts the pointer back BEFORE it zeroes the     *)
(* buffer: it is two steps, bp_relinquish and bp_relinquish_memset.        *)
(***************************************************************************)
EXTENDS Naturals, Sequences, FiniteSets, Functions

CONSTANTS
  Buffers,      \* main.c: the static array of packet buffers
  BufferCount,  \* how many there are: 50
  PoolCap,      \* main.c: packet_pool_queue has 50 slots
  NULL,         \* no buffer
  Threads,      \* the threads that use the pool
  Contents,     \* what a buffer can hold, as far as the models care
  Zeroed        \* the content that memset(buffer, 0, buffer_size) leaves

(* One queue slot per buffer, as main.c sizes them.                         *)
PoolParameters ==
  /\ IsFiniteSet(Buffers)
  /\ BufferCount \in Nat \ {0}
  /\ BufferCount = Cardinality(Buffers)
  /\ PoolCap \in Nat
  /\ BufferCount <= PoolCap
  /\ NULL \notin Buffers
  /\ Zeroed \in Contents

ASSUME PoolAssumption == PoolParameters

VARIABLES
  pool,     \* bp->queue, the buffer that is fetched next first
  mem,      \* content of each buffer
  pkt,      \* per thread: the buffer it owns, or NULL
  scrub,    \* per thread: the buffer its bp_relinquish has put back and is
            \* about to memset, or NULL when it is not inside that call
  ohNoLed   \* OH_NO_LED has been turned on (nothing ever turns it off)

poolVars == <<pool, mem, pkt, scrub, ohNoLed>>

-------------------------------------------------------------------------------
(* init_buffer_pool queues every buffer once.  It does so in the order of   *)
(* the array, but buffers differ in nothing but their address, so any order *)
(* is allowed here.                                                         *)
FullPools == {order \in [1 .. BufferCount -> Buffers] : IsInjective(order)}

(* Static storage is zero at boot.                                          *)
PoolInit ==
  /\ pool \in FullPools
  /\ mem = [b \in Buffers |-> Zeroed]
  /\ pkt = [t \in Threads |-> NULL]
  /\ scrub = [t \in Threads |-> NULL]
  /\ ohNoLed = FALSE

(* sys_reboot(SYS_REBOOT_WARM), as seen from the pool: main runs again.     *)
PoolReboot ==
  /\ pool' \in FullPools
  /\ mem' = [b \in Buffers |-> Zeroed]
  /\ pkt' = [t \in Threads |-> NULL]
  /\ scrub' = [t \in Threads |-> NULL]
  /\ ohNoLed' = FALSE

(* Thread t is not in the middle of a bp_relinquish.                        *)
Running(t) == scrub[t] = NULL

(* bp_fetch, when the queue has a buffer and when it has none (k_msgq_get   *)
(* with K_NO_WAIT fails: NULL is returned and OH_NO_LED is lit).  It does   *)
(* not touch the buffer.                                                    *)
bp_fetch(t) ==
  IF pool # <<>>
  THEN /\ pkt' = [pkt EXCEPT ![t] = Head(pool)]
       /\ pool' = Tail(pool)
       /\ UNCHANGED <<scrub, ohNoLed>>
  ELSE /\ ohNoLed' = TRUE
       /\ UNCHANGED <<pool, pkt, scrub>>

(* Mutant: leaves the caller its pointer.                                   *)
bp_relinquish_keeps_pointer(t) ==
  /\ pool' = Append(pool, pkt[t])
  /\ scrub' = [scrub EXCEPT ![t] = pkt[t]]
  /\ UNCHANGED <<pkt, ohNoLed>>

(* bp_relinquish up to and including its k_msgq_put.  From then on the      *)
(* caller's pointer is only an alias of a buffer that is back in the pool:  *)
(* it moves from pkt to scrub.  When the queue is full the call returns     *)
(* early, without the memset; every caller then loses the pointer (feed     *)
(* assigns NULL to it, the other threads' next k_msgq_get overwrites it).   *)
bp_relinquish(t) ==
  /\ pkt' = [pkt EXCEPT ![t] = NULL]
  /\ IF Len(pool) < PoolCap
     THEN /\ pool' = Append(pool, pkt[t])
          /\ scrub' = [scrub EXCEPT ![t] = pkt[t]]
          /\ UNCHANGED ohNoLed
     ELSE /\ ohNoLed' = TRUE
          /\ UNCHANGED <<pool, scrub>>

(* Mutant: the memset is left out.                                          *)
bp_relinquish_no_memset(t) ==
  /\ ~Running(t)
  /\ scrub' = [scrub EXCEPT ![t] = NULL]
  /\ UNCHANGED <<pool, mem, pkt, ohNoLed>>

(* The end of bp_relinquish: the memset through the caller's pointer.  It   *)
(* is one step here.  In the code it can be overtaken in the middle; it     *)
(* sets the length to 0 first, so who goes on with the buffer meanwhile     *)
(* writes from its beginning, and may find zeros from some byte on later.   *)
bp_relinquish_memset(t) ==
  /\ ~Running(t)
  /\ mem' = [mem EXCEPT ![scrub[t]] = Zeroed]
  /\ scrub' = [scrub EXCEPT ![t] = NULL]
  /\ UNCHANGED <<pool, pkt, ohNoLed>>

-------------------------------------------------------------------------------
PoolTypeOK ==
  /\ pool \in Seq(Buffers)
  /\ mem \in [Buffers -> Contents]
  /\ pkt \in [Threads -> Buffers \cup {NULL}]
  /\ scrub \in [Threads -> Buffers \cup {NULL}]
  /\ ohNoLed \in BOOLEAN

(* A buffer that is free is zeroed, or a thread that freed it has yet to    *)
(* run the memset of its bp_relinquish.  This is what the code keeps of the *)
(* promise that bp_fetch returns a zeroed-out buffer.                       *)
PooledIsScrubbed ==
  \A b \in Range(pool) : mem[b] = Zeroed \/ \E t \in Threads : scrub[t] = b

(* bp_fetch only ever hands out zeroed buffers (buffer_pool.h says so of    *)
(* it): a buffer is zeroed when it leaves the queue.                        *)
ZeroedFetch ==
  [][\A b \in Range(pool) : b \notin Range(pool') => mem[b] = Zeroed]_poolVars
===============================================================================
