--------------------------- MODULE BufferPoolClient ---------------------------
(***************************************************************************)
(* The discipline that the threads of the bridge follow with the buffers   *)
(* of the pool, and what the pool promises to threads that follow it:      *)
(* whoever holds a buffer fills it, hands it to another thread (through    *)
(* one of the message queues of main.c) or relinquishes it, and after      *)
(* that does not use it again.  The threads here are the most general      *)
(* ones; the real ones are in Pipeline, which implements this module.      *)
(***************************************************************************)
EXTENDS BufferPool

VARIABLE transit   \* the buffers that are on their way between two threads

clientVars == <<poolVars, transit>>

Init == PoolInit /\ transit = {}

(* bp_fetch; the caller may also fill the buffer at once.                   *)
Fetch(t) ==
  /\ Running(t)
  /\ pkt[t] = NULL
  /\ bp_fetch(t)
  /\ \/ UNCHANGED mem
     \/ pool # <<>> /\ \E c \in Contents : mem' = [mem EXCEPT ![Head(pool)] = c]
  /\ UNCHANGED transit

(* The owner writes to its buffer.                                          *)
Write(t) ==
  /\ Running(t)
  /\ pkt[t] # NULL
  /\ \E c \in Contents : mem' = [mem EXCEPT ![pkt[t]] = c]
  /\ UNCHANGED <<pool, pkt, scrub, ohNoLed, transit>>

(* k_msgq_put of the pointer to a queue between threads ...                 *)
Send(t) ==
  /\ Running(t)
  /\ pkt[t] # NULL
  /\ transit' = transit \cup {pkt[t]}
  /\ pkt' = [pkt EXCEPT ![t] = NULL]
  /\ UNCHANGED <<pool, mem, scrub, ohNoLed>>

(* ... and the k_msgq_get at its other end.                                 *)
Receive(t) ==
  /\ Running(t)
  /\ pkt[t] = NULL
  /\ \E b \in transit : /\ pkt' = [pkt EXCEPT ![t] = b]
                        /\ transit' = transit \ {b}
  /\ UNCHANGED <<pool, mem, scrub, ohNoLed>>

Relinquish(t) ==
  /\ Running(t)
  /\ pkt[t] # NULL
  /\ bp_relinquish(t)
  /\ UNCHANGED <<mem, transit>>

Memset(t) == bp_relinquish_memset(t) /\ UNCHANGED transit

Reboot == PoolReboot /\ transit' = {}

Next ==
  \/ \E t \in Threads :
       \/ Fetch(t)
       \/ Write(t)
       \/ Send(t)
       \/ Receive(t)
       \/ Relinquish(t)
       \/ Memset(t)
  \/ Reboot

Spec == Init /\ [][Next]_clientVars

-------------------------------------------------------------------------------
TypeOK == PoolTypeOK /\ transit \subseteq Buffers

Holders == {t \in Threads : pkt[t] # NULL}

(* Every buffer is in exactly one place: free (and queued once), in         *)
(* transit, or with one thread.  No sequence of calls loses a buffer or     *)
(* makes two owners of it, whatever the memsets of the threads that are     *)
(* still inside bp_relinquish do.  (As what one gets there are buffers:     *)
(* TypeOK, too.)                                                            *)
OneOwner ==
  /\ TypeOK
  /\ IsInjective(pool)
  /\ Range(pool) \cap transit = {}
  /\ \A t \in Holders : pkt[t] \notin Range(pool) \cup transit
  /\ \A t, u \in Holders : pkt[t] = pkt[u] => t = u
  /\ Range(pool) \cup transit \cup {pkt[t] : t \in Holders} = Buffers
===============================================================================
