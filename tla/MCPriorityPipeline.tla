-------------------------- MODULE MCPriorityPipeline --------------------------
(* PriorityPipeline with the smallest queues and as many buffers as they    *)
(* need.  Buffers are interchangeable.                                      *)
EXTENDS PriorityPipeline, TLC

Packet(from, to, what) == [dst |-> to, src |-> from, kind |-> what]

(* Node 1 is on LocalTalk, node 2 behind UDP.                               *)
UartTraffic == {Packet(1, Broadcast, "data")}
UdpTraffic == {Packet(2, Broadcast, k) : k \in {"data", "bad"}}

MCSymmetry == Permutations(Buffers)
===============================================================================
