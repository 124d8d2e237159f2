------------------------------ MODULE MCPipeline ------------------------------
(* Pipeline under the freest scheduling, with a few buffers and short       *)
(* queues.  Buffers are interchangeable.                                    *)
EXTENDS Pipeline, TLC

Packet(from, to, what) == [dst |-> to, src |-> from, kind |-> what]

(* Packets for everyone, from node number 0, which no table ever learns: *)
(* one of every kind that makes a difference on the way.                 *)
AnyUart == {Packet(0, Broadcast, k) : k \in {"data", "control", "setap"}}
AnyUdp == {Packet(0, Broadcast, k) : k \in {"data", "bad"}}

(* Two nodes that talk to each other: 1 on LocalTalk, which announces       *)
(* itself, and 2 behind UDP, which answers.                                 *)
TalkUart == {Packet(1, 2, "data"), Packet(1, Broadcast, "data")}
TalkUdp == {Packet(2, 1, "data")}

MCSymmetry == Permutations(Buffers)
===============================================================================
