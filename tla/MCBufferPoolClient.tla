-------------------------- MODULE MCBufferPoolClient --------------------------
(* BufferPoolClient with a few buffers and threads.  Buffers and threads    *)
(* are interchangeable.                                                     *)
EXTENDS BufferPoolClient, TLC

MCSymmetry == Permutations(Buffers) \cup Permutations(Threads)
===============================================================================
