---------------------------------- MODULE Loops ----------------------------------
(***************************************************************************)
(* for (i = 1; i <= n; i++) { ... }, whose body makes step[i][x] of x.     *)
(* (The folds of the community modules do the same, but evaluate the steps *)
(* inside one another, too deep for a packet, and over sets of indices.)   *)
(***************************************************************************)
EXTENDS Naturals

Loop(step, init, n) ==
  LET after[i \in 0 .. n] == IF i = 0 THEN init ELSE step[i][after[i - 1]]
  IN  after[n]
===============================================================================
