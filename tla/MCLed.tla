--------------------------------- MODULE MCLed ---------------------------------
(* One LED that is turned on and off and two that are flashed.               *)
EXTENDS Led
===============================================================================
