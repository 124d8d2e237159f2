------------------------------ MODULE MCTashTalkRx ------------------------------
(* TashTalkRx with bytes that are an escape, its second byte or a code, for  *)
(* frames of up to one byte more than a packet buffer takes.                 *)
EXTENDS TashTalkRx
===============================================================================
