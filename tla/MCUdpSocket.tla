------------------------------- MODULE MCUdpSocket -------------------------------
(* UdpSocket with as many descriptors and address slots as its .cfg says.   *)
EXTENDS UdpSocket
===============================================================================
