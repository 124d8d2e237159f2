------------------------------- MODULE MCUartLink -------------------------------
(* UartLink with masks of two bytes of two bits and frames of 2 to 5 bytes:  *)
(* from nodes 1 and 2, with bytes that are commands if they are not data,    *)
(* one packet that is shorter than it says, and one from the broadcast       *)
(* address.                                                                  *)
EXTENDS UartLink

SomeFrames == {<<1, 1, 2>>, <<2, 2, 1, 0>>, <<2, 2, 1>>, <<3, 0>>}
===============================================================================
