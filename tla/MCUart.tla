------------------------------- MODULE MCUart -------------------------------
(* The instances of Uart that TLC checks; the .cfg files give the bounds.   *)
EXTENDS Uart
=============================================================================
