------------------------------- MODULE MCGpio -------------------------------
(* The instances of Gpio that TLC checks; the constants are in the .cfg files. *)
EXTENDS Gpio
=============================================================================
