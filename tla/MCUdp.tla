-------------------------------- MODULE MCUdp --------------------------------
(* Instances of Udp for TLC: messages of one to three bytes, a buffer of two. *)
EXTENDS Udp
==============================================================================
