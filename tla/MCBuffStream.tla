---------------------------- MODULE MCBuffStream ----------------------------
(* Instances of BuffStream for TLC: buffers of one or two bytes, and none.  *)
EXTENDS BuffStream
=============================================================================
