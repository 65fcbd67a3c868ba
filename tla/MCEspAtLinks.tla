---------------------------- MODULE MCEspAtLinks ----------------------------
(* Instances of EspAtLinks for TLC.                                         *)
EXTENDS EspAtLinks
=============================================================================
