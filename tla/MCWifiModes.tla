----------------------------- MODULE MCWifiModes -----------------------------
(* Instances of WifiModes for TLC.                                          *)
EXTENDS WifiModes
=============================================================================
