----------------------------- MODULE MCUdePorts -----------------------------
(***************************************************************************)
(* Instances of UdePorts for TLC.                                          *)
(***************************************************************************)
EXTENDS UdePorts

CONSTANTS c1, c2, c3
=============================================================================
