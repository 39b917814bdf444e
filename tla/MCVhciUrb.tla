------------------------------ MODULE MCVhciUrb ------------------------------
(***************************************************************************)
(* Instances of VhciUrb for TLC.                                           *)
(***************************************************************************)
EXTENDS VhciUrb

CONSTANTS u1, u2, r1, r2, pipe

\* Every URB is for the same pipe, so that an abort meets all of them.
MCPipeOf == [u \in Urb |-> pipe]
=============================================================================
