------------------------------ MODULE MCStubRes ------------------------------
(***************************************************************************)
(* Instances of StubRes for TLC.                                           *)
(***************************************************************************)
EXTENDS StubRes

CONSTANTS s1, s2, s3
=============================================================================
