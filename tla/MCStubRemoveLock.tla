-------------------------- MODULE MCStubRemoveLock --------------------------
(***************************************************************************)
(* Instances of StubRemoveLock for TLC.                                    *)
(***************************************************************************)
EXTENDS StubRemoveLock

CONSTANTS q1, q2, q3
=============================================================================
