----------------------------- MODULE MCVhubPorts -----------------------------
(***************************************************************************)
(* Instances of VhubPorts for TLC.                                         *)
(***************************************************************************)
EXTENDS VhubPorts

CONSTANTS v1, v2, f1, f2, c1

\* Two clients that plug in, at any time; or one, and one that unplugs by request.
MCParties == {{f1, f2}, {f1, c1}}
=============================================================================
