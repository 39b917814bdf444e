------------------------------- MODULE MCPool -------------------------------
(***************************************************************************)
(* Instances of Pool for TLC.                                              *)
(***************************************************************************)
EXTENDS Pool

CONSTANTS c1, c2

\* What the two clients send; a client that sends nothing does not import.
Of(k1, k2, f) == [kinds |-> (c1 :> k1 @@ c2 :> k2), faults |-> f]

\* One client pipelines commands of several kinds, or one thing goes wrong.
MCScenarios ==
  {Of(<<"isoin", "out">>, <<>>, {}), Of(<<"in", "unlink">>, <<>>, {})}
  \cup {Of(<<"isoout">>, <<>>, {f}) : f \in Faults \ {"together"}}

\* Two clients share the device, with commands of one direction and of two; one client
\* has more commands under way than hdrs_cache has entries.
MCShareScenarios ==
  {Of(<<"in">>, <<"in">>, {}), Of(<<"in">>, <<"out">>, {}), Of(<<"in", "out">>, <<>>, {})}

\* Two clients use the same sequence number for an IN and an OUT transfer.
MCMixedScenarios == {Of(<<"in">>, <<"out">>, {})}
=============================================================================
