------------------------------ MODULE MCUdeUrb ------------------------------
(***************************************************************************)
(* Instances of UdeUrb for TLC.                                            *)
(***************************************************************************)
EXTENDS UdeUrb

CONSTANTS u1, u2, u3, r1, r2

\* Every request has an endpoint of its own, so that all of them run at once.
MCEpOf == [u \in Urb |-> u]

\* Scenarios of the passing run.  The cancellation of an OUT transfer together
\* with a plug-out is left to the run that shows what goes wrong there.
MCScenarios ==
  { [kinds |-> {"in", "out", "select"}, may |-> {}],
    [kinds |-> {"in", "out", "serial"}, may |-> {u1}],
    [kinds |-> {"in", "bad"}, may |-> {u1, r1}],
    [kinds |-> {"in"}, may |-> {u1, "plugout"}],
    [kinds |-> {"in", "out", "select"}, may |-> {r1, "plugout"}] }

\* One OUT transfer may be cancelled, and nothing else goes wrong.
MCOutScenarios == { [kinds |-> {"in", "out"}, may |-> {u1}] }

MCPlugOutScenarios == { [kinds |-> {"out"}, may |-> {u1, "plugout"}] }
=============================================================================
