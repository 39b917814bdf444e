----------------------------- MODULE MCSession -----------------------------
(***************************************************************************)
(* Instances of Session for TLC.                                           *)
(***************************************************************************)
EXTENDS Session

CONSTANTS c1, c2

MCSockfds == <<"v6", "v4">>

Of(o1, o2, l2, f) ==
  [op |-> (c1 :> o1 @@ c2 :> o2), to |-> (c1 :> "v6" @@ c2 :> l2), faults |-> f]

\* Two clients want the one port while one of them is lost or the device cannot
\* be opened; something fails for a client that is alone; one lists or detaches
\* what the other attaches; the two use different families.
MCScenarios ==
  {Of("attach", "attach", "v6", f) : f \in {{}, {"crash"}, {"reset"}, {"open"}}}
  \cup {Of("attach", "none", "v6", {g}) : g \in Faults \ {"crash", "reset", "open", "vanish"}}
  \cup {Of("attach", "list", "v6", {"crash"})}
  \cup {Of("attach", "detach", "v6", {})} \cup {Of("attach", "list", "v4", {})}

\* One client attaches and uses the device.
MCOneScenarios == {Of("attach", "none", "v6", {})}

\* A client is lost while the server replies to it, and another one comes.
MCVanishScenarios == {Of("attach", "attach", "v6", {"crash", "vanish"})}
=============================================================================
