----------------------------- MODULE UrbService -----------------------------
(***************************************************************************)
(* What a virtual host controller promises to the class drivers, whichever *)
(* driver implements it: every request is completed at most once, a        *)
(* request is announced to the server under at most one number, and the    *)
(* numbers of a device are given out one after the other, each once.       *)
(* Neither reads and writes of the forwarder nor threads, lists and        *)
(* cancellations are visible here.  VhciUrb and UdeUrb implement it.       *)
(***************************************************************************)
EXTENDS Naturals

CONSTANT Urb      \* requests of the class drivers

VARIABLES
  life,     \* "idle", "held" by the driver, or "done"
  num,      \* the number a request was given, 0 before
  last      \* the last number given out

vars == <<life, num, last>>

TypeOK ==
  /\ life \in [Urb -> {"idle", "held", "done"}]
  /\ num \in [Urb -> Nat]
  /\ last \in Nat

Init ==
  /\ life = [u \in Urb |-> "idle"]
  /\ num = [u \in Urb |-> 0]
  /\ last = 0

\* The driver accepts a request, or refuses it at once.
Submit(u) ==
  /\ life[u] = "idle"
  /\ \E l \in {"held", "done"} : life' = [life EXCEPT ![u] = l]
  /\ UNCHANGED <<num, last>>

\* A request that the driver holds gets the next number, its first.
Number(u) ==
  /\ life[u] = "held"
  /\ num[u] = 0
  /\ last' = last + 1
  /\ num' = [num EXCEPT ![u] = last']
  /\ UNCHANGED life

\* Commands of the driver itself (unlink, reset) are numbered too.
NumberOwn ==
  /\ last' = last + 1
  /\ UNCHANGED <<life, num>>

\* Requests are completed: answered, cancelled, aborted or failed.
Finish(S) ==
  /\ \A u \in S : life[u] = "held"
  /\ life' = [u \in Urb |-> IF u \in S THEN "done" ELSE life[u]]
  /\ UNCHANGED <<num, last>>

Next ==
  \/ \E u \in Urb : Submit(u) \/ Number(u)
  \/ NumberOwn
  \/ \E S \in SUBSET Urb : Finish(S)

Spec == Init /\ [][Next]_vars
=============================================================================
