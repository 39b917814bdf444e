---------------------------- MODULE UdeUrbProofs ----------------------------
(***************************************************************************)
(* Proofs about the URB queue of UdeUrb, for any set of requests, reads    *)
(* and endpoints.                                                          *)
(***************************************************************************)
EXTENDS UdeUrb, TLAPS

\* io_read is between its critical sections.
Reading == hc \in {"storing", "rest", "stored"}

\* submit_urbr is between its critical sections, or on its way out of an error.
Storing(w) == sub[w] \in {"storing", "ok", "bad", "local"}

\* A cancellation that has begun and not ended.
Cancelling(u) == mark[u] = "taken" /\ can[u] # "done"

\* The controller's callback holds a urb_req between its critical sections.
HcHolds ==
  /\ Reading \/ hc = "fetched" => hc_urbr \in Urbr
  /\ hc \in {"idle", "invalid", "read", "urbs"} => hc_urbr = NoUrbr
  /\ hc \in {"invalid", "read", "urbs"} => invalid

TypeInv == TypeOK /\ HcHolds

\* A request is marked when submit_urbr is done with it, and then cancelled once.
MarkedLate ==
  \A u \in Urb : LET w == SubmitOf(u) IN
    /\ sub[w] \in {"idle", "enter"} \/ Storing(w) =>
         mark[u] = "no" /\ can[u] = "idle" /\ w \notin head_urbr_pending
    /\ sub[w] \in {"idle", "enter"} => urbr_sent_partial # w
    /\ can[u] # "idle" => /\ mark[u] = "taken" /\ urbr_sent_partial # w
                          /\ w \notin head_urbr_pending
    /\ can[u] = "done" => req[u] # "owned"

\* One urb_req at a time is stored, by submit_urbr or by io_read: it is
\* urbr_sent_partial, unless it has been cancelled meanwhile.
OneStored ==
  /\ \A w \in Urbr : Storing(w) => /\ urbr_sent_partial = w
                                   /\ sub_read[w] # NoReq /\ ~Reading
  /\ Reading =>
       /\ pending_req_read = NoReq
       /\ \/ urbr_sent_partial = hc_urbr
          \/ /\ urbr_sent_partial = NoUrbr
             /\ HasReq(hc_urbr) /\ can[hc_urbr[1]] # "idle"
       /\ \A u \in Urb : hc_urbr = SubmitOf(u) /\ req[u] = "owned" =>
            hc_urbr \in head_urbr \/ Cancelling(u)

StrandInv == MarkedLate /\ OneStored /\ NoStrandedUrb
-----------------------------------------------------------------------------
(* The invariants that need that no OUT transfer is cancelled.              *)

\* Where a urb_req may be.
Placed ==
  /\ \A w \in Urbr :
       /\ sub[w] \in {"idle", "enter"} =>
            /\ w \notin head_urbr /\ w \notin head_urbr_pending
            /\ w \notin head_urbr_sent /\ urbr_sent_partial # w
            /\ at[w] = 0 /\ seq[w] = 0
       /\ w \in head_urbr_pending =>
            /\ sub[w] = "done" /\ urbr_sent_partial # w /\ w \notin head_urbr_sent
            /\ at[w] # 0 /\ seq[w] = 0
       /\ w \in head_urbr_sent => urbr_sent_partial # w
       /\ Storing(w) => w \notin head_urbr
       /\ sub[w] = "finish" => sub_read[w] # NoReq
       /\ at[w] <= arrivals
  /\ Reading => /\ sub[hc_urbr] = "done"
                /\ hc_urbr \notin head_urbr_pending /\ hc_urbr \notin head_urbr_sent
  /\ hc = "fetched" =>
       /\ hc_urbr \notin head_urbr /\ hc_urbr \notin head_urbr_pending
       /\ hc_urbr \notin head_urbr_sent /\ urbr_sent_partial # hc_urbr
       /\ sub[hc_urbr] \in {"finish", "done"}

\* The driver's own commands are submitted once.
OwnOnce ==
  \A u \in Urb : LET w == SubmitOf(u) IN
    /\ can[u] = "idle" => sub[UnlinkOf(u)] = "idle"
    /\ sub[ResetOf(u)] # "idle" =>
         /\ w \notin head_urbr_pending /\ w \notin head_urbr_sent
         /\ urbr_sent_partial # w /\ (Reading => hc_urbr # w)
         /\ sub[w] \in {"finish", "done"}

IsOut(w) == HasReq(w) /\ kind[w[1]] = "out"

\* What is marked, and by whom it may have been cancelled.
Marks ==
  /\ \A u \in Urb :
       /\ cancelled[u] => u \in may
       /\ mark[u] = "taken" => cancelled[u]
       /\ mark[u] = "yes" => cancelable[u]
       /\ mark[u] # "no" => kind[u] # "select"
  /\ \A r \in Reads : mark[r] = "taken" => fwd = "off"

\* The forwarder expects a payload only when it is the one to be read next.
Expected ==
  /\ expect # NoUrbr =>
       /\ urbr_sent_partial = expect /\ IsOut(expect)
       /\ \A w \in Urbr : ~Storing(w)
       /\ hc # "storing"
  /\ len_sent_partial # 0 =>
       /\ urbr_sent_partial # NoUrbr /\ IsOut(urbr_sent_partial)
       /\ hc # "storing" /\ \A w \in Urbr : sub[w] # "storing"
  /\ hc = "stored" /\ ~hc_ok => len_sent_partial = 0
  /\ \A w \in Urbr :
       /\ sub[w] = "bad" => HasReq(w) /\ kind[w[1]] = "bad"
       /\ sub[w] = "local" => HasReq(w) /\ kind[w[1]] = "serial"
       /\ sub[w] = "finish" /\ urbr_sent_partial = w => IsOut(w)
       /\ Storing(w) /\ fwd = "on" /\ ~invalid => pending_req_read # NoReq
  /\ urbr_sent_partial # NoUrbr /\ pending_req_read = NoReq /\ fwd = "on"
       /\ ~invalid /\ ~Reading /\ (\A w \in Urbr : ~Storing(w)) =>
         IsOut(urbr_sent_partial) /\ urbr_sent_partial \in head_urbr

Plain == \A u \in Urb : kind[u] \in {"in", "out", "select"}

\* While a read waits and nothing is being stored there is nothing to send.
ReadIdle ==
  /\ Plain /\ pending_req_read # NoReq /\ urbr_sent_partial = NoUrbr =>
       head_urbr_pending = {}
  /\ \A u \in Urb : urbr_sent_partial = SubmitOf(u) /\ pending_req_read # NoReq =>
       mark[u] = "no"

\* Who holds the urb_req of a request, and may complete the request.
Holds(w) ==
  \/ w \in head_urbr \cup head_urbr_pending \cup head_urbr_sent
  \/ (Reading \/ hc = "fetched") /\ hc_urbr = w

Owned ==
  \A u \in Urb : LET w == SubmitOf(u) IN
    /\ req[u] # "twice"
    /\ sub[w] = "idle" => req[u] = "idle"
    /\ sub[w] = "enter" \/ Storing(w) => req[u] = "owned"
    /\ Cancelling(u) => req[u] = "owned"
    /\ Holds(w) => req[u] = "owned" \/ mark[u] = "taken"
    /\ Holds(w) /\ mark[u] = "taken" => cancelable[u]

OutInv == NoCancelledOut /\ Placed /\ OwnOnce /\ Marks /\ Expected /\ ReadIdle /\ Owned
-----------------------------------------------------------------------------
(* Types.                                                                   *)

\* Facts about identities that every proof below uses.
LEMMA UrbrFacts ==
  /\ NoUrbr \notin Urbr
  /\ \A u \in Urb : /\ SubmitOf(u) \in Urbr /\ UnlinkOf(u) \in Urbr /\ ResetOf(u) \in Urbr
                    /\ HasReq(SubmitOf(u)) /\ SubmitOf(u)[1] = u
                    /\ ~HasReq(UnlinkOf(u)) /\ ~HasReq(ResetOf(u))
  /\ \A w \in Urbr : w[1] \in Urb /\ (HasReq(w) => w = SubmitOf(w[1]))
  /\ \A u, v \in Urb : /\ SubmitOf(u) = SubmitOf(v) => u = v
                       /\ UnlinkOf(u) = UnlinkOf(v) => u = v
                       /\ ResetOf(u) = ResetOf(v) => u = v
                       /\ SubmitOf(u) # UnlinkOf(v) /\ SubmitOf(u) # ResetOf(v)
                       /\ UnlinkOf(u) # ResetOf(v)
  BY ConstantsAssumption DEF NoUrbr, Urbr, SubmitOf, UnlinkOf, ResetOf, HasReq

LEMMA ReqFacts ==
  /\ \A u \in Urb : u \in Req /\ u \notin Reads
  /\ \A r \in Reads : r \in Req /\ r \notin Urb
  /\ NoReq \notin Urb /\ NoReq \notin Reads /\ NoReq \notin Req
  /\ Req = Urb \cup Reads
  BY ConstantsAssumption DEF Req

Marking == [Req -> {"no", "yes", "taken"}]

\* What mark_cancelable_urbr and unmark_cancelable_urbr do.
LEMMA MarkEffect ==
  ASSUME TypeOK, NEW w \in Urbr, MarkCancelable(w)
  PROVE  /\ mark' \in Marking /\ cancelable' \in [Urb -> BOOLEAN]
         /\ \A q \in Req : q # w[1] \/ ~HasReq(w) => mark'[q] = mark[q]
         /\ \A u \in Urb : u # w[1] => cancelable'[u] = cancelable[u]
         /\ IsUrb(w) => mark'[w[1]] = "yes" /\ cancelable'[w[1]]
         /\ ~IsUrb(w) => mark' = mark /\ cancelable' = cancelable
<1>1. w[1] \in Urb /\ w[1] \in Req
  BY UrbrFacts, ReqFacts
<1>2. CASE IsUrb(w)
  <2>1. PICK u \in Urb : u = w[1] /\ u \in Req
    BY <1>1
  <2>2. /\ mark' = [mark EXCEPT ![u] = "yes"]
        /\ cancelable' = [cancelable EXCEPT ![u] = TRUE]
    BY <1>2, <2>1 DEF MarkCancelable
  <2>3. /\ mark' \in Marking /\ mark'[u] = "yes"
        /\ \A q \in Req : q # u => mark'[q] = mark[q]
    BY <2>1, <2>2 DEF TypeOK, Marking
  <2>4. cancelable' \in [Urb -> BOOLEAN] /\ cancelable'[u]
    BY <2>2 DEF TypeOK
  <2>5. \A v \in Urb : v # u => cancelable'[v] = cancelable[v]
    BY <2>2 DEF TypeOK
  <2> QED  BY <1>2, <2>1, <2>3, <2>4, <2>5 DEF IsUrb
<1>3. CASE ~IsUrb(w)
  BY <1>3 DEF MarkCancelable, TypeOK, Marking
<1> QED  BY <1>2, <1>3 DEF IsUrb

LEMMA UnmarkEffect ==
  ASSUME TypeOK, NEW w \in Urbr, UnmarkCancelable(w)
  PROVE  /\ mark' \in Marking /\ cancelable' \in [Urb -> BOOLEAN]
         /\ \A q \in Req : q # w[1] \/ mark[q] # "yes" => mark'[q] = mark[q]
         /\ \A q \in Req : mark'[q] = mark[q] \/ (mark[q] = "yes" /\ mark'[q] = "no")
         /\ \A u \in Urb : u # w[1] \/ ~IsUrb(w) => cancelable'[u] = cancelable[u]
         /\ \A u \in Urb : cancelable'[u] => cancelable[u]
         /\ IsUrb(w) => ~cancelable'[w[1]]
         /\ IsUrb(w) /\ cancelable[w[1]] => mark'[w[1]] # "yes"
<1>1. w[1] \in Urb /\ w[1] \in Req
  BY UrbrFacts, ReqFacts
<1>2. CASE IsUrb(w) /\ cancelable[w[1]]
  <2>1. PICK u \in Urb : u = w[1] /\ u \in Req
    BY <1>1
  <2>2. mark' = Unmarked({u}) /\ cancelable' = [cancelable EXCEPT ![u] = FALSE]
    BY <1>2, <2>1 DEF UnmarkCancelable
  <2>3. /\ mark' \in Marking /\ mark'[u] # "yes"
        /\ \A q \in Req : q # u \/ mark[q] # "yes" => mark'[q] = mark[q]
        /\ \A q \in Req : mark'[q] = mark[q] \/ (mark[q] = "yes" /\ mark'[q] = "no")
    BY <2>1, <2>2 DEF Unmarked, TypeOK, Marking
  <2>4. cancelable' \in [Urb -> BOOLEAN] /\ ~cancelable'[u]
    BY <2>2 DEF TypeOK
  <2>5. \A v \in Urb : v # u => cancelable'[v] = cancelable[v]
    BY <2>2 DEF TypeOK
  <2>6. \A v \in Urb : cancelable'[v] => cancelable[v]
    BY <2>4, <2>5
  <2> QED  BY <1>2, <2>1, <2>3, <2>4, <2>5, <2>6
<1>3. CASE ~(IsUrb(w) /\ cancelable[w[1]])
  BY <1>3 DEF UnmarkCancelable, TypeOK, Marking
<1> QED  BY <1>2, <1>3

\* WdfRequestUnmarkCancelable on a read.
LEMMA UnmarkRead ==
  ASSUME TypeOK, NEW r \in Reads \cup {NoReq}
  PROVE  /\ Unmarked({r}) \in Marking
         /\ \A u \in Urb : Unmarked({r})[u] = mark[u]
         /\ \A q \in Reads : Unmarked({r})[q] = "taken" => mark[q] = "taken"
  BY ReqFacts DEF Unmarked, TypeOK, Marking

\* Completing requests.
LEMMA CompleteEffect ==
  ASSUME TypeOK, NEW S, CompleteAll(S)
  PROVE  /\ req' \in [Req -> {"idle", "owned", "done", "twice"}]
         /\ \A q \in Req : q \notin S => req'[q] = req[q]
         /\ \A q \in Req : q \in S => /\ req'[q] \in {"done", "twice"}
                                      /\ req[q] = "owned" => req'[q] = "done"
         /\ \A q \in Req : req'[q] = "owned" => req[q] = "owned"
  BY DEF CompleteAll, Completed, TypeOK

\* The request of a urb_req is one of the class drivers'.
LEMMA ReqOfFact ==
  \A w \in Urbr : /\ ReqOf(w) \subseteq Urb
                  /\ \A u \in Urb : u \in ReqOf(w) <=> w = SubmitOf(u)
  BY UrbrFacts DEF ReqOf

\* Every step keeps the types.
LEMMA TypeStep == TypeInv /\ [Next]_vars => TypeInv'
<1> SUFFICES ASSUME TypeInv, [Next]_vars
             PROVE  TypeInv'
  OBVIOUS
<1> USE DEF vusb, lists, urbrs, reqs, submitters, controller, forwarder, TypeInv,
            TypeOK, HcHolds, Reading
<1>1. ASSUME NEW u \in Urb, InternalDeviceControl(u) PROVE TypeInv'
  <2>1. /\ SubmitOf(u) \in Urbr /\ u \in Req
        /\ req' = [req EXCEPT ![u] = "owned"] \/ req' = [req EXCEPT ![u] = "done"]
        /\ \/ sub' = [sub EXCEPT ![SubmitOf(u)] = "enter"]
           \/ sub' = [sub EXCEPT ![SubmitOf(u)] = "done"]
        /\ mem' = [mem EXCEPT ![SubmitOf(u)] = "live"] \/ mem' = mem
    BY <1>1, UrbrFacts, ReqFacts DEF InternalDeviceControl, Allocate
  <2>2. /\ req' \in [Req -> {"idle", "owned", "done", "twice"}]
        /\ sub' \in [Urbr -> {"idle", "enter", "storing", "ok", "bad", "local",
                             "finish", "done"}]
        /\ mem' \in [Urbr -> {"none", "live", "freed"}]
    BY <2>1 DEF TypeOK
  <2> QED  BY <1>1, <2>2
           DEF InternalDeviceControl, vusb, controller, forwarder,
               TypeOK, HcHolds, Reading
<1>2. ASSUME NEW u \in Urb, EpConfigure(u) PROVE TypeInv'
  <2>1. /\ SubmitOf(u) \in Urbr /\ u \in Req
        /\ req' = [req EXCEPT ![u] = "owned"] \/ req' = [req EXCEPT ![u] = "done"]
        /\ \/ sub' = [sub EXCEPT ![SubmitOf(u)] = "enter"]
           \/ sub' = [sub EXCEPT ![SubmitOf(u)] = "done"]
        /\ mem' = [mem EXCEPT ![SubmitOf(u)] = "live"] \/ mem' = mem
    BY <1>2, UrbrFacts, ReqFacts DEF EpConfigure, Allocate
  <2>2. /\ req' \in [Req -> {"idle", "owned", "done", "twice"}]
        /\ sub' \in [Urbr -> {"idle", "enter", "storing", "ok", "bad", "local",
                             "finish", "done"}]
        /\ mem' \in [Urbr -> {"none", "live", "freed"}]
    BY <2>1 DEF TypeOK
  <2> QED  BY <1>2, <2>2
           DEF EpConfigure, vusb, controller, forwarder, TypeOK,
               HcHolds, Reading
<1>3. ASSUME NEW u \in Urb, CancelUrb(u) PROVE TypeInv'
  BY <1>3, UrbrFacts, ReqFacts DEF CancelUrb
<1>4. ASSUME NEW u \in Urb, UrbrCancelled(u) PROVE TypeInv'
  <2>1. /\ UnlinkOf(u) \in Urbr
        /\ mem' = [mem EXCEPT ![UnlinkOf(u)] = "live"] \/ mem' = mem
        /\ sub' = [sub EXCEPT ![UnlinkOf(u)] = "enter"] \/ sub' = sub
        /\ can' = [can EXCEPT ![u] = "done"] \/ can' = [can EXCEPT ![u] = "unlinking"]
        /\ CompleteAll({u}) \/ req' = req
    BY <1>4, UrbrFacts DEF UrbrCancelled, Allocate
  <2>2. /\ sub' \in [Urbr -> {"idle", "enter", "storing", "ok", "bad", "local",
                             "finish", "done"}]
        /\ mem' \in [Urbr -> {"none", "live", "freed"}]
        /\ can' \in [Urb -> {"idle", "unlinking", "done"}]
    BY <2>1 DEF TypeOK
  <2>3. req' \in [Req -> {"idle", "owned", "done", "twice"}]
    BY <2>1, CompleteEffect DEF TypeOK
  <2>4. /\ head_urbr' \subseteq Urbr /\ head_urbr_pending' \subseteq Urbr
        /\ head_urbr_sent' \subseteq Urbr /\ len_sent_partial' \in {0, HDR}
        /\ urbr_sent_partial' \in Urbr \cup {NoUrbr}
    BY <1>4 DEF UrbrCancelled, Unlist, TypeOK
  <2> QED  BY <1>4, <2>2, <2>3, <2>4
           DEF UrbrCancelled, controller, forwarder, TypeOK, HcHolds, Reading
<1>5. ASSUME NEW u \in Urb, UrbrCancelledDone(u) PROVE TypeInv'
  BY <1>5, UrbrFacts, ReqFacts DEF UrbrCancelledDone, Free, CompleteAll, Completed
<1>6. ASSUME NEW w \in Urbr, SubmitInvalid(w) PROVE TypeInv'
  BY <1>6, UrbrFacts, ReqFacts
  DEF SubmitInvalid, GiveUp, Free, CompleteAll, Completed, ReqOf
<1>7. ASSUME NEW w \in Urbr, SubmitPending(w) PROVE TypeInv'
  <2>1. mark' \in Marking /\ cancelable' \in [Urb -> BOOLEAN]
    BY <1>7, MarkEffect DEF SubmitPending
  <2> QED  BY <1>7, <2>1
           DEF SubmitPending, Marking, Enlist, Arrive, controller,
               forwarder, TypeOK, HcHolds, Reading
<1>8. ASSUME NEW w \in Urbr, SubmitCancelled(w) PROVE TypeInv'
  BY <1>8, UrbrFacts, ReqFacts
  DEF SubmitCancelled, GiveUp, Free, CompleteAll, Completed, ReqOf
<1>9. ASSUME NEW w \in Urbr, SubmitDirect(w) PROVE TypeInv'
  BY <1>9, UrbrFacts, ReqFacts DEF SubmitDirect, NextSeqnum, Arrive, NoReadFor
<1>10. ASSUME NEW w \in Urbr, SubmitStore(w) PROVE TypeInv'
  BY <1>10, UrbrFacts, ReqFacts DEF SubmitStore, StoreResult, LenStored
<1>11. ASSUME NEW w \in Urbr, SubmitStored(w) PROVE TypeInv'
  <2>1. mark' \in Marking /\ cancelable' \in [Urb -> BOOLEAN]
    BY <1>11, MarkEffect DEF SubmitStored
  <2> QED  BY <1>11, <2>1
           DEF SubmitStored, Marking, Enlist, controller,
               forwarder, TypeOK, HcHolds, Reading
<1>12. ASSUME NEW w \in Urbr, SubmitStoredCancelled(w) PROVE TypeInv'
  BY <1>12, UrbrFacts, ReqFacts
  DEF SubmitStoredCancelled, GiveUp, Free, CompleteAll, Completed, ReqOf
<1>13. ASSUME NEW w \in Urbr, SubmitFinish(w) PROVE TypeInv'
  BY <1>13, UrbrFacts, ReqFacts
  DEF SubmitFinish, Unmarked, CompleteAll, Completed, Received
<1>14. ASSUME NEW w \in Urbr, SubmitFailed(w) PROVE TypeInv'
  BY <1>14, UrbrFacts, ReqFacts
  DEF SubmitFailed, Free, CompleteAll, Completed, ReqOf
<1>15. ASSUME NEW w \in Urbr, IoWrite(w) PROVE TypeInv'
  <2>1. /\ mem' \in [Urbr -> {"none", "live", "freed"}]
        /\ sub' \in [Urbr -> {"idle", "enter", "storing", "ok", "bad", "local",
                             "finish", "done"}]
    <3>1. \/ mem' = mem /\ sub' = sub
          \/ \E v \in Urb : /\ mem' = [mem EXCEPT ![ResetOf(v)] = "live"]
                            /\ sub' = [sub EXCEPT ![ResetOf(v)] = "enter"]
      BY <1>15, UrbrFacts DEF IoWrite, Allocate, TypeOK
    <3> QED  BY SMTT(30), <3>1, UrbrFacts DEF TypeOK
  <2>2. /\ head_urbr' \subseteq Urbr /\ head_urbr_pending' \subseteq Urbr
        /\ head_urbr_sent' \subseteq Urbr /\ wire' \subseteq Urbr
    BY <1>15 DEF IoWrite, Unlist, lists, TypeOK
  <2>3. \/ hc' = "idle" /\ hc_urbr' = NoUrbr
        \/ hc' = "fetched" /\ hc_urbr' \in Urbr
    BY <1>15 DEF IoWrite, HcHolds, TypeOK
  <2>4. HcHolds'
    BY <2>3 DEF HcHolds, Reading
  <2> QED  BY <1>15, <2>1, <2>2, <2>3, <2>4 DEF IoWrite, reqs, TypeOK
<1>16. ASSUME NEW r \in Reads, ReadPartial(r) PROVE TypeInv'
  <2>1. urbr_sent_partial \in Urbr
    BY <1>16 DEF ReadPartial, TypeOK
  <2>2. mark' \in Marking /\ cancelable' \in [Urb -> BOOLEAN]
    BY <1>16, <2>1, UnmarkEffect DEF ReadPartial
  <2> QED  BY <1>16, <2>1, <2>2, ReqFacts
           DEF ReadPartial, Marking, vusb, submitters, forwarder,
               TypeOK, HcHolds, Reading
<1>17. ASSUME NEW r \in Reads, ReadPended(r) PROVE TypeInv'
  <2>1. /\ pending_req_read' \in Reads \cup {NoReq} /\ mark' \in Marking
        /\ req' \in [Req -> {"idle", "owned", "done", "twice"}]
    BY <1>17, ReqFacts DEF ReadPended, TypeOK, Marking
  <2>2. cancelable' \in [Urb -> BOOLEAN] /\ fwd' \in {"on", "off"}
    BY <1>17 DEF ReadPended, TypeOK
  <2>3. urbr_sent_partial' \in Urbr \cup {NoUrbr} /\ len_sent_partial' \in {0, HDR}
    BY <1>17 DEF ReadPended, TypeOK
  <2> QED  BY <1>17, <2>1, <2>2, <2>3
           DEF ReadPended, Marking, lists, submitters, controller,
               TypeOK, HcHolds, Reading
<1>18. ASSUME NEW r \in Reads, ReadTake(r) PROVE TypeInv'
  <2>1. /\ mark' \in Marking /\ cancelable' \in [Urb -> BOOLEAN]
        /\ len_sent_partial' \in {0, HDR}
    <3>1. CASE urbr_sent_partial = NoUrbr
      BY <1>18, <3>1 DEF ReadTake, PartialDropped, TypeOK, Marking
    <3>2. CASE urbr_sent_partial # NoUrbr
      BY <1>18, <3>2, UnmarkEffect DEF ReadTake, PartialDropped, TypeOK
    <3> QED  BY <3>1, <3>2
  <2>2. PICK w \in head_urbr_pending :
          /\ NextSeqnum(w) /\ head_urbr_pending' = head_urbr_pending \ {w}
          /\ urbr_sent_partial' = w /\ hc_urbr' = w
    BY <1>18 DEF ReadTake
  <2>3. /\ w \in Urbr /\ head_urbr_pending' \subseteq Urbr
        /\ seq_num' \in Nat /\ seq' \in [Urbr -> Nat]
    BY <2>2 DEF TypeOK, NextSeqnum
  <2> QED  BY <1>18, <2>1, <2>2, <2>3, ReqFacts
           DEF ReadTake, Marking, submitters, forwarder, TypeOK,
               HcHolds, Reading
<1>19. ASSUME NEW r \in Reads, ReadRefused(r) PROVE TypeInv'
  BY <1>19, UrbrFacts, ReqFacts DEF ReadRefused
<1>20. ASSUME NEW r \in Reads, CancelRead(r) PROVE TypeInv'
  BY <1>20, UrbrFacts, ReqFacts DEF CancelRead
<1>21. ASSUME NEW r \in Reads, ReqReadCancelled(r) PROVE TypeInv'
  BY <1>21, UrbrFacts, ReqFacts DEF ReqReadCancelled, CompleteAll, Completed
<1>22. CASE ReadStore
  BY <1>22, UrbrFacts, ReqFacts DEF ReadStore, StoreResult, LenStored
<1>23. CASE ReadStorePartial
  BY <1>23, UrbrFacts, ReqFacts DEF ReadStorePartial
<1>24. CASE ReadStored
  <2>1. hc_urbr \in Urbr /\ hc = "stored"
    BY <1>24 DEF ReadStored, HcHolds, Reading
  <2>2. req' \in [Req -> {"idle", "owned", "done", "twice"}]
    BY <1>24, CompleteEffect DEF ReadStored
  <2>3. wire' \subseteq Urbr /\ expect' \in Urbr \cup {NoUrbr}
    BY <1>24, <2>1 DEF ReadStored, Received, TypeOK
  <2>4. head_urbr_sent' \subseteq Urbr /\ urbr_sent_partial' \in Urbr \cup {NoUrbr}
    BY <1>24, <2>1 DEF ReadStored, TypeOK
  <2> QED  BY <1>24, <2>2, <2>3, <2>4
           DEF ReadStored, Received, ReadLeave, urbrs, submitters,
               TypeOK, HcHolds, Reading
<1>25. CASE ReadFailed
  <2>1. hc_urbr \in Urbr
    BY <1>25 DEF ReadFailed, HcHolds, Reading
  <2>2. mark' \in Marking /\ cancelable' \in [Urb -> BOOLEAN]
    BY <1>25, <2>1, UnmarkEffect DEF ReadFailed
  <2>3. req' \in [Req -> {"idle", "owned", "done", "twice"}]
    BY <1>25, CompleteEffect DEF ReadFailed
  <2>4. mem' \in [Urbr -> {"none", "live", "freed"}]
    BY <1>25 DEF ReadFailed, Free, TypeOK
  <2> QED  BY <1>25, <2>2, <2>3, <2>4
           DEF ReadFailed, ReadLeave, Marking, submitters, TypeOK,
               HcHolds, Reading
<1>26. CASE WriteDone
  <2>1. hc_urbr \in Urbr
    BY <1>26 DEF WriteDone, HcHolds
  <2>2. mark' \in Marking /\ cancelable' \in [Urb -> BOOLEAN]
    BY <1>26, <2>1, UnmarkEffect DEF WriteDone
  <2>3. req' \in [Req -> {"idle", "owned", "done", "twice"}]
    BY <1>26, CompleteEffect DEF WriteDone, TypeOK
  <2>4. mem' \in [Urbr -> {"none", "live", "freed"}]
    BY <1>26 DEF WriteDone, Free, TypeOK
  <2> QED  BY <1>26, <2>2, <2>3, <2>4
           DEF WriteDone, Marking, vusb, submitters, forwarder,
               TypeOK, HcHolds, Reading
<1>27. CASE AbortRead
  BY <1>27, UrbrFacts, ReqFacts DEF AbortRead
<1>28. CASE AbortReadDone
  BY <1>28, UrbrFacts, ReqFacts DEF AbortReadDone, Unmarked, CompleteAll, Completed
<1>29. CASE AbortUrbr
  <2>1. PICK w \in head_urbr :
          /\ Unlist(w) /\ UnmarkCancelable(w)
          /\ IF Unmarks(w) THEN CompleteAll(ReqOf(w)) /\ Free(w)
                           ELSE UNCHANGED <<req, mem>>
    BY <1>29 DEF AbortUrbr
  <2>2. w \in Urbr
    BY DEF TypeOK
  <2>3. mark' \in Marking /\ cancelable' \in [Urb -> BOOLEAN]
    BY <2>1, <2>2, UnmarkEffect
  <2>4. req' \in [Req -> {"idle", "owned", "done", "twice"}]
    BY <2>1, CompleteEffect DEF TypeOK
  <2>5. mem' \in [Urbr -> {"none", "live", "freed"}]
    BY <2>1 DEF Free, TypeOK
  <2>6. /\ head_urbr' \subseteq Urbr /\ head_urbr_pending' \subseteq Urbr
        /\ head_urbr_sent' \subseteq Urbr
    BY <2>1 DEF Unlist, TypeOK
  <2> QED  BY <1>29, <2>3, <2>4, <2>5, <2>6
           DEF AbortUrbr, Marking, submitters, controller,
               forwarder, TypeOK, HcHolds, Reading
<1>30. CASE AbortDone
  BY <1>30, UrbrFacts, ReqFacts DEF AbortDone
<1>31. CASE PlugOut
  BY <1>31, UrbrFacts, ReqFacts DEF PlugOut
<1>32. CASE UNCHANGED vars
  BY <1>32, UrbrFacts, ReqFacts DEF vars
<1> QED  BY <1>1, <1>2, <1>3, <1>4, <1>5, <1>6, <1>7, <1>8, <1>9, <1>10,
            <1>11, <1>12, <1>13, <1>14, <1>15, <1>16, <1>17, <1>18, <1>19, <1>20, <1>21,
            <1>22, <1>23, <1>24, <1>25, <1>26, <1>27, <1>28, <1>29, <1>30, <1>31, <1>32
            DEF Next, Submit, Read, Callback

\* urbr_cancelled takes the command of one request off the lists; the request is
\* completed now, or later by UrbrCancelledDone.
LEMMA CancelEffect ==
  ASSUME TypeInv, NEW u \in Urb, UrbrCancelled(u)
  PROVE  /\ \A v \in Urb : v # u => can'[v] = can[v] /\ req'[v] = req[v]
         /\ can'[u] \in {"unlinking", "done"}
         /\ req'[u] = "owned" => can'[u] = "unlinking"
         /\ \A x \in Urbr : x # UnlinkOf(u) => sub'[x] = sub[x]
         /\ sub'[UnlinkOf(u)] = sub[UnlinkOf(u)] \/ sub'[UnlinkOf(u)] = "enter"
         /\ head_urbr' = head_urbr \ {SubmitOf(u)}
         /\ head_urbr_pending' = head_urbr_pending \ {SubmitOf(u)}
         /\ head_urbr_sent' = head_urbr_sent \ {SubmitOf(u)}
         /\ urbr_sent_partial' =
              IF urbr_sent_partial = SubmitOf(u) THEN NoUrbr ELSE urbr_sent_partial
         /\ len_sent_partial' =
              IF urbr_sent_partial = SubmitOf(u) THEN 0 ELSE len_sent_partial
         /\ mark[u] = "taken" /\ can[u] = "idle"
         /\ UNCHANGED <<invalid, pending_req_read, seq_num, kind, may, seq, at,
                        arrivals, cancelable, mark, cancelled, sub_read, controller,
                        forwarder>>
<1> USE DEF TypeInv
<1>1. \A v \in Urb : v # u => can'[v] = can[v] /\ req'[v] = req[v]
  <2>1. CompleteAll({u}) \/ req' = req
    BY DEF UrbrCancelled
  <2>2. \A v \in Urb : v # u => req'[v] = req[v]
    BY <2>1, CompleteEffect, ReqFacts
  <2>3. \A v \in Urb : v # u => can'[v] = can[v]
    BY DEF UrbrCancelled, TypeOK
  <2> QED  BY <2>2, <2>3
<1>2. can'[u] \in {"unlinking", "done"}
  BY DEF UrbrCancelled, TypeOK
<1>3. req'[u] = "owned" => can'[u] = "unlinking"
  <2>1. CASE seq[SubmitOf(u)] = 0
    BY <2>1, CompleteEffect, ReqFacts DEF UrbrCancelled
  <2>2. CASE seq[SubmitOf(u)] # 0
    BY <2>2 DEF UrbrCancelled, TypeOK
  <2> QED  BY <2>1, <2>2
<1>4. /\ \A x \in Urbr : x # UnlinkOf(u) => sub'[x] = sub[x]
      /\ sub'[UnlinkOf(u)] = sub[UnlinkOf(u)] \/ sub'[UnlinkOf(u)] = "enter"
  BY UrbrFacts DEF UrbrCancelled, TypeOK
<1>5. /\ head_urbr' = head_urbr \ {SubmitOf(u)}
      /\ head_urbr_pending' = head_urbr_pending \ {SubmitOf(u)}
      /\ head_urbr_sent' = head_urbr_sent \ {SubmitOf(u)}
      /\ urbr_sent_partial' =
           IF urbr_sent_partial = SubmitOf(u) THEN NoUrbr ELSE urbr_sent_partial
  BY DEF UrbrCancelled, Unlist
<1>6. /\ mark[u] = "taken" /\ can[u] = "idle"
      /\ UNCHANGED <<invalid, pending_req_read, seq_num, kind, may, seq, at,
                     arrivals, cancelable, mark, cancelled, sub_read, controller,
                     forwarder>>
      /\ len_sent_partial' =
           IF urbr_sent_partial = SubmitOf(u) THEN 0 ELSE len_sent_partial
  BY DEF UrbrCancelled
<1> QED  BY <1>1, <1>2, <1>3, <1>4, <1>5, <1>6

\* Completing a read changes no request of the class drivers, nor its mark.
LEMMA ReadCompleted ==
  ASSUME TypeOK, NEW q \in Reads \cup {NoReq}, mark' = Unmarked({q}), CompleteAll({q})
  PROVE  /\ \A v \in Urb : mark'[v] = mark[v] /\ req'[v] = req[v]
         /\ \A p \in Reads : mark'[p] = "taken" => mark[p] = "taken"
<1>1. \A v \in Urb : mark'[v] = mark[v]
  BY UnmarkRead
<1>2. \A v \in Urb : req'[v] = req[v]
  BY CompleteEffect, ReqFacts
<1>3. \A p \in Reads : mark'[p] = "taken" => mark[p] = "taken"
  BY UnmarkRead
<1> QED  BY <1>1, <1>2, <1>3

LEMMA FinishEffect ==
  ASSUME TypeInv, NEW w \in Urbr, SubmitFinish(w)
  PROVE  /\ \A v \in Urb : mark'[v] = mark[v] /\ req'[v] = req[v]
         /\ \A p \in Reads : mark'[p] = "taken" => mark[p] = "taken"
         /\ sub_read' = [sub_read EXCEPT ![w] = NoReq] /\ sub[w] = "finish"
         /\ sub' = [sub EXCEPT ![w] = "done"]
         /\ expect' \in {expect, NoUrbr} \/ (expect' = w /\ urbr_sent_partial = w)
         /\ UNCHANGED <<vusb, urbrs, cancelled, can, controller, fwd>>
<1>1. PICK q \in Reads \cup {NoReq} : q = sub_read[w]
  BY DEF TypeInv, TypeOK
<1>2. mark' = Unmarked({q}) /\ CompleteAll({q})
  BY <1>1 DEF SubmitFinish
<1>3. /\ sub_read' = [sub_read EXCEPT ![w] = NoReq] /\ sub[w] = "finish"
      /\ sub' = [sub EXCEPT ![w] = "done"]
      /\ UNCHANGED <<vusb, urbrs, cancelled, can, controller, fwd>>
  BY DEF SubmitFinish, Received, forwarder
<1>4. expect' \in {expect, NoUrbr} \/ (expect' = w /\ urbr_sent_partial = w)
  BY DEF SubmitFinish, Received, forwarder
<1> QED  BY <1>2, <1>3, <1>4, ReadCompleted DEF TypeInv

LEMMA AbortEffect ==
  ASSUME TypeInv, AbortReadDone
  PROVE  /\ \A v \in Urb : mark'[v] = mark[v] /\ req'[v] = req[v]
         /\ \A p \in Reads : mark'[p] = "taken" => mark[p] = "taken"
         /\ hc = "read" /\ hc' = "urbs" /\ hc_read' = NoReq
         /\ UNCHANGED <<vusb, urbrs, cancelled, can, submitters, hc_urbr, hc_ok,
                        forwarder>>
<1>1. PICK q \in Reads \cup {NoReq} : q = hc_read
  BY DEF TypeInv, TypeOK
<1>2. mark' = Unmarked({q}) /\ CompleteAll({q})
  BY <1>1 DEF AbortReadDone
<1> QED  BY <1>2, ReadCompleted DEF AbortReadDone, TypeInv
-----------------------------------------------------------------------------
(* No request is stranded.                                                  *)

\* A request is marked late, and cancelled once.
LEMMA MarkedStep == TypeInv /\ StrandInv /\ [Next]_vars => MarkedLate'
<1> SUFFICES ASSUME TypeInv, StrandInv, [Next]_vars
             PROVE  MarkedLate'
  OBVIOUS
<1> USE DEF vusb, lists, urbrs, reqs, submitters, controller, forwarder,
    TypeInv, TypeOK, MarkedLate, OneStored, Storing, Reading, HcHolds, StrandInv
<1>1. ASSUME NEW u \in Urb, InternalDeviceControl(u) PROVE MarkedLate'
  BY <1>1, UrbrFacts, ReqFacts DEF InternalDeviceControl
<1>2. ASSUME NEW u \in Urb, EpConfigure(u) PROVE MarkedLate'
  BY <1>2, UrbrFacts, ReqFacts DEF EpConfigure
<1>3. ASSUME NEW u \in Urb, CancelUrb(u) PROVE MarkedLate'
  BY <1>3, UrbrFacts, ReqFacts DEF CancelUrb
<1>4. ASSUME NEW u \in Urb, UrbrCancelled(u) PROVE MarkedLate'
  BY <1>4, CancelEffect, UrbrFacts
<1>5. ASSUME NEW u \in Urb, UrbrCancelledDone(u) PROVE MarkedLate'
  BY <1>5, UrbrFacts, ReqFacts, CompleteEffect DEF UrbrCancelledDone
<1>6. ASSUME NEW w \in Urbr, SubmitInvalid(w) PROVE MarkedLate'
  BY <1>6, UrbrFacts, ReqFacts, CompleteEffect, ReqOfFact DEF SubmitInvalid, GiveUp
<1>7. ASSUME NEW w \in Urbr, SubmitPending(w) PROVE MarkedLate'
  BY <1>7, UrbrFacts, ReqFacts, MarkEffect DEF SubmitPending, NoReadFor, Enlist
<1>8. ASSUME NEW w \in Urbr, SubmitCancelled(w) PROVE MarkedLate'
  BY <1>8, UrbrFacts, ReqFacts, CompleteEffect, ReqOfFact
  DEF SubmitCancelled, GiveUp
<1>9. ASSUME NEW w \in Urbr, SubmitDirect(w) PROVE MarkedLate'
  BY <1>9, UrbrFacts, ReqFacts DEF SubmitDirect, NoReadFor
<1>10. ASSUME NEW w \in Urbr, SubmitStore(w) PROVE MarkedLate'
  BY <1>10, UrbrFacts, ReqFacts DEF SubmitStore, StoreResult
<1>11. ASSUME NEW w \in Urbr, SubmitStored(w) PROVE MarkedLate'
  BY SMTT(30), <1>11, UrbrFacts, ReqFacts, MarkEffect DEF SubmitStored, Enlist
<1>12. ASSUME NEW w \in Urbr, SubmitStoredCancelled(w) PROVE MarkedLate'
  BY <1>12, UrbrFacts, ReqFacts, CompleteEffect, ReqOfFact
  DEF SubmitStoredCancelled, GiveUp
<1>13. ASSUME NEW w \in Urbr, SubmitFinish(w) PROVE MarkedLate'
  BY <1>13, FinishEffect, UrbrFacts
<1>14. ASSUME NEW w \in Urbr, SubmitFailed(w) PROVE MarkedLate'
  BY <1>14, UrbrFacts, ReqFacts, CompleteEffect, ReqOfFact DEF SubmitFailed
<1>15. ASSUME NEW w \in Urbr, IoWrite(w) PROVE MarkedLate'
  BY <1>15, UrbrFacts, ReqFacts DEF IoWrite, Unlist
<1>16. ASSUME NEW r \in Reads, ReadPartial(r) PROVE MarkedLate'
  BY <1>16, UrbrFacts, ReqFacts, UnmarkEffect DEF ReadPartial, IoRead
<1>17. ASSUME NEW r \in Reads, ReadPended(r) PROVE MarkedLate'
  BY <1>17, UrbrFacts, ReqFacts DEF ReadPended, IoRead, Unmarks
<1>18. ASSUME NEW r \in Reads, ReadTake(r) PROVE MarkedLate'
  BY <1>18, UrbrFacts, ReqFacts, UnmarkEffect
  DEF ReadTake, IoRead, PartialDropped, Unmarks
<1>19. ASSUME NEW r \in Reads, ReadRefused(r) PROVE MarkedLate'
  BY <1>19, UrbrFacts, ReqFacts DEF ReadRefused
<1>20. ASSUME NEW r \in Reads, CancelRead(r) PROVE MarkedLate'
  BY <1>20, UrbrFacts, ReqFacts DEF CancelRead
<1>21. ASSUME NEW r \in Reads, ReqReadCancelled(r) PROVE MarkedLate'
  BY <1>21, UrbrFacts, ReqFacts, CompleteEffect DEF ReqReadCancelled
<1>22. CASE ReadStore
  BY <1>22, UrbrFacts, ReqFacts DEF ReadStore
<1>23. CASE ReadStorePartial
  BY <1>23, UrbrFacts, ReqFacts DEF ReadStorePartial
<1>24. CASE ReadStored
  BY <1>24, UrbrFacts, ReqFacts, CompleteEffect DEF ReadStored, ReadLeave
<1>25. CASE ReadFailed
  BY <1>25, UrbrFacts, ReqFacts, UnmarkEffect, CompleteEffect, ReqOfFact
  DEF ReadFailed, ReadLeave, Unmarks
<1>26. CASE WriteDone
  BY <1>26, UrbrFacts, ReqFacts, UnmarkEffect, CompleteEffect, ReqOfFact
  DEF WriteDone, Unmarks
<1>27. CASE AbortRead
  BY <1>27, UrbrFacts, ReqFacts DEF AbortRead
<1>28. CASE AbortReadDone
  BY <1>28, AbortEffect, UrbrFacts
<1>29. CASE AbortUrbr
  BY <1>29, UrbrFacts, ReqFacts, UnmarkEffect, CompleteEffect, ReqOfFact
  DEF AbortUrbr, Unlist, Unmarks
<1>30. CASE AbortDone
  BY <1>30, UrbrFacts, ReqFacts DEF AbortDone
<1>31. CASE PlugOut
  BY <1>31, UrbrFacts, ReqFacts DEF PlugOut
<1>32. CASE UNCHANGED vars
  BY <1>32, UrbrFacts, ReqFacts DEF vars
<1> QED  BY <1>1, <1>2, <1>3, <1>4, <1>5, <1>6, <1>7, <1>8, <1>9, <1>10,
            <1>11, <1>12, <1>13, <1>14, <1>15, <1>16, <1>17, <1>18, <1>19, <1>20, <1>21,
            <1>22, <1>23, <1>24, <1>25, <1>26, <1>27, <1>28, <1>29, <1>30, <1>31, <1>32
            DEF Next, Submit, Read, Callback

\* One urb_req at a time is stored.
LEMMA StoredStep == TypeInv /\ StrandInv /\ [Next]_vars => OneStored'
<1> SUFFICES ASSUME TypeInv, StrandInv, [Next]_vars
             PROVE  OneStored'
  OBVIOUS
<1> USE DEF vusb, lists, urbrs, reqs, submitters, controller, forwarder,
    TypeInv, TypeOK, MarkedLate, OneStored, Storing, Reading, HcHolds,
    StrandInv, Cancelling, NoStrandedUrb
<1>1. ASSUME NEW u \in Urb, InternalDeviceControl(u) PROVE OneStored'
  BY <1>1, UrbrFacts, ReqFacts DEF InternalDeviceControl
<1>2. ASSUME NEW u \in Urb, EpConfigure(u) PROVE OneStored'
  BY <1>2, UrbrFacts, ReqFacts DEF EpConfigure
<1>3. ASSUME NEW u \in Urb, CancelUrb(u) PROVE OneStored'
  BY <1>3, UrbrFacts, ReqFacts DEF CancelUrb
<1>4. ASSUME NEW u \in Urb, UrbrCancelled(u) PROVE OneStored'
  BY SMTT(30), <1>4, CancelEffect, UrbrFacts
<1>5. ASSUME NEW u \in Urb, UrbrCancelledDone(u) PROVE OneStored'
  BY <1>5, UrbrFacts, ReqFacts, CompleteEffect DEF UrbrCancelledDone
<1>6. ASSUME NEW w \in Urbr, SubmitInvalid(w) PROVE OneStored'
  BY <1>6, UrbrFacts, ReqFacts, CompleteEffect, ReqOfFact DEF SubmitInvalid, GiveUp
<1>7. ASSUME NEW w \in Urbr, SubmitPending(w) PROVE OneStored'
  BY <1>7, UrbrFacts, ReqFacts, MarkEffect DEF SubmitPending, NoReadFor, Enlist
<1>8. ASSUME NEW w \in Urbr, SubmitCancelled(w) PROVE OneStored'
  BY <1>8, UrbrFacts, ReqFacts, CompleteEffect, ReqOfFact
  DEF SubmitCancelled, GiveUp
<1>9. ASSUME NEW w \in Urbr, SubmitDirect(w) PROVE OneStored'
  BY <1>9, UrbrFacts, ReqFacts DEF SubmitDirect, NoReadFor
<1>10. ASSUME NEW w \in Urbr, SubmitStore(w) PROVE OneStored'
  BY <1>10, UrbrFacts, ReqFacts DEF SubmitStore, StoreResult
<1>11. ASSUME NEW w \in Urbr, SubmitStored(w) PROVE OneStored'
  BY <1>11, UrbrFacts, ReqFacts, MarkEffect DEF SubmitStored, Enlist
<1>12. ASSUME NEW w \in Urbr, SubmitStoredCancelled(w) PROVE OneStored'
  BY <1>12, UrbrFacts, ReqFacts, CompleteEffect, ReqOfFact
  DEF SubmitStoredCancelled, GiveUp
<1>13. ASSUME NEW w \in Urbr, SubmitFinish(w) PROVE OneStored'
  BY SMTT(30), <1>13, FinishEffect, UrbrFacts
<1>14. ASSUME NEW w \in Urbr, SubmitFailed(w) PROVE OneStored'
  BY <1>14, UrbrFacts, ReqFacts, CompleteEffect, ReqOfFact DEF SubmitFailed
<1>15. ASSUME NEW w \in Urbr, IoWrite(w) PROVE OneStored'
  BY <1>15, UrbrFacts, ReqFacts DEF IoWrite, Unlist
<1>16. ASSUME NEW r \in Reads, ReadPartial(r) PROVE OneStored'
  BY <1>16, UrbrFacts, ReqFacts, UnmarkEffect DEF ReadPartial, IoRead
<1>17. ASSUME NEW r \in Reads, ReadPended(r) PROVE OneStored'
  BY <1>17, UrbrFacts, ReqFacts DEF ReadPended, IoRead, Unmarks
<1>18. ASSUME NEW r \in Reads, ReadTake(r) PROVE OneStored'
  BY <1>18, UrbrFacts, ReqFacts, UnmarkEffect
  DEF ReadTake, IoRead, PartialDropped, Unmarks
<1>19. ASSUME NEW r \in Reads, ReadRefused(r) PROVE OneStored'
  BY <1>19, UrbrFacts, ReqFacts DEF ReadRefused
<1>20. ASSUME NEW r \in Reads, CancelRead(r) PROVE OneStored'
  BY <1>20, UrbrFacts, ReqFacts DEF CancelRead
<1>21. ASSUME NEW r \in Reads, ReqReadCancelled(r) PROVE OneStored'
  BY <1>21, UrbrFacts, ReqFacts, CompleteEffect DEF ReqReadCancelled
<1>22. CASE ReadStore
  BY <1>22, UrbrFacts, ReqFacts DEF ReadStore
<1>23. CASE ReadStorePartial
  BY <1>23, UrbrFacts, ReqFacts DEF ReadStorePartial
<1>24. CASE ReadStored
  BY <1>24, UrbrFacts, ReqFacts, CompleteEffect DEF ReadStored, ReadLeave
<1>25. CASE ReadFailed
  BY <1>25, UrbrFacts, ReqFacts, UnmarkEffect, CompleteEffect, ReqOfFact
  DEF ReadFailed, ReadLeave, Unmarks
<1>26. CASE WriteDone
  BY <1>26, UrbrFacts, ReqFacts, UnmarkEffect, CompleteEffect, ReqOfFact
  DEF WriteDone, Unmarks
<1>27. CASE AbortRead
  BY <1>27, UrbrFacts, ReqFacts DEF AbortRead
<1>28. CASE AbortReadDone
  BY <1>28, AbortEffect, UrbrFacts
<1>29. CASE AbortUrbr
  BY <1>29, UrbrFacts, ReqFacts, UnmarkEffect, CompleteEffect, ReqOfFact
  DEF AbortUrbr, Unlist, Unmarks
<1>30. CASE AbortDone
  BY <1>30, UrbrFacts, ReqFacts DEF AbortDone
<1>31. CASE PlugOut
  BY <1>31, UrbrFacts, ReqFacts DEF PlugOut
<1>32. CASE UNCHANGED vars
  BY <1>32, UrbrFacts, ReqFacts DEF vars
<1> QED  BY <1>1, <1>2, <1>3, <1>4, <1>5, <1>6, <1>7, <1>8, <1>9, <1>10,
            <1>11, <1>12, <1>13, <1>14, <1>15, <1>16, <1>17, <1>18, <1>19, <1>20, <1>21,
            <1>22, <1>23, <1>24, <1>25, <1>26, <1>27, <1>28, <1>29, <1>30, <1>31, <1>32
            DEF Next, Submit, Read, Callback

\* No request is stranded.
LEMMA StrandedStep == TypeInv /\ StrandInv /\ [Next]_vars => NoStrandedUrb'
<1> SUFFICES ASSUME TypeInv, StrandInv, [Next]_vars
             PROVE  NoStrandedUrb'
  OBVIOUS
<1> USE DEF vusb, lists, urbrs, reqs, submitters, controller, forwarder,
    TypeInv, TypeOK, MarkedLate, OneStored, Storing, Reading, HcHolds,
    StrandInv, Cancelling, NoStrandedUrb
<1>1. ASSUME NEW u \in Urb, InternalDeviceControl(u) PROVE NoStrandedUrb'
  BY <1>1, UrbrFacts, ReqFacts DEF InternalDeviceControl
<1>2. ASSUME NEW u \in Urb, EpConfigure(u) PROVE NoStrandedUrb'
  BY <1>2, UrbrFacts, ReqFacts DEF EpConfigure
<1>3. ASSUME NEW u \in Urb, CancelUrb(u) PROVE NoStrandedUrb'
  BY <1>3, UrbrFacts, ReqFacts DEF CancelUrb
<1>4. ASSUME NEW u \in Urb, UrbrCancelled(u) PROVE NoStrandedUrb'
  BY <1>4, CancelEffect, UrbrFacts
<1>5. ASSUME NEW u \in Urb, UrbrCancelledDone(u) PROVE NoStrandedUrb'
  BY <1>5, UrbrFacts, ReqFacts, CompleteEffect DEF UrbrCancelledDone
<1>6. ASSUME NEW w \in Urbr, SubmitInvalid(w) PROVE NoStrandedUrb'
  BY <1>6, UrbrFacts, ReqFacts, CompleteEffect, ReqOfFact DEF SubmitInvalid, GiveUp
<1>7. ASSUME NEW w \in Urbr, SubmitPending(w) PROVE NoStrandedUrb'
  BY <1>7, UrbrFacts, ReqFacts, MarkEffect DEF SubmitPending, NoReadFor, Enlist
<1>8. ASSUME NEW w \in Urbr, SubmitCancelled(w) PROVE NoStrandedUrb'
  BY <1>8, UrbrFacts, ReqFacts, CompleteEffect, ReqOfFact
  DEF SubmitCancelled, GiveUp
<1>9. ASSUME NEW w \in Urbr, SubmitDirect(w) PROVE NoStrandedUrb'
  BY <1>9, UrbrFacts, ReqFacts DEF SubmitDirect, NoReadFor
<1>10. ASSUME NEW w \in Urbr, SubmitStore(w) PROVE NoStrandedUrb'
  BY <1>10, UrbrFacts, ReqFacts DEF SubmitStore, StoreResult
<1>11. ASSUME NEW w \in Urbr, SubmitStored(w) PROVE NoStrandedUrb'
  BY SMTT(30), <1>11, UrbrFacts, ReqFacts, MarkEffect DEF SubmitStored, Enlist
<1>12. ASSUME NEW w \in Urbr, SubmitStoredCancelled(w) PROVE NoStrandedUrb'
  BY <1>12, UrbrFacts, ReqFacts, CompleteEffect, ReqOfFact
  DEF SubmitStoredCancelled, GiveUp
<1>13. ASSUME NEW w \in Urbr, SubmitFinish(w) PROVE NoStrandedUrb'
  BY <1>13, FinishEffect, UrbrFacts
<1>14. ASSUME NEW w \in Urbr, SubmitFailed(w) PROVE NoStrandedUrb'
  BY <1>14, UrbrFacts, ReqFacts, CompleteEffect, ReqOfFact DEF SubmitFailed
<1>15. ASSUME NEW w \in Urbr, IoWrite(w) PROVE NoStrandedUrb'
  BY <1>15, UrbrFacts, ReqFacts DEF IoWrite, Unlist
<1>16. ASSUME NEW r \in Reads, ReadPartial(r) PROVE NoStrandedUrb'
  BY SMTT(30), <1>16, UrbrFacts, ReqFacts, UnmarkEffect DEF ReadPartial, IoRead
<1>17. ASSUME NEW r \in Reads, ReadPended(r) PROVE NoStrandedUrb'
  BY <1>17, UrbrFacts, ReqFacts DEF ReadPended, IoRead, Unmarks
<1>18. ASSUME NEW r \in Reads, ReadTake(r) PROVE NoStrandedUrb'
  BY <1>18, UrbrFacts, ReqFacts, UnmarkEffect
  DEF ReadTake, IoRead, PartialDropped, Unmarks
<1>19. ASSUME NEW r \in Reads, ReadRefused(r) PROVE NoStrandedUrb'
  BY <1>19, UrbrFacts, ReqFacts DEF ReadRefused
<1>20. ASSUME NEW r \in Reads, CancelRead(r) PROVE NoStrandedUrb'
  BY <1>20, UrbrFacts, ReqFacts DEF CancelRead
<1>21. ASSUME NEW r \in Reads, ReqReadCancelled(r) PROVE NoStrandedUrb'
  BY <1>21, UrbrFacts, ReqFacts, CompleteEffect DEF ReqReadCancelled
<1>22. CASE ReadStore
  BY <1>22, UrbrFacts, ReqFacts DEF ReadStore
<1>23. CASE ReadStorePartial
  BY <1>23, UrbrFacts, ReqFacts DEF ReadStorePartial
<1>24. CASE ReadStored
  BY <1>24, UrbrFacts, ReqFacts, CompleteEffect DEF ReadStored, ReadLeave
<1>25. CASE ReadFailed
  <2>1. hc_urbr \in Urbr /\ Reading
    BY <1>25 DEF ReadFailed, HcHolds, Reading
  <2>2. UnmarkCancelable(hc_urbr)
    BY <1>25 DEF ReadFailed
  <2>3. \A u \in Urb : mark[u] = "taken" => mark'[u] = "taken"
    BY <2>1, <2>2, UnmarkEffect, ReqFacts
  <2>4. \A u \in Urb : /\ req'[u] = "owned" => req[u] = "owned"
                       /\ req'[u] = "owned" /\ hc_urbr = SubmitOf(u) => mark[u] = "taken"
    <3>1. CASE Unmarks(hc_urbr)
      BY <1>25, <2>1, <3>1, CompleteEffect, ReqOfFact, ReqFacts DEF ReadFailed
    <3>2. CASE ~Unmarks(hc_urbr)
      BY <1>25, <2>1, <3>2, CompleteEffect, UrbrFacts, ReqFacts
      DEF ReadFailed, Unmarks, IsUrb
    <3> QED  BY <3>1, <3>2
  <2>5. urbr_sent_partial \in {hc_urbr, NoUrbr}
    BY <2>1 DEF StrandInv, OneStored
  <2>6. /\ head_urbr' = head_urbr \ {hc_urbr}
        /\ UNCHANGED <<sub, can, head_urbr_pending, head_urbr_sent>>
    BY <1>25 DEF ReadFailed, submitters
  <2> QED  BY <2>1, <2>3, <2>4, <2>5, <2>6, UrbrFacts
           DEF StrandInv, NoStrandedUrb, MarkedLate
<1>26. CASE WriteDone
  BY <1>26, UrbrFacts, ReqFacts, UnmarkEffect, CompleteEffect, ReqOfFact
  DEF WriteDone, Unmarks
<1>27. CASE AbortRead
  BY <1>27, UrbrFacts, ReqFacts DEF AbortRead
<1>28. CASE AbortReadDone
  BY <1>28, AbortEffect, UrbrFacts
<1>29. CASE AbortUrbr
  <2>1. PICK w \in head_urbr :
          /\ Unlist(w) /\ UnmarkCancelable(w)
          /\ IF Unmarks(w) THEN CompleteAll(ReqOf(w)) /\ Free(w)
                           ELSE UNCHANGED <<req, mem>>
    BY <1>29 DEF AbortUrbr
  <2>2. w \in Urbr
    BY DEF TypeOK
  <2>3. \A u \in Urb : mark[u] = "taken" => mark'[u] = "taken"
    BY <2>1, <2>2, UnmarkEffect, ReqFacts
  <2>4. \A u \in Urb : /\ req'[u] = "owned" => req[u] = "owned"
                       /\ req'[u] = "owned" /\ w = SubmitOf(u) => mark[u] = "taken"
    <3>1. CASE Unmarks(w)
      BY <2>1, <2>2, <3>1, CompleteEffect, ReqOfFact, ReqFacts
    <3>2. CASE ~Unmarks(w)
      BY <2>1, <2>2, <3>2, UrbrFacts DEF Unmarks, IsUrb
    <3> QED  BY <3>1, <3>2
  <2>5. /\ head_urbr' = head_urbr \ {w} /\ head_urbr_pending' = head_urbr_pending \ {w}
        /\ head_urbr_sent' = head_urbr_sent \ {w}
    BY <2>1 DEF Unlist
  <2>6. UNCHANGED <<sub, can, urbr_sent_partial, hc_urbr>>
    BY <1>29 DEF AbortUrbr, submitters, controller
  <2> QED  BY <2>3, <2>4, <2>5, <2>6, UrbrFacts
           DEF StrandInv, NoStrandedUrb, MarkedLate
<1>30. CASE AbortDone
  BY <1>30, UrbrFacts, ReqFacts DEF AbortDone
<1>31. CASE PlugOut
  BY <1>31, UrbrFacts, ReqFacts DEF PlugOut
<1>32. CASE UNCHANGED vars
  BY <1>32, UrbrFacts, ReqFacts DEF vars
<1> QED  BY <1>1, <1>2, <1>3, <1>4, <1>5, <1>6, <1>7, <1>8, <1>9, <1>10,
            <1>11, <1>12, <1>13, <1>14, <1>15, <1>16, <1>17, <1>18, <1>19, <1>20, <1>21,
            <1>22, <1>23, <1>24, <1>25, <1>26, <1>27, <1>28, <1>29, <1>30, <1>31, <1>32
            DEF Next, Submit, Read, Callback

LEMMA StrandInit == Init => TypeInv /\ StrandInv
<1> SUFFICES ASSUME Init
             PROVE  TypeInv /\ StrandInv
  OBVIOUS
<1>1. /\ kind \in [Urb -> AllKinds]
      /\ may \subseteq Req \cup {"plugout"}
  BY ConstantsAssumption DEF Init, Req
<1>2. TypeInv
  BY <1>1 DEF Init, TypeInv, TypeOK, HcHolds, Reading
<1>3. StrandInv
  BY UrbrFacts, ReqFacts
  DEF Init, StrandInv, MarkedLate, OneStored, NoStrandedUrb, Storing, Reading
<1> QED  BY <1>2, <1>3

\* Together: the inductive invariant of every behaviour.
LEMMA StrandInvariant == Spec => [](TypeInv /\ StrandInv)
<1>1. TypeInv /\ StrandInv /\ [Next]_vars => TypeInv' /\ StrandInv'
  <2> SUFFICES ASSUME TypeInv, StrandInv, [Next]_vars
               PROVE  TypeInv' /\ StrandInv'
    OBVIOUS
  <2>1. TypeInv'
    BY TypeStep
  <2>2. MarkedLate' /\ OneStored' /\ NoStrandedUrb'
    BY MarkedStep, StoredStep, StrandedStep
  <2> QED  BY <2>1, <2>2 DEF StrandInv
<1> QED  BY <1>1, StrandInit, PTL DEF Spec

\* Every variable keeps its type: no list, callback or number of the driver
\* takes a value that the code does not give it.
THEOREM UdeTypeCorrect == Spec => []TypeOK
<1>1. TypeInv /\ StrandInv => TypeOK
  BY DEF TypeInv
<1> QED  BY <1>1, StrandInvariant, PTL

\* No request is stranded, whatever is cancelled and whenever the device is
\* plugged out: a request that internal_device_control has accepted is with
\* submit_urbr, with its cancellation or with a callback of the controller's
\* queue, or it is in head_urbr and where the forwarder or its answer finds it.
THEOREM NobodyStranded == Spec => []NoStrandedUrb
<1>1. TypeInv /\ StrandInv => NoStrandedUrb
  BY DEF StrandInv
<1> QED  BY <1>1, StrandInvariant, PTL
-----------------------------------------------------------------------------
(* Order and the service, when nobody cancels an OUT transfer.              *)

\* A urb_req is where the steps of its transfer have put it.
LEMMA PlacedStep == TypeInv /\ StrandInv /\ OutInv /\ [Next]_vars => Placed'
<1> SUFFICES ASSUME TypeInv, StrandInv, OutInv, [Next]_vars
             PROVE  Placed'
  OBVIOUS
<1> USE DEF vusb, lists, urbrs, reqs, submitters, controller, forwarder,
    TypeInv, TypeOK, HcHolds, OutInv, StrandInv, MarkedLate, OneStored, Placed,
    Storing, Reading
<1>1. ASSUME NEW u \in Urb, InternalDeviceControl(u) PROVE Placed'
  BY <1>1, UrbrFacts, ReqFacts DEF InternalDeviceControl
<1>2. ASSUME NEW u \in Urb, EpConfigure(u) PROVE Placed'
  BY <1>2, UrbrFacts, ReqFacts DEF EpConfigure
<1>3. ASSUME NEW u \in Urb, CancelUrb(u) PROVE Placed'
  BY <1>3, UrbrFacts, ReqFacts DEF CancelUrb
<1>4. ASSUME NEW u \in Urb, UrbrCancelled(u) PROVE Placed'
  BY <1>4, CancelEffect, UrbrFacts DEF OwnOnce
<1>5. ASSUME NEW u \in Urb, UrbrCancelledDone(u) PROVE Placed'
  BY <1>5, UrbrFacts, ReqFacts, CompleteEffect DEF UrbrCancelledDone
<1>6. ASSUME NEW w \in Urbr, SubmitInvalid(w) PROVE Placed'
  BY <1>6, UrbrFacts, ReqFacts, CompleteEffect, ReqOfFact DEF SubmitInvalid, GiveUp
<1>7. ASSUME NEW w \in Urbr, SubmitPending(w) PROVE Placed'
  BY <1>7, UrbrFacts, ReqFacts, MarkEffect
  DEF SubmitPending, NoReadFor, Enlist, Arrive
<1>8. ASSUME NEW w \in Urbr, SubmitCancelled(w) PROVE Placed'
  BY <1>8, UrbrFacts, ReqFacts, CompleteEffect, ReqOfFact
  DEF SubmitCancelled, GiveUp
<1>9. ASSUME NEW w \in Urbr, SubmitDirect(w) PROVE Placed'
  BY <1>9, UrbrFacts, ReqFacts DEF SubmitDirect, NoReadFor, NextSeqnum, Arrive
<1>10. ASSUME NEW w \in Urbr, SubmitStore(w) PROVE Placed'
  BY <1>10, UrbrFacts, ReqFacts
  DEF SubmitStore, StoreResult, LenStored, StoredHdrOnly, Lens
<1>11. ASSUME NEW w \in Urbr, SubmitStored(w) PROVE Placed'
  BY <1>11, UrbrFacts, ReqFacts, MarkEffect DEF SubmitStored, Enlist
<1>12. ASSUME NEW w \in Urbr, SubmitStoredCancelled(w) PROVE Placed'
  BY <1>12, UrbrFacts, ReqFacts, CompleteEffect, ReqOfFact
  DEF SubmitStoredCancelled, GiveUp
<1>13. ASSUME NEW w \in Urbr, SubmitFinish(w) PROVE Placed'
  BY SMTT(30), <1>13, FinishEffect, UrbrFacts
<1>14. ASSUME NEW w \in Urbr, SubmitFailed(w) PROVE Placed'
  BY <1>14, UrbrFacts, ReqFacts, CompleteEffect, ReqOfFact DEF SubmitFailed
<1>15. ASSUME NEW w \in Urbr, IoWrite(w) PROVE Placed'
  <2>1. \/ /\ UNCHANGED <<lists, mem, sub, hc, hc_urbr>>
        \/ \E x \in head_urbr_sent :
             /\ Unlist(x) /\ hc' = "fetched" /\ hc_urbr' = x
             /\ \/ UNCHANGED sub
                \/ IsUrb(x) /\ sub' = [sub EXCEPT ![ResetOf(x[1])] = "enter"]
    BY <1>15 DEF IoWrite
  <2>2. /\ hc = "idle"
        /\ UNCHANGED <<urbr_sent_partial, seq, at, arrivals, can, sub_read>>
    BY <1>15 DEF IoWrite
  <2>3. CASE UNCHANGED <<lists, mem, sub, hc, hc_urbr>>
    BY <2>2, <2>3 DEF lists, OutInv, Placed, OwnOnce, Storing, Reading
  <2>4. ASSUME NEW x \in head_urbr_sent, Unlist(x), hc' = "fetched", hc_urbr' = x,
               UNCHANGED sub
        PROVE  Placed'
    BY <2>2, <2>4
    DEF Unlist, TypeOK, StrandInv, OneStored, OutInv, Placed, OwnOnce, Storing,
        Reading
  <2>5. ASSUME NEW x \in head_urbr_sent, Unlist(x), hc' = "fetched", hc_urbr' = x,
               IsUrb(x), sub' = [sub EXCEPT ![ResetOf(x[1])] = "enter"]
        PROVE  Placed'
    <3>1. PICK v \in Urb : v = x[1] /\ x = SubmitOf(v)
      BY <2>5, UrbrFacts DEF TypeOK, IsUrb
    <3>2. sub[ResetOf(v)] = "idle" /\ ResetOf(v) \in Urbr
      BY <3>1, UrbrFacts DEF OutInv, OwnOnce
    <3>3. /\ sub'[ResetOf(v)] = "enter"
          /\ \A y \in Urbr : y # ResetOf(v) => sub'[y] = sub[y]
      BY <2>5, <3>1, <3>2 DEF TypeOK
    <3>4. sub[x] \in {"finish", "done"} /\ urbr_sent_partial # x
      BY <3>1, UrbrFacts DEF OutInv, Placed, StrandInv, OneStored, Storing, TypeOK
    <3> QED  BY <2>2, <2>5, <3>1, <3>2, <3>3, <3>4, UrbrFacts
             DEF Unlist, TypeOK, OutInv, Placed, OwnOnce, Storing, Reading
  <2> QED  BY <2>1, <2>3, <2>4, <2>5
<1>16. ASSUME NEW r \in Reads, ReadPartial(r) PROVE Placed'
  BY <1>16, UrbrFacts, ReqFacts, UnmarkEffect DEF ReadPartial, IoRead
<1>17. ASSUME NEW r \in Reads, ReadPended(r) PROVE Placed'
  BY <1>17, UrbrFacts, ReqFacts DEF ReadPended, IoRead, Unmarks
<1>18. ASSUME NEW r \in Reads, ReadTake(r) PROVE Placed'
  BY <1>18, UrbrFacts, ReqFacts, UnmarkEffect
  DEF ReadTake, IoRead, PartialDropped, Unmarks, NextSeqnum
<1>19. ASSUME NEW r \in Reads, ReadRefused(r) PROVE Placed'
  BY <1>19, UrbrFacts, ReqFacts DEF ReadRefused
<1>20. ASSUME NEW r \in Reads, CancelRead(r) PROVE Placed'
  BY <1>20, UrbrFacts, ReqFacts DEF CancelRead
<1>21. ASSUME NEW r \in Reads, ReqReadCancelled(r) PROVE Placed'
  BY <1>21, UrbrFacts, ReqFacts, CompleteEffect DEF ReqReadCancelled
<1>22. CASE ReadStore
  BY <1>22, UrbrFacts, ReqFacts
  DEF ReadStore, StoreResult, LenStored, StoredHdrOnly, Lens
<1>23. CASE ReadStorePartial
  BY <1>23, UrbrFacts, ReqFacts DEF ReadStorePartial
<1>24. CASE ReadStored
  BY <1>24, UrbrFacts, ReqFacts, CompleteEffect DEF ReadStored, ReadLeave, Received
<1>25. CASE ReadFailed
  BY <1>25, UrbrFacts, ReqFacts, UnmarkEffect, CompleteEffect, ReqOfFact
  DEF ReadFailed, ReadLeave, Unmarks
<1>26. CASE WriteDone
  BY <1>26, UrbrFacts, ReqFacts, UnmarkEffect, CompleteEffect, ReqOfFact
  DEF WriteDone, Unmarks
<1>27. CASE AbortRead
  BY <1>27, UrbrFacts, ReqFacts DEF AbortRead
<1>28. CASE AbortReadDone
  BY <1>28, AbortEffect, UrbrFacts
<1>29. CASE AbortUrbr
  BY <1>29, UrbrFacts, ReqFacts, UnmarkEffect, CompleteEffect, ReqOfFact
  DEF AbortUrbr, Unlist, Unmarks
<1>30. CASE AbortDone
  BY <1>30, UrbrFacts, ReqFacts DEF AbortDone
<1>31. CASE PlugOut
  BY <1>31, UrbrFacts, ReqFacts DEF PlugOut
<1>32. CASE UNCHANGED vars
  BY <1>32, UrbrFacts, ReqFacts DEF vars
<1> QED  BY <1>1, <1>2, <1>3, <1>4, <1>5, <1>6, <1>7, <1>8, <1>9, <1>10,
            <1>11, <1>12, <1>13, <1>14, <1>15, <1>16, <1>17, <1>18, <1>19, <1>20, <1>21,
            <1>22, <1>23, <1>24, <1>25, <1>26, <1>27, <1>28, <1>29, <1>30, <1>31, <1>32
            DEF Next, Submit, Read, Callback

\* The driver's own commands are submitted once.
LEMMA OwnOnceStep == TypeInv /\ StrandInv /\ OutInv /\ [Next]_vars => OwnOnce'
<1> SUFFICES ASSUME TypeInv, StrandInv, OutInv, [Next]_vars
             PROVE  OwnOnce'
  OBVIOUS
<1> USE DEF vusb, lists, urbrs, reqs, submitters, controller, forwarder,
    TypeInv, TypeOK, HcHolds, OutInv, StrandInv, MarkedLate, OneStored, Placed,
    Storing, Reading, OwnOnce, InSubmit
<1>1. ASSUME NEW u \in Urb, InternalDeviceControl(u) PROVE OwnOnce'
  BY <1>1, UrbrFacts, ReqFacts DEF InternalDeviceControl
<1>2. ASSUME NEW u \in Urb, EpConfigure(u) PROVE OwnOnce'
  BY SMTT(30), <1>2, UrbrFacts, ReqFacts DEF EpConfigure
<1>3. ASSUME NEW u \in Urb, CancelUrb(u) PROVE OwnOnce'
  BY <1>3, UrbrFacts, ReqFacts DEF CancelUrb
<1>4. ASSUME NEW u \in Urb, UrbrCancelled(u) PROVE OwnOnce'
  BY <1>4, CancelEffect, UrbrFacts
<1>5. ASSUME NEW u \in Urb, UrbrCancelledDone(u) PROVE OwnOnce'
  BY <1>5, UrbrFacts, ReqFacts, CompleteEffect DEF UrbrCancelledDone
<1>6. ASSUME NEW w \in Urbr, SubmitInvalid(w) PROVE OwnOnce'
  BY <1>6, UrbrFacts, ReqFacts, CompleteEffect, ReqOfFact DEF SubmitInvalid, GiveUp
<1>7. ASSUME NEW w \in Urbr, SubmitPending(w) PROVE OwnOnce'
  BY <1>7, UrbrFacts, ReqFacts, MarkEffect
  DEF SubmitPending, NoReadFor, Enlist, Arrive
<1>8. ASSUME NEW w \in Urbr, SubmitCancelled(w) PROVE OwnOnce'
  BY <1>8, UrbrFacts, ReqFacts, CompleteEffect, ReqOfFact
  DEF SubmitCancelled, GiveUp
<1>9. ASSUME NEW w \in Urbr, SubmitDirect(w) PROVE OwnOnce'
  BY <1>9, UrbrFacts, ReqFacts DEF SubmitDirect, NoReadFor, NextSeqnum, Arrive
<1>10. ASSUME NEW w \in Urbr, SubmitStore(w) PROVE OwnOnce'
  BY <1>10, UrbrFacts, ReqFacts
  DEF SubmitStore, StoreResult, LenStored, StoredHdrOnly, Lens
<1>11. ASSUME NEW w \in Urbr, SubmitStored(w) PROVE OwnOnce'
  BY <1>11, UrbrFacts, ReqFacts, MarkEffect DEF SubmitStored, Enlist
<1>12. ASSUME NEW w \in Urbr, SubmitStoredCancelled(w) PROVE OwnOnce'
  BY <1>12, UrbrFacts, ReqFacts, CompleteEffect, ReqOfFact
  DEF SubmitStoredCancelled, GiveUp
<1>13. ASSUME NEW w \in Urbr, SubmitFinish(w) PROVE OwnOnce'
  BY <1>13, FinishEffect, UrbrFacts
<1>14. ASSUME NEW w \in Urbr, SubmitFailed(w) PROVE OwnOnce'
  BY <1>14, UrbrFacts, ReqFacts, CompleteEffect, ReqOfFact DEF SubmitFailed
<1>15. ASSUME NEW w \in Urbr, IoWrite(w) PROVE OwnOnce'
  <2>1. \/ /\ UNCHANGED <<lists, mem, sub, hc, hc_urbr>>
        \/ \E x \in head_urbr_sent :
             /\ Unlist(x) /\ hc' = "fetched" /\ hc_urbr' = x
             /\ \/ UNCHANGED sub
                \/ IsUrb(x) /\ sub' = [sub EXCEPT ![ResetOf(x[1])] = "enter"]
    BY <1>15 DEF IoWrite
  <2>2. /\ hc = "idle"
        /\ UNCHANGED <<urbr_sent_partial, seq, at, arrivals, can, sub_read>>
    BY <1>15 DEF IoWrite
  <2>3. CASE UNCHANGED <<lists, mem, sub, hc, hc_urbr>>
    BY <2>2, <2>3 DEF lists, OutInv, Placed, OwnOnce, Storing, Reading
  <2>4. ASSUME NEW x \in head_urbr_sent, Unlist(x), hc' = "fetched", hc_urbr' = x,
               UNCHANGED sub
        PROVE  OwnOnce'
    BY <2>2, <2>4
    DEF Unlist, TypeOK, StrandInv, OneStored, OutInv, Placed, OwnOnce, Storing,
        Reading
  <2>5. ASSUME NEW x \in head_urbr_sent, Unlist(x), hc' = "fetched", hc_urbr' = x,
               IsUrb(x), sub' = [sub EXCEPT ![ResetOf(x[1])] = "enter"]
        PROVE  OwnOnce'
    <3>1. PICK v \in Urb : v = x[1] /\ x = SubmitOf(v)
      BY <2>5, UrbrFacts DEF TypeOK, IsUrb
    <3>2. sub[ResetOf(v)] = "idle" /\ ResetOf(v) \in Urbr
      BY <3>1, UrbrFacts DEF OutInv, OwnOnce
    <3>3. /\ sub'[ResetOf(v)] = "enter"
          /\ \A y \in Urbr : y # ResetOf(v) => sub'[y] = sub[y]
      BY <2>5, <3>1, <3>2 DEF TypeOK
    <3>4. sub[x] \in {"finish", "done"} /\ urbr_sent_partial # x
      BY <3>1, UrbrFacts DEF OutInv, Placed, StrandInv, OneStored, Storing, TypeOK
    <3> QED  BY <2>2, <2>5, <3>1, <3>2, <3>3, <3>4, UrbrFacts
             DEF Unlist, TypeOK, OutInv, Placed, OwnOnce, Storing, Reading
  <2> QED  BY <2>1, <2>3, <2>4, <2>5
<1>16. ASSUME NEW r \in Reads, ReadPartial(r) PROVE OwnOnce'
  BY <1>16, UrbrFacts, ReqFacts, UnmarkEffect DEF ReadPartial, IoRead
<1>17. ASSUME NEW r \in Reads, ReadPended(r) PROVE OwnOnce'
  BY <1>17, UrbrFacts, ReqFacts DEF ReadPended, IoRead, Unmarks
<1>18. ASSUME NEW r \in Reads, ReadTake(r) PROVE OwnOnce'
  BY <1>18, UrbrFacts, ReqFacts, UnmarkEffect
  DEF ReadTake, IoRead, PartialDropped, Unmarks, NextSeqnum
<1>19. ASSUME NEW r \in Reads, ReadRefused(r) PROVE OwnOnce'
  BY <1>19, UrbrFacts, ReqFacts DEF ReadRefused
<1>20. ASSUME NEW r \in Reads, CancelRead(r) PROVE OwnOnce'
  BY <1>20, UrbrFacts, ReqFacts DEF CancelRead
<1>21. ASSUME NEW r \in Reads, ReqReadCancelled(r) PROVE OwnOnce'
  BY <1>21, UrbrFacts, ReqFacts, CompleteEffect DEF ReqReadCancelled
<1>22. CASE ReadStore
  BY <1>22, UrbrFacts, ReqFacts
  DEF ReadStore, StoreResult, LenStored, StoredHdrOnly, Lens
<1>23. CASE ReadStorePartial
  BY <1>23, UrbrFacts, ReqFacts DEF ReadStorePartial
<1>24. CASE ReadStored
  BY <1>24, UrbrFacts, ReqFacts, CompleteEffect DEF ReadStored, ReadLeave, Received
<1>25. CASE ReadFailed
  BY <1>25, UrbrFacts, ReqFacts, UnmarkEffect, CompleteEffect, ReqOfFact
  DEF ReadFailed, ReadLeave, Unmarks
<1>26. CASE WriteDone
  BY <1>26, UrbrFacts, ReqFacts, UnmarkEffect, CompleteEffect, ReqOfFact
  DEF WriteDone, Unmarks
<1>27. CASE AbortRead
  BY <1>27, UrbrFacts, ReqFacts DEF AbortRead
<1>28. CASE AbortReadDone
  BY <1>28, AbortEffect, UrbrFacts
<1>29. CASE AbortUrbr
  BY <1>29, UrbrFacts, ReqFacts, UnmarkEffect, CompleteEffect, ReqOfFact
  DEF AbortUrbr, Unlist, Unmarks
<1>30. CASE AbortDone
  BY <1>30, UrbrFacts, ReqFacts DEF AbortDone
<1>31. CASE PlugOut
  BY <1>31, UrbrFacts, ReqFacts DEF PlugOut
<1>32. CASE UNCHANGED vars
  BY <1>32, UrbrFacts, ReqFacts DEF vars
<1> QED  BY <1>1, <1>2, <1>3, <1>4, <1>5, <1>6, <1>7, <1>8, <1>9, <1>10,
            <1>11, <1>12, <1>13, <1>14, <1>15, <1>16, <1>17, <1>18, <1>19, <1>20, <1>21,
            <1>22, <1>23, <1>24, <1>25, <1>26, <1>27, <1>28, <1>29, <1>30, <1>31, <1>32
            DEF Next, Submit, Read, Callback

\* Only what may be cancelled is, and only what is marked.
LEMMA MarksStep == TypeInv /\ StrandInv /\ OutInv /\ [Next]_vars => Marks'
<1> SUFFICES ASSUME TypeInv, StrandInv, OutInv, [Next]_vars
             PROVE  Marks'
  OBVIOUS
<1> USE DEF vusb, lists, urbrs, reqs, submitters, controller, forwarder,
    TypeInv, TypeOK, HcHolds, OutInv, StrandInv, MarkedLate, OneStored, Storing,
    Reading, Marks, IsUrb, MarkFails
<1>1. ASSUME NEW u \in Urb, InternalDeviceControl(u) PROVE Marks'
  BY <1>1, UrbrFacts, ReqFacts DEF InternalDeviceControl
<1>2. ASSUME NEW u \in Urb, EpConfigure(u) PROVE Marks'
  BY <1>2, UrbrFacts, ReqFacts DEF EpConfigure
<1>3. ASSUME NEW u \in Urb, CancelUrb(u) PROVE Marks'
  BY <1>3, UrbrFacts, ReqFacts DEF CancelUrb
<1>4. ASSUME NEW u \in Urb, UrbrCancelled(u) PROVE Marks'
  BY <1>4, CancelEffect, UrbrFacts
<1>5. ASSUME NEW u \in Urb, UrbrCancelledDone(u) PROVE Marks'
  BY <1>5, UrbrFacts, ReqFacts, CompleteEffect DEF UrbrCancelledDone
<1>6. ASSUME NEW w \in Urbr, SubmitInvalid(w) PROVE Marks'
  BY <1>6, UrbrFacts, ReqFacts, CompleteEffect, ReqOfFact DEF SubmitInvalid, GiveUp
<1>7. ASSUME NEW w \in Urbr, SubmitPending(w) PROVE Marks'
  BY SMTT(30), <1>7, UrbrFacts, ReqFacts, MarkEffect
  DEF SubmitPending, NoReadFor, Enlist, Arrive
<1>8. ASSUME NEW w \in Urbr, SubmitCancelled(w) PROVE Marks'
  BY <1>8, UrbrFacts, ReqFacts, CompleteEffect, ReqOfFact
  DEF SubmitCancelled, GiveUp
<1>9. ASSUME NEW w \in Urbr, SubmitDirect(w) PROVE Marks'
  BY <1>9, UrbrFacts, ReqFacts DEF SubmitDirect, NoReadFor, NextSeqnum, Arrive
<1>10. ASSUME NEW w \in Urbr, SubmitStore(w) PROVE Marks'
  BY <1>10, UrbrFacts, ReqFacts
  DEF SubmitStore, StoreResult, LenStored, StoredHdrOnly, Lens
<1>11. ASSUME NEW w \in Urbr, SubmitStored(w) PROVE Marks'
  <2>1. /\ MarkCancelable(w)
        /\ UNCHANGED <<kind, may, cancelled, fwd>>
    BY <1>11 DEF SubmitStored, forwarder
  <2>2. \A p \in Reads : mark'[p] = mark[p]
    BY <2>1, MarkEffect, UrbrFacts, ReqFacts
  <2>3. CASE ~IsUrb(w)
    BY <2>1, <2>3, MarkEffect DEF OutInv, Marks
  <2>4. CASE IsUrb(w)
    <3>1. PICK v \in Urb : v = w[1] /\ kind[v] # "select"
      BY <2>4, UrbrFacts DEF IsUrb
    <3>2. mark'[v] = "yes" /\ cancelable'[v]
      BY <2>1, <2>4, <3>1, MarkEffect
    <3>3. \A x \in Urb : x # v => mark'[x] = mark[x]
      BY <2>1, <3>1, MarkEffect, ReqFacts
    <3>4. \A x \in Urb : x # v => cancelable'[x] = cancelable[x]
      BY <2>1, <3>1, MarkEffect
    <3>5. ASSUME NEW x \in Urb
          PROVE  /\ cancelled'[x] => x \in may'
                 /\ mark'[x] = "taken" => cancelled'[x]
                 /\ mark'[x] = "yes" => cancelable'[x]
                 /\ mark'[x] # "no" => kind'[x] # "select"
      BY <2>1, <3>1, <3>2, <3>3, <3>4 DEF OutInv, Marks
    <3> QED  BY <2>1, <2>2, <3>5 DEF OutInv, Marks
  <2> QED  BY <2>3, <2>4
<1>12. ASSUME NEW w \in Urbr, SubmitStoredCancelled(w) PROVE Marks'
  BY <1>12, UrbrFacts, ReqFacts, CompleteEffect, ReqOfFact
  DEF SubmitStoredCancelled, GiveUp
<1>13. ASSUME NEW w \in Urbr, SubmitFinish(w) PROVE Marks'
  <2>1. \A v \in Urb : mark'[v] = mark[v]
    BY <1>13, FinishEffect
  <2>2. \A p \in Reads : mark'[p] = "taken" => mark[p] = "taken"
    BY <1>13, FinishEffect
  <2>3. UNCHANGED <<kind, may, cancelable, cancelled, fwd>>
    BY <1>13, FinishEffect
  <2> QED  BY <2>1, <2>2, <2>3
<1>14. ASSUME NEW w \in Urbr, SubmitFailed(w) PROVE Marks'
  BY <1>14, UrbrFacts, ReqFacts, CompleteEffect, ReqOfFact DEF SubmitFailed
<1>15. ASSUME NEW w \in Urbr, IoWrite(w) PROVE Marks'
  BY <1>15, UrbrFacts, ReqFacts DEF IoWrite, Unlist
<1>16. ASSUME NEW r \in Reads, ReadPartial(r) PROVE Marks'
  BY <1>16, UrbrFacts, ReqFacts, UnmarkEffect DEF ReadPartial, IoRead
<1>17. ASSUME NEW r \in Reads, ReadPended(r) PROVE Marks'
  BY <1>17, UrbrFacts, ReqFacts DEF ReadPended, IoRead, Unmarks
<1>18. ASSUME NEW r \in Reads, ReadTake(r) PROVE Marks'
  BY <1>18, UrbrFacts, ReqFacts, UnmarkEffect
  DEF ReadTake, IoRead, PartialDropped, Unmarks, NextSeqnum
<1>19. ASSUME NEW r \in Reads, ReadRefused(r) PROVE Marks'
  BY <1>19, UrbrFacts, ReqFacts DEF ReadRefused
<1>20. ASSUME NEW r \in Reads, CancelRead(r) PROVE Marks'
  BY <1>20, UrbrFacts, ReqFacts DEF CancelRead
<1>21. ASSUME NEW r \in Reads, ReqReadCancelled(r) PROVE Marks'
  BY <1>21, UrbrFacts, ReqFacts, CompleteEffect DEF ReqReadCancelled
<1>22. CASE ReadStore
  BY <1>22, UrbrFacts, ReqFacts
  DEF ReadStore, StoreResult, LenStored, StoredHdrOnly, Lens
<1>23. CASE ReadStorePartial
  BY <1>23, UrbrFacts, ReqFacts DEF ReadStorePartial
<1>24. CASE ReadStored
  BY <1>24, UrbrFacts, ReqFacts, CompleteEffect DEF ReadStored, ReadLeave, Received
<1>25. CASE ReadFailed
  BY SMTT(30), <1>25, UrbrFacts, ReqFacts, UnmarkEffect, CompleteEffect, ReqOfFact
  DEF ReadFailed, ReadLeave, Unmarks
<1>26. CASE WriteDone
  BY <1>26, UrbrFacts, ReqFacts, UnmarkEffect, CompleteEffect, ReqOfFact
  DEF WriteDone, Unmarks
<1>27. CASE AbortRead
  BY <1>27, UrbrFacts, ReqFacts DEF AbortRead
<1>28. CASE AbortReadDone
  BY <1>28, AbortEffect, UrbrFacts
<1>29. CASE AbortUrbr
  BY <1>29, UrbrFacts, ReqFacts, UnmarkEffect, CompleteEffect, ReqOfFact
  DEF AbortUrbr, Unlist, Unmarks
<1>30. CASE AbortDone
  BY <1>30, UrbrFacts, ReqFacts DEF AbortDone
<1>31. CASE PlugOut
  BY <1>31, UrbrFacts, ReqFacts DEF PlugOut
<1>32. CASE UNCHANGED vars
  BY SMTT(30), <1>32, UrbrFacts, ReqFacts DEF vars
<1> QED  BY <1>1, <1>2, <1>3, <1>4, <1>5, <1>6, <1>7, <1>8, <1>9, <1>10,
            <1>11, <1>12, <1>13, <1>14, <1>15, <1>16, <1>17, <1>18, <1>19, <1>20, <1>21,
            <1>22, <1>23, <1>24, <1>25, <1>26, <1>27, <1>28, <1>29, <1>30, <1>31, <1>32
            DEF Next, Submit, Read, Callback

\* The forwarder expects the payload that is to be read next.
LEMMA ExpectedStep == TypeInv /\ StrandInv /\ OutInv /\ [Next]_vars => Expected'
<1> SUFFICES ASSUME TypeInv, StrandInv, OutInv, [Next]_vars
             PROVE  Expected'
  OBVIOUS
<1> USE DEF vusb, lists, urbrs, reqs, submitters, controller, forwarder,
    TypeInv, TypeOK, HcHolds, OutInv, StrandInv, MarkedLate, OneStored, Storing,
    Reading, Marks, IsUrb, MarkFails, NoCancelledOut, Expected, Placed, IsOut,
    NoStrandedUrb
<1>1. ASSUME NEW u \in Urb, InternalDeviceControl(u) PROVE Expected'
  BY <1>1, UrbrFacts, ReqFacts DEF InternalDeviceControl
<1>2. ASSUME NEW u \in Urb, EpConfigure(u) PROVE Expected'
  BY <1>2, UrbrFacts, ReqFacts DEF EpConfigure
<1>3. ASSUME NEW u \in Urb, CancelUrb(u) PROVE Expected'
  BY <1>3, UrbrFacts, ReqFacts DEF CancelUrb
<1>4. ASSUME NEW u \in Urb, UrbrCancelled(u) PROVE Expected'
  BY <1>4, CancelEffect, UrbrFacts
<1>5. ASSUME NEW u \in Urb, UrbrCancelledDone(u) PROVE Expected'
  BY <1>5, UrbrFacts, ReqFacts, CompleteEffect DEF UrbrCancelledDone
<1>6. ASSUME NEW w \in Urbr, SubmitInvalid(w) PROVE Expected'
  BY <1>6, UrbrFacts, ReqFacts, CompleteEffect, ReqOfFact DEF SubmitInvalid, GiveUp
<1>7. ASSUME NEW w \in Urbr, SubmitPending(w) PROVE Expected'
  BY <1>7, UrbrFacts, ReqFacts, MarkEffect
  DEF SubmitPending, NoReadFor, Enlist, Arrive
<1>8. ASSUME NEW w \in Urbr, SubmitCancelled(w) PROVE Expected'
  BY <1>8, UrbrFacts, ReqFacts, CompleteEffect, ReqOfFact
  DEF SubmitCancelled, GiveUp
<1>9. ASSUME NEW w \in Urbr, SubmitDirect(w) PROVE Expected'
  BY <1>9, UrbrFacts, ReqFacts DEF SubmitDirect, NoReadFor, NextSeqnum, Arrive
<1>10. ASSUME NEW w \in Urbr, SubmitStore(w) PROVE Expected'
  BY <1>10, UrbrFacts, ReqFacts
  DEF SubmitStore, StoreResult, LenStored, StoredHdrOnly, Lens
<1>11. ASSUME NEW w \in Urbr, SubmitStored(w) PROVE Expected'
  BY <1>11, UrbrFacts, ReqFacts, MarkEffect DEF SubmitStored, Enlist
<1>12. ASSUME NEW w \in Urbr, SubmitStoredCancelled(w) PROVE Expected'
  BY <1>12, UrbrFacts, ReqFacts, CompleteEffect, ReqOfFact
  DEF SubmitStoredCancelled, GiveUp
<1>13. ASSUME NEW w \in Urbr, SubmitFinish(w) PROVE Expected'
  <2>1. \A x \in Urbr : (x # w => sub'[x] = sub[x]) /\ sub'[w] = "done"
    BY <1>13, FinishEffect
  <2>2. ASSUME urbr_sent_partial = w
        PROVE  IsOut(w) /\ hc # "storing" /\ \A x \in Urbr : ~Storing(x)
    BY <1>13, <2>2, FinishEffect, UrbrFacts
  <2>3. \A x \in Urbr : Storing(x) <=> Storing(x)'
    BY <1>13, <2>1, FinishEffect
  <2> QED  BY <1>13, <2>1, <2>2, <2>3, FinishEffect, UrbrFacts
<1>14. ASSUME NEW w \in Urbr, SubmitFailed(w) PROVE Expected'
  BY <1>14, UrbrFacts, ReqFacts, CompleteEffect, ReqOfFact DEF SubmitFailed
<1>15. ASSUME NEW w \in Urbr, IoWrite(w) PROVE Expected'
  BY <1>15, UrbrFacts, ReqFacts DEF IoWrite, Unlist
<1>16. ASSUME NEW r \in Reads, ReadPartial(r) PROVE Expected'
  BY <1>16, UrbrFacts, ReqFacts, UnmarkEffect DEF ReadPartial, IoRead
<1>17. ASSUME NEW r \in Reads, ReadPended(r) PROVE Expected'
  BY <1>17, UrbrFacts, ReqFacts DEF ReadPended, IoRead, Unmarks
<1>18. ASSUME NEW r \in Reads, ReadTake(r) PROVE Expected'
  BY <1>18, UrbrFacts, ReqFacts, UnmarkEffect
  DEF ReadTake, IoRead, PartialDropped, Unmarks, NextSeqnum
<1>19. ASSUME NEW r \in Reads, ReadRefused(r) PROVE Expected'
  BY <1>19, UrbrFacts, ReqFacts DEF ReadRefused
<1>20. ASSUME NEW r \in Reads, CancelRead(r) PROVE Expected'
  BY <1>20, UrbrFacts, ReqFacts DEF CancelRead
<1>21. ASSUME NEW r \in Reads, ReqReadCancelled(r) PROVE Expected'
  BY <1>21, UrbrFacts, ReqFacts, CompleteEffect DEF ReqReadCancelled
<1>22. CASE ReadStore
  <2>1. hc_urbr \in Urbr /\ Reading /\ hc = "storing"
    BY <1>22 DEF ReadStore, HcHolds, Reading
  <2>2. \A w \in Urbr : ~Storing(w)
    BY <2>1 DEF StrandInv, OneStored
  <2>3. expect = NoUrbr /\ len_sent_partial = 0
    BY <2>1 DEF OutInv, Expected
  <2>4. /\ hc_ok' = (StoreResult(hc_urbr, "hdr") = "ok")
        /\ len_sent_partial' = LenStored(hc_urbr, "hdr")
    BY <1>22, <2>3 DEF ReadStore, Lens
  <2>5. len_sent_partial' # 0 => IsOut(hc_urbr) /\ hc_ok'
    BY <2>3, <2>4 DEF LenStored, StoredHdrOnly, StoreResult, IsOut
  <2>6. IsOut(hc_urbr) => urbr_sent_partial = hc_urbr
    <3> SUFFICES ASSUME IsOut(hc_urbr), urbr_sent_partial # hc_urbr
                 PROVE  FALSE
      OBVIOUS
    <3>1. HasReq(hc_urbr) /\ can[hc_urbr[1]] # "idle"
      BY <2>1 DEF StrandInv, OneStored
    <3>2. hc_urbr[1] \in Urb /\ mark[hc_urbr[1]] = "taken"
      BY <2>1, <3>1, UrbrFacts DEF StrandInv, MarkedLate
    <3> QED  BY <3>2 DEF OutInv, Marks, NoCancelledOut, IsOut
  <2>7. /\ hc' = "stored"
        /\ UNCHANGED <<invalid, pending_req_read, urbr_sent_partial, lists, urbrs,
                       sub, expect, fwd>>
    BY <1>22 DEF ReadStore, submitters, forwarder
  <2>8. Reading'
    BY <2>7 DEF Reading
  <2> QED  BY <2>1, <2>2, <2>3, <2>5, <2>6, <2>7, <2>8, UrbrFacts
           DEF OutInv, Expected, IsOut, Storing, lists, urbrs
<1>23. CASE ReadStorePartial
  BY <1>23, UrbrFacts, ReqFacts DEF ReadStorePartial
<1>24. CASE ReadStored
  <2>1. hc_urbr \in Urbr /\ Reading /\ hc = "stored" /\ hc_ok
    BY <1>24 DEF ReadStored, HcHolds, Reading
  <2>2. \A w \in Urbr : ~Storing(w)
    BY <2>1 DEF StrandInv, OneStored
  <2>3. /\ UNCHANGED <<invalid, pending_req_read, len_sent_partial, head_urbr, urbrs,
                       sub, fwd>>
        /\ hc' = "idle" /\ hc_ok' = FALSE
    BY <1>24 DEF ReadStored, ReadLeave, Received, submitters
  <2>4. CASE len_sent_partial = 0
    <3>1. urbr_sent_partial' = NoUrbr /\ expect' = NoUrbr
      BY <1>24, <2>4 DEF ReadStored, Received
    <3> QED  BY <2>2, <2>3, <2>4, <3>1, UrbrFacts
             DEF OutInv, Expected, IsOut, Storing, urbrs
  <2>5. CASE len_sent_partial # 0
    <3>1. /\ urbr_sent_partial' = urbr_sent_partial
          /\ expect' \in {hc_urbr, NoUrbr}
      BY <1>24, <2>5 DEF ReadStored, Received
    <3>2. urbr_sent_partial = hc_urbr /\ IsOut(hc_urbr)
      BY <2>1, <2>5 DEF OutInv, Expected, StrandInv, OneStored
    <3>3. hc_urbr \in head_urbr
      <4>1. PICK v \in Urb : hc_urbr = SubmitOf(v) /\ kind[v] = "out"
        BY <2>1, <3>2, UrbrFacts DEF IsOut
      <4>2. mark[v] # "taken"
        BY <4>1 DEF OutInv, Marks, NoCancelledOut
      <4>3. req[v] = "owned"
        BY <2>1, <4>1, <4>2 DEF OutInv, Owned, Holds
      <4> QED  BY <2>1, <4>1, <4>2, <4>3 DEF StrandInv, OneStored, Cancelling
    <3> QED  BY <2>2, <2>3, <3>1, <3>2, <3>3, UrbrFacts
             DEF OutInv, Expected, IsOut, Storing, urbrs
  <2> QED  BY <2>4, <2>5
<1>25. CASE ReadFailed
  BY <1>25, UrbrFacts, ReqFacts, UnmarkEffect, CompleteEffect, ReqOfFact
  DEF ReadFailed, ReadLeave, Unmarks
<1>26. CASE WriteDone
  BY <1>26, UrbrFacts, ReqFacts, UnmarkEffect, CompleteEffect, ReqOfFact
  DEF WriteDone, Unmarks
<1>27. CASE AbortRead
  BY <1>27, UrbrFacts, ReqFacts DEF AbortRead
<1>28. CASE AbortReadDone
  BY <1>28, AbortEffect, UrbrFacts
<1>29. CASE AbortUrbr
  BY <1>29, UrbrFacts, ReqFacts, UnmarkEffect, CompleteEffect, ReqOfFact
  DEF AbortUrbr, Unlist, Unmarks
<1>30. CASE AbortDone
  BY <1>30, UrbrFacts, ReqFacts DEF AbortDone
<1>31. CASE PlugOut
  BY <1>31, UrbrFacts, ReqFacts DEF PlugOut
<1>32. CASE UNCHANGED vars
  BY <1>32, UrbrFacts, ReqFacts DEF vars
<1> QED  BY <1>1, <1>2, <1>3, <1>4, <1>5, <1>6, <1>7, <1>8, <1>9, <1>10,
            <1>11, <1>12, <1>13, <1>14, <1>15, <1>16, <1>17, <1>18, <1>19, <1>20, <1>21,
            <1>22, <1>23, <1>24, <1>25, <1>26, <1>27, <1>28, <1>29, <1>30, <1>31, <1>32
            DEF Next, Submit, Read, Callback

\* While a read waits there is nothing to send.
LEMMA ReadIdleStep == TypeInv /\ StrandInv /\ OutInv /\ [Next]_vars => ReadIdle'
<1> SUFFICES ASSUME TypeInv, StrandInv, OutInv, [Next]_vars
             PROVE  ReadIdle'
  OBVIOUS
<1> USE DEF vusb, lists, urbrs, reqs, submitters, controller, forwarder,
    TypeInv, TypeOK, HcHolds, OutInv, StrandInv, MarkedLate, OneStored, Storing,
    Reading, Marks, IsUrb, MarkFails, NoCancelledOut, Expected, Placed, IsOut,
    ReadIdle, Plain, NothingPending
<1>1. ASSUME NEW u \in Urb, InternalDeviceControl(u) PROVE ReadIdle'
  BY <1>1, UrbrFacts, ReqFacts DEF InternalDeviceControl
<1>2. ASSUME NEW u \in Urb, EpConfigure(u) PROVE ReadIdle'
  BY <1>2, UrbrFacts, ReqFacts DEF EpConfigure
<1>3. ASSUME NEW u \in Urb, CancelUrb(u) PROVE ReadIdle'
  BY <1>3, UrbrFacts, ReqFacts DEF CancelUrb
<1>4. ASSUME NEW u \in Urb, UrbrCancelled(u) PROVE ReadIdle'
  BY <1>4, CancelEffect, UrbrFacts
<1>5. ASSUME NEW u \in Urb, UrbrCancelledDone(u) PROVE ReadIdle'
  BY <1>5, UrbrFacts, ReqFacts, CompleteEffect DEF UrbrCancelledDone
<1>6. ASSUME NEW w \in Urbr, SubmitInvalid(w) PROVE ReadIdle'
  BY <1>6, UrbrFacts, ReqFacts, CompleteEffect, ReqOfFact DEF SubmitInvalid, GiveUp
<1>7. ASSUME NEW w \in Urbr, SubmitPending(w) PROVE ReadIdle'
  BY <1>7, UrbrFacts, ReqFacts, MarkEffect
  DEF SubmitPending, NoReadFor, Enlist, Arrive
<1>8. ASSUME NEW w \in Urbr, SubmitCancelled(w) PROVE ReadIdle'
  BY <1>8, UrbrFacts, ReqFacts, CompleteEffect, ReqOfFact
  DEF SubmitCancelled, GiveUp
<1>9. ASSUME NEW w \in Urbr, SubmitDirect(w) PROVE ReadIdle'
  BY <1>9, UrbrFacts, ReqFacts DEF SubmitDirect, NoReadFor, NextSeqnum, Arrive
<1>10. ASSUME NEW w \in Urbr, SubmitStore(w) PROVE ReadIdle'
  BY <1>10, UrbrFacts, ReqFacts
  DEF SubmitStore, StoreResult, LenStored, StoredHdrOnly, Lens
<1>11. ASSUME NEW w \in Urbr, SubmitStored(w) PROVE ReadIdle'
  BY <1>11, UrbrFacts, ReqFacts, MarkEffect DEF SubmitStored, Enlist
<1>12. ASSUME NEW w \in Urbr, SubmitStoredCancelled(w) PROVE ReadIdle'
  BY <1>12, UrbrFacts, ReqFacts, CompleteEffect, ReqOfFact
  DEF SubmitStoredCancelled, GiveUp
<1>13. ASSUME NEW w \in Urbr, SubmitFinish(w) PROVE ReadIdle'
  BY SMTT(30), <1>13, FinishEffect, UrbrFacts
<1>14. ASSUME NEW w \in Urbr, SubmitFailed(w) PROVE ReadIdle'
  <2>1. ~Plain
    <3>1. HasReq(w) /\ kind[w[1]] \in {"bad", "serial"}
      BY <1>14 DEF SubmitFailed, OutInv, Expected
    <3> QED  BY <3>1, UrbrFacts DEF Plain
  <2>2. urbr_sent_partial' = NoUrbr /\ kind' = kind
    BY <1>14 DEF SubmitFailed
  <2> QED  BY <2>1, <2>2, UrbrFacts DEF ReadIdle, Plain
<1>15. ASSUME NEW w \in Urbr, IoWrite(w) PROVE ReadIdle'
  BY <1>15, UrbrFacts, ReqFacts DEF IoWrite, Unlist
<1>16. ASSUME NEW r \in Reads, ReadPartial(r) PROVE ReadIdle'
  BY <1>16, UrbrFacts, ReqFacts, UnmarkEffect DEF ReadPartial, IoRead
<1>17. ASSUME NEW r \in Reads, ReadPended(r) PROVE ReadIdle'
  BY <1>17, UrbrFacts, ReqFacts DEF ReadPended, IoRead, Unmarks
<1>18. ASSUME NEW r \in Reads, ReadTake(r) PROVE ReadIdle'
  BY <1>18, UrbrFacts, ReqFacts, UnmarkEffect
  DEF ReadTake, IoRead, PartialDropped, Unmarks, NextSeqnum
<1>19. ASSUME NEW r \in Reads, ReadRefused(r) PROVE ReadIdle'
  BY <1>19, UrbrFacts, ReqFacts DEF ReadRefused
<1>20. ASSUME NEW r \in Reads, CancelRead(r) PROVE ReadIdle'
  BY <1>20, UrbrFacts, ReqFacts DEF CancelRead
<1>21. ASSUME NEW r \in Reads, ReqReadCancelled(r) PROVE ReadIdle'
  BY <1>21, UrbrFacts, ReqFacts, CompleteEffect DEF ReqReadCancelled
<1>22. CASE ReadStore
  BY <1>22, UrbrFacts, ReqFacts
  DEF ReadStore, StoreResult, LenStored, StoredHdrOnly, Lens
<1>23. CASE ReadStorePartial
  BY <1>23, UrbrFacts, ReqFacts DEF ReadStorePartial
<1>24. CASE ReadStored
  BY <1>24, UrbrFacts, ReqFacts, CompleteEffect DEF ReadStored, ReadLeave, Received
<1>25. CASE ReadFailed
  BY <1>25, UrbrFacts, ReqFacts, UnmarkEffect, CompleteEffect, ReqOfFact
  DEF ReadFailed, ReadLeave, Unmarks
<1>26. CASE WriteDone
  BY <1>26, UrbrFacts, ReqFacts, UnmarkEffect, CompleteEffect, ReqOfFact
  DEF WriteDone, Unmarks
<1>27. CASE AbortRead
  BY <1>27, UrbrFacts, ReqFacts DEF AbortRead
<1>28. CASE AbortReadDone
  BY <1>28, AbortEffect, UrbrFacts
<1>29. CASE AbortUrbr
  BY <1>29, UrbrFacts, ReqFacts, UnmarkEffect, CompleteEffect, ReqOfFact
  DEF AbortUrbr, Unlist, Unmarks
<1>30. CASE AbortDone
  BY <1>30, UrbrFacts, ReqFacts DEF AbortDone
<1>31. CASE PlugOut
  BY <1>31, UrbrFacts, ReqFacts DEF PlugOut
<1>32. CASE UNCHANGED vars
  BY <1>32, UrbrFacts, ReqFacts DEF vars
<1> QED  BY <1>1, <1>2, <1>3, <1>4, <1>5, <1>6, <1>7, <1>8, <1>9, <1>10,
            <1>11, <1>12, <1>13, <1>14, <1>15, <1>16, <1>17, <1>18, <1>19, <1>20, <1>21,
            <1>22, <1>23, <1>24, <1>25, <1>26, <1>27, <1>28, <1>29, <1>30, <1>31, <1>32
            DEF Next, Submit, Read, Callback

\* A urb_req that is taken off the lists: its request is completed, unless its
\* cancellation has begun.
LEMMA ReleaseEffect ==
  ASSUME TypeInv, OutInv, NEW w \in Urbr, NEW S \in SUBSET (Reads \cup {NoReq}),
         Holds(w), UnmarkCancelable(w),
         IF Unmarks(w) THEN CompleteAll(ReqOf(w) \cup S)
                       ELSE CompleteAll(S) \/ req' = req
  PROVE  /\ \A v \in Urb : mark'[v] = "taken" <=> mark[v] = "taken"
         /\ \A v \in Urb : w # SubmitOf(v) => /\ cancelable'[v] <=> cancelable[v]
                                              /\ req'[v] = req[v]
         /\ \A v \in Urb : w = SubmitOf(v) =>
              req'[v] = IF mark[v] = "taken" THEN req[v] ELSE "done"
<1> USE DEF TypeInv
<1>1. \A v \in Urb : mark'[v] = "taken" <=> mark[v] = "taken"
  BY UnmarkEffect, ReqFacts
<1>2. \A v \in Urb : w # SubmitOf(v) => (cancelable'[v] <=> cancelable[v])
  BY UnmarkEffect, UrbrFacts DEF IsUrb
<1>3. \A v \in Urb : w # SubmitOf(v) => req'[v] = req[v]
  <2>1. CASE Unmarks(w)
    BY <2>1, CompleteEffect, ReqOfFact, ReqFacts
  <2>2. CASE ~Unmarks(w)
    BY <2>2, CompleteEffect, ReqFacts
  <2> QED  BY <2>1, <2>2
<1>4. ASSUME NEW v \in Urb, w = SubmitOf(v)
      PROVE  req'[v] = IF mark[v] = "taken" THEN req[v] ELSE "done"
  <2>1. CASE mark[v] = "taken"
    <3>1. cancelable[v] /\ kind[v] # "select"
      BY <1>4, <2>1 DEF OutInv, Owned, Marks
    <3>2. ~Unmarks(w)
      BY <1>4, <2>1, <3>1, UrbrFacts DEF Unmarks, IsUrb
    <3> QED  BY <2>1, <3>2, CompleteEffect, ReqFacts
  <2>2. CASE mark[v] # "taken"
    <3>1. req[v] = "owned"
      BY <1>4, <2>2 DEF OutInv, Owned
    <3>2. Unmarks(w)
      BY <1>4, <2>2, UrbrFacts DEF Unmarks
    <3> QED  BY <1>4, <2>2, <3>1, <3>2, CompleteEffect, ReqOfFact, ReqFacts
  <2> QED  BY <2>1, <2>2
<1> QED  BY <1>1, <1>2, <1>3, <1>4

LEMMA FailEffect ==
  ASSUME TypeInv, OutInv, ReadFailed
  PROVE  /\ \A v \in Urb : mark'[v] = "taken" <=> mark[v] = "taken"
         /\ \A v \in Urb : hc_urbr # SubmitOf(v) => /\ cancelable'[v] <=> cancelable[v]
                                                    /\ req'[v] = req[v]
         /\ \A v \in Urb : hc_urbr = SubmitOf(v) =>
              req'[v] = IF mark[v] = "taken" THEN req[v] ELSE "done"
<1>1. /\ hc_urbr \in Urbr /\ Holds(hc_urbr)
      /\ {hc_read} \in SUBSET (Reads \cup {NoReq})
  BY DEF ReadFailed, TypeInv, HcHolds, Reading, Holds, TypeOK
<1>2. /\ UnmarkCancelable(hc_urbr)
      /\ IF Unmarks(hc_urbr) THEN CompleteAll(ReqOf(hc_urbr) \cup {hc_read})
                             ELSE CompleteAll({hc_read})
  BY DEF ReadFailed
<1> QED  BY <1>1, <1>2, ReleaseEffect

LEMMA AbortUrbrEffect ==
  ASSUME TypeInv, OutInv, AbortUrbr
  PROVE  \E w \in head_urbr :
           /\ Unlist(w)
           /\ \A v \in Urb : mark'[v] = "taken" <=> mark[v] = "taken"
           /\ \A v \in Urb : w # SubmitOf(v) => /\ cancelable'[v] <=> cancelable[v]
                                                /\ req'[v] = req[v]
           /\ \A v \in Urb : w = SubmitOf(v) =>
                req'[v] = IF mark[v] = "taken" THEN req[v] ELSE "done"
<1>1. PICK w \in head_urbr :
        /\ Unlist(w) /\ UnmarkCancelable(w)
        /\ IF Unmarks(w) THEN CompleteAll(ReqOf(w)) /\ Free(w)
                         ELSE UNCHANGED <<req, mem>>
  BY DEF AbortUrbr
<1>2. w \in Urbr /\ Holds(w)
  BY DEF TypeInv, TypeOK, Holds
<1>3. /\ {} \in SUBSET (Reads \cup {NoReq})
      /\ IF Unmarks(w) THEN CompleteAll(ReqOf(w) \cup {})
                       ELSE CompleteAll({}) \/ req' = req
  BY SMTT(30), <1>1
<1> QED  BY <1>1, <1>2, <1>3, ReleaseEffect

\* Whoever holds the urb_req of a request may complete it, once.
LEMMA OwnedStep == TypeInv /\ StrandInv /\ OutInv /\ [Next]_vars => Owned'
<1> SUFFICES ASSUME TypeInv, StrandInv, OutInv, [Next]_vars
             PROVE  Owned'
  OBVIOUS
<1> USE DEF vusb, lists, urbrs, reqs, submitters, controller, forwarder,
    TypeInv, TypeOK, HcHolds, OutInv, StrandInv, MarkedLate, OneStored, Storing,
    Reading, Marks, IsUrb, MarkFails, Owned, Placed, Holds, NoStrandedUrb,
    Cancelling
<1>1. ASSUME NEW u \in Urb, InternalDeviceControl(u) PROVE Owned'
  BY <1>1, UrbrFacts, ReqFacts DEF InternalDeviceControl
<1>2. ASSUME NEW u \in Urb, EpConfigure(u) PROVE Owned'
  BY <1>2, UrbrFacts, ReqFacts DEF EpConfigure
<1>3. ASSUME NEW u \in Urb, CancelUrb(u) PROVE Owned'
  BY <1>3, UrbrFacts, ReqFacts DEF CancelUrb
<1>4. ASSUME NEW u \in Urb, UrbrCancelled(u) PROVE Owned'
  <2>1. req[u] = "owned" /\ mark[u] = "taken"
    BY <1>4 DEF UrbrCancelled, OutInv, Owned, Cancelling
  <2>2. \/ req'[u] = "owned" \/ (can'[u] = "done" /\ req'[u] = "done")
    <3>1. CASE seq[SubmitOf(u)] = 0
      <4>1. CompleteAll({u}) /\ can'[u] = "done"
        BY <1>4, <3>1 DEF UrbrCancelled, TypeOK
      <4> QED  BY <4>1, <2>1, CompleteEffect, ReqFacts
    <3>2. CASE seq[SubmitOf(u)] # 0
      BY <1>4, <2>1, <3>2 DEF UrbrCancelled
    <3> QED  BY <3>1, <3>2
  <2>3. \A v \in Urb : /\ Holds(SubmitOf(v))' => Holds(SubmitOf(v))
                       /\ sub'[SubmitOf(v)] = sub[SubmitOf(v)]
    BY <1>4, CancelEffect, UrbrFacts
  <2>4. sub[SubmitOf(u)] \notin {"idle", "enter"} /\ ~Storing(SubmitOf(u))
    BY <2>1
  <2> QED  BY <1>4, <2>1, <2>2, <2>3, <2>4, CancelEffect, UrbrFacts
<1>5. ASSUME NEW u \in Urb, UrbrCancelledDone(u) PROVE Owned'
  BY <1>5, UrbrFacts, ReqFacts, CompleteEffect DEF UrbrCancelledDone
<1>6. ASSUME NEW w \in Urbr, SubmitInvalid(w) PROVE Owned'
  BY <1>6, UrbrFacts, ReqFacts, CompleteEffect, ReqOfFact DEF SubmitInvalid, GiveUp
<1>7. ASSUME NEW w \in Urbr, SubmitPending(w) PROVE Owned'
  BY <1>7, UrbrFacts, ReqFacts, MarkEffect
  DEF SubmitPending, NoReadFor, Enlist, Arrive
<1>8. ASSUME NEW w \in Urbr, SubmitCancelled(w) PROVE Owned'
  BY <1>8, UrbrFacts, ReqFacts, CompleteEffect, ReqOfFact
  DEF SubmitCancelled, GiveUp
<1>9. ASSUME NEW w \in Urbr, SubmitDirect(w) PROVE Owned'
  BY <1>9, UrbrFacts, ReqFacts DEF SubmitDirect, NoReadFor, NextSeqnum, Arrive
<1>10. ASSUME NEW w \in Urbr, SubmitStore(w) PROVE Owned'
  BY <1>10, UrbrFacts, ReqFacts
  DEF SubmitStore, StoreResult, LenStored, StoredHdrOnly, Lens
<1>11. ASSUME NEW w \in Urbr, SubmitStored(w) PROVE Owned'
  BY <1>11, UrbrFacts, ReqFacts, MarkEffect DEF SubmitStored, Enlist
<1>12. ASSUME NEW w \in Urbr, SubmitStoredCancelled(w) PROVE Owned'
  <2>1. /\ Storing(w) /\ CompleteAll(ReqOf(w)) /\ sub' = [sub EXCEPT ![w] = "done"]
        /\ UNCHANGED <<lists, mark, cancelable, can, controller>>
    BY <1>12 DEF SubmitStoredCancelled, GiveUp, Storing, lists, vusb
  <2>2. \A v \in Urb : /\ w # SubmitOf(v) => /\ req'[v] = req[v]
                                             /\ sub'[SubmitOf(v)] = sub[SubmitOf(v)]
                       /\ w = SubmitOf(v) => /\ req'[v] = "done"
                                             /\ sub'[SubmitOf(v)] = "done"
    <3>1. \A v \in Urb : w = SubmitOf(v) => req[v] = "owned"
      BY <2>1 DEF OutInv, Owned
    <3>2. \A v \in Urb : /\ w # SubmitOf(v) => req'[v] = req[v]
                         /\ w = SubmitOf(v) => req'[v] = "done"
      BY <2>1, <3>1, CompleteEffect, ReqOfFact, ReqFacts
    <3>3. \A v \in Urb : /\ w # SubmitOf(v) => sub'[SubmitOf(v)] = sub[SubmitOf(v)]
                         /\ w = SubmitOf(v) => sub'[SubmitOf(v)] = "done"
      BY <2>1, UrbrFacts DEF TypeOK
    <3> QED  BY <3>2, <3>3
  <2>3. ~Holds(w)
    BY <2>1 DEF Holds, OutInv, Placed, StrandInv, OneStored, Storing
  <2>4. \A v \in Urb : Holds(SubmitOf(v))' <=> Holds(SubmitOf(v))
    BY <2>1 DEF Holds, Reading, lists, controller
  <2>5. \A v \in Urb : w = SubmitOf(v) => mark[v] = "no"
    BY <2>1 DEF StrandInv, MarkedLate
  <2> QED  BY <2>1, <2>2, <2>3, <2>4, <2>5, UrbrFacts
           DEF OutInv, Owned, Cancelling, Storing
<1>13. ASSUME NEW w \in Urbr, SubmitFinish(w) PROVE Owned'
  BY <1>13, FinishEffect, UrbrFacts
<1>14. ASSUME NEW w \in Urbr, SubmitFailed(w) PROVE Owned'
  <2>1. /\ Storing(w) /\ CompleteAll(ReqOf(w)) /\ sub' = [sub EXCEPT ![w] = "done"]
        /\ UNCHANGED <<lists, mark, cancelable, can, controller>>
    BY <1>14 DEF SubmitFailed, Storing, lists
  <2>2. \A v \in Urb : /\ w # SubmitOf(v) => /\ req'[v] = req[v]
                                             /\ sub'[SubmitOf(v)] = sub[SubmitOf(v)]
                       /\ w = SubmitOf(v) => /\ req'[v] = "done"
                                             /\ sub'[SubmitOf(v)] = "done"
    <3>1. \A v \in Urb : w = SubmitOf(v) => req[v] = "owned"
      BY <2>1 DEF OutInv, Owned
    <3>2. \A v \in Urb : /\ w # SubmitOf(v) => req'[v] = req[v]
                         /\ w = SubmitOf(v) => req'[v] = "done"
      BY <2>1, <3>1, CompleteEffect, ReqOfFact, ReqFacts
    <3>3. \A v \in Urb : /\ w # SubmitOf(v) => sub'[SubmitOf(v)] = sub[SubmitOf(v)]
                         /\ w = SubmitOf(v) => sub'[SubmitOf(v)] = "done"
      BY <2>1, UrbrFacts DEF TypeOK
    <3> QED  BY <3>2, <3>3
  <2>3. ~Holds(w)
    BY <2>1 DEF Holds, OutInv, Placed, StrandInv, OneStored, Storing
  <2>4. \A v \in Urb : Holds(SubmitOf(v))' <=> Holds(SubmitOf(v))
    BY <2>1 DEF Holds, Reading, lists, controller
  <2>5. \A v \in Urb : w = SubmitOf(v) => mark[v] = "no"
    BY <2>1 DEF StrandInv, MarkedLate
  <2> QED  BY <2>1, <2>2, <2>3, <2>4, <2>5, UrbrFacts
           DEF OutInv, Owned, Cancelling, Storing
<1>15. ASSUME NEW w \in Urbr, IoWrite(w) PROVE Owned'
  BY <1>15, UrbrFacts, ReqFacts DEF IoWrite, Unlist
<1>16. ASSUME NEW r \in Reads, ReadPartial(r) PROVE Owned'
  <2>1. /\ hc = "idle" /\ fwd = "on" /\ ~invalid /\ pending_req_read = NoReq
        /\ \A w \in Urbr : sub_read[w] = NoReq
    BY <1>16 DEF ReadPartial, IoRead
  <2>2. ~Reading /\ \A w \in Urbr : ~Storing(w)
    BY <2>1 DEF Reading, StrandInv, OneStored
  <2>3. urbr_sent_partial # NoUrbr =>
          IsOut(urbr_sent_partial) /\ urbr_sent_partial \in head_urbr
    BY <2>1, <2>2 DEF OutInv, Expected
  <2>4. \A v \in Urb : urbr_sent_partial = SubmitOf(v) => mark[v] # "taken"
    BY <2>3, UrbrFacts DEF IsOut, OutInv, Marks, NoCancelledOut
  <2>5. PICK x \in Urbr : /\ x = urbr_sent_partial /\ HasReq(x) /\ x \in head_urbr
                          /\ hc' = "rest" /\ hc_urbr' = x
                          /\ UnmarkCancelable(x)
    BY <1>16, <2>3, UrbrFacts DEF ReadPartial, TypeOK, IsOut
  <2>6. \A v \in Urb : /\ mark'[v] = "taken" <=> mark[v] = "taken"
                       /\ x # SubmitOf(v) => cancelable'[v] = cancelable[v]
    BY <2>5, UnmarkEffect, UrbrFacts, ReqFacts
  <2>7. \A v \in Urb : req'[v] = req[v]
    BY <1>16, ReqFacts DEF ReadPartial, TypeOK
  <2>8. UNCHANGED <<lists, sub, can>>
    BY <1>16 DEF ReadPartial, vusb, lists, submitters
  <2>9. \A v \in Urb : Holds(SubmitOf(v))' => Holds(SubmitOf(v))
    BY <2>1, <2>5, <2>8 DEF Holds, lists, Reading
  <2> QED  BY <2>4, <2>5, <2>6, <2>7, <2>8, <2>9
           DEF OutInv, Owned, Cancelling, Storing, lists
<1>17. ASSUME NEW r \in Reads, ReadPended(r) PROVE Owned'
  <2>1. /\ hc = "idle" /\ fwd = "on" /\ ~invalid /\ pending_req_read = NoReq
        /\ \A w \in Urbr : sub_read[w] = NoReq
    BY <1>17 DEF ReadPended, IoRead
  <2>2. ~Reading /\ \A w \in Urbr : ~Storing(w)
    BY <2>1 DEF Reading, StrandInv, OneStored
  <2>3. urbr_sent_partial # NoUrbr =>
          IsOut(urbr_sent_partial) /\ urbr_sent_partial \in head_urbr
    BY <2>1, <2>2 DEF OutInv, Expected
  <2>4. \A v \in Urb : urbr_sent_partial = SubmitOf(v) => mark[v] # "taken"
    BY <2>3, UrbrFacts DEF IsOut, OutInv, Marks, NoCancelledOut
  <2>5. urbr_sent_partial = NoUrbr
    BY <1>17, <2>3, <2>4, UrbrFacts DEF ReadPended, Unmarks, IsUrb, TypeOK, IsOut
  <2>6. \A v \in Urb : cancelable'[v] <=> cancelable[v]
    BY <1>17, <2>5, UrbrFacts DEF ReadPended
  <2>7. \A v \in Urb : req'[v] = req[v] /\ mark'[v] = mark[v]
    BY <1>17, ReqFacts DEF ReadPended, TypeOK
  <2>8. UNCHANGED <<lists, sub, can, controller>>
    BY <1>17 DEF ReadPended, lists, submitters
  <2>9. \A v \in Urb : Holds(SubmitOf(v))' <=> Holds(SubmitOf(v))
    BY <2>8 DEF Holds, lists, Reading, controller
  <2> QED  BY <2>6, <2>7, <2>8, <2>9
           DEF OutInv, Owned, Cancelling, Storing
<1>18. ASSUME NEW r \in Reads, ReadTake(r) PROVE Owned'
  <2>1. /\ hc = "idle" /\ fwd = "on" /\ ~invalid /\ pending_req_read = NoReq
        /\ \A w \in Urbr : sub_read[w] = NoReq
    BY <1>18 DEF ReadTake, IoRead
  <2>2. ~Reading /\ \A w \in Urbr : ~Storing(w)
    BY <2>1 DEF Reading, StrandInv, OneStored
  <2>3. urbr_sent_partial # NoUrbr =>
          IsOut(urbr_sent_partial) /\ urbr_sent_partial \in head_urbr
    BY <2>1, <2>2 DEF OutInv, Expected
  <2>4. \A v \in Urb : urbr_sent_partial = SubmitOf(v) => mark[v] # "taken"
    BY <2>3, UrbrFacts DEF IsOut, OutInv, Marks, NoCancelledOut
  <2>5. urbr_sent_partial = NoUrbr
    BY <1>18, <2>3, <2>4, UrbrFacts
    DEF ReadTake, PartialDropped, Unmarks, IsUrb, TypeOK, IsOut
  <2>6. cancelable' = cancelable /\ mark' = mark
    BY <1>18, <2>5 DEF ReadTake, PartialDropped
  <2>7. \A v \in Urb : req'[v] = req[v]
    BY <1>18, ReqFacts DEF ReadTake, TypeOK
  <2>8. UNCHANGED <<head_urbr, head_urbr_sent, sub, can>>
    BY <1>18 DEF ReadTake, submitters
  <2>9. PICK x \in head_urbr_pending : /\ head_urbr_pending' = head_urbr_pending \ {x}
                                       /\ hc_urbr' = x
    BY <1>18 DEF ReadTake
  <2>10. \A v \in Urb : Holds(SubmitOf(v))' => Holds(SubmitOf(v))
    BY <2>8, <2>9 DEF Holds, Reading
  <2> QED  BY <2>6, <2>7, <2>8, <2>10
           DEF OutInv, Owned, Cancelling, Storing
<1>19. ASSUME NEW r \in Reads, ReadRefused(r) PROVE Owned'
  BY <1>19, UrbrFacts, ReqFacts DEF ReadRefused
<1>20. ASSUME NEW r \in Reads, CancelRead(r) PROVE Owned'
  BY <1>20, UrbrFacts, ReqFacts DEF CancelRead
<1>21. ASSUME NEW r \in Reads, ReqReadCancelled(r) PROVE Owned'
  BY <1>21, UrbrFacts, ReqFacts, CompleteEffect DEF ReqReadCancelled
<1>22. CASE ReadStore
  BY <1>22, UrbrFacts, ReqFacts
  DEF ReadStore, StoreResult, LenStored, StoredHdrOnly, Lens
<1>23. CASE ReadStorePartial
  BY <1>23, UrbrFacts, ReqFacts DEF ReadStorePartial
<1>24. CASE ReadStored
  BY <1>24, UrbrFacts, ReqFacts, CompleteEffect DEF ReadStored, ReadLeave, Received
<1>25. CASE ReadFailed
  <2>1. hc_urbr \in Urbr /\ Reading
    BY <1>25 DEF ReadFailed
  <2>2. /\ head_urbr' = head_urbr \ {hc_urbr} /\ hc' = "idle"
        /\ UNCHANGED <<head_urbr_pending, head_urbr_sent, sub, can>>
    BY <1>25 DEF ReadFailed, ReadLeave
  <2>3. /\ sub[hc_urbr] = "done"
        /\ hc_urbr \notin head_urbr_pending /\ hc_urbr \notin head_urbr_sent
    BY <2>1
  <2>4. \A v \in Urb : Holds(SubmitOf(v))' =>
          Holds(SubmitOf(v)) /\ hc_urbr # SubmitOf(v)
    BY <2>2, <2>3
  <2> QED  BY <1>25, <2>2, <2>3, <2>4, FailEffect
<1>26. CASE WriteDone
  BY <1>26, UrbrFacts, ReqFacts, UnmarkEffect, CompleteEffect, ReqOfFact
  DEF WriteDone, Unmarks
<1>27. CASE AbortRead
  BY <1>27, UrbrFacts, ReqFacts DEF AbortRead
<1>28. CASE AbortReadDone
  BY <1>28, AbortEffect, UrbrFacts
<1>29. CASE AbortUrbr
  <2>1. PICK w \in head_urbr :
          /\ Unlist(w)
          /\ \A v \in Urb : mark'[v] = "taken" <=> mark[v] = "taken"
          /\ \A v \in Urb : w # SubmitOf(v) =>
               (cancelable'[v] <=> cancelable[v]) /\ req'[v] = req[v]
          /\ \A v \in Urb : w = SubmitOf(v) =>
               req'[v] = IF mark[v] = "taken" THEN req[v] ELSE "done"
    BY <1>29, AbortUrbrEffect
  <2>2. hc = "urbs" /\ UNCHANGED <<sub, can, hc, hc_urbr>>
    BY <1>29 DEF AbortUrbr
  <2>3. \A v \in Urb : Holds(SubmitOf(v))' => Holds(SubmitOf(v)) /\ w # SubmitOf(v)
    BY <2>1, <2>2 DEF Unlist
  <2>4. sub[w] \notin {"idle", "enter"} /\ ~Storing(w)
    BY DEF OutInv
  <2> QED  BY <2>1, <2>2, <2>3, <2>4
<1>30. CASE AbortDone
  BY <1>30, UrbrFacts, ReqFacts DEF AbortDone
<1>31. CASE PlugOut
  BY <1>31, UrbrFacts, ReqFacts DEF PlugOut
<1>32. CASE UNCHANGED vars
  BY <1>32, UrbrFacts, ReqFacts DEF vars
<1> QED  BY <1>1, <1>2, <1>3, <1>4, <1>5, <1>6, <1>7, <1>8, <1>9, <1>10,
            <1>11, <1>12, <1>13, <1>14, <1>15, <1>16, <1>17, <1>18, <1>19, <1>20, <1>21,
            <1>22, <1>23, <1>24, <1>25, <1>26, <1>27, <1>28, <1>29, <1>30, <1>31, <1>32
            DEF Next, Submit, Read, Callback

\* Numbers follow the order of arrival: submit_urbr hands a command to the waiting
\* read only when nothing is pending, io_read takes the head of the list.
LEMMA InOrderStep == TypeInv /\ StrandInv /\ OutInv /\ InOrder /\ [Next]_vars => InOrder'
<1> SUFFICES ASSUME TypeInv, StrandInv, OutInv, InOrder, [Next]_vars
             PROVE  InOrder'
  OBVIOUS
<1> USE DEF vusb, lists, urbrs, reqs, submitters, controller, forwarder,
    TypeInv, TypeOK, HcHolds, OutInv, StrandInv, MarkedLate, OneStored, Placed,
    ReadIdle, Plain, InOrder, NumbersOrdered, NoCancelledOut, Storing, Reading
<1>1. ASSUME NEW u \in Urb, InternalDeviceControl(u) PROVE InOrder'
  BY <1>1, UrbrFacts, ReqFacts DEF InternalDeviceControl
<1>2. ASSUME NEW u \in Urb, EpConfigure(u) PROVE InOrder'
  BY <1>2, UrbrFacts, ReqFacts DEF EpConfigure
<1>3. ASSUME NEW u \in Urb, CancelUrb(u) PROVE InOrder'
  BY <1>3, UrbrFacts, ReqFacts DEF CancelUrb
<1>4. ASSUME NEW u \in Urb, UrbrCancelled(u) PROVE InOrder'
  BY <1>4, CancelEffect, UrbrFacts
<1>5. ASSUME NEW u \in Urb, UrbrCancelledDone(u) PROVE InOrder'
  BY <1>5, UrbrFacts, ReqFacts, CompleteEffect DEF UrbrCancelledDone
<1>6. ASSUME NEW w \in Urbr, SubmitInvalid(w) PROVE InOrder'
  BY <1>6, UrbrFacts, ReqFacts, CompleteEffect, ReqOfFact DEF SubmitInvalid, GiveUp
<1>7. ASSUME NEW w \in Urbr, SubmitPending(w) PROVE InOrder'
  BY <1>7, UrbrFacts, ReqFacts, MarkEffect
  DEF SubmitPending, NoReadFor, Enlist, Arrive
<1>8. ASSUME NEW w \in Urbr, SubmitCancelled(w) PROVE InOrder'
  BY <1>8, UrbrFacts, ReqFacts, CompleteEffect, ReqOfFact
  DEF SubmitCancelled, GiveUp
<1>9. ASSUME NEW w \in Urbr, SubmitDirect(w) PROVE InOrder'
  BY <1>9, UrbrFacts, ReqFacts DEF SubmitDirect, NoReadFor, NextSeqnum, Arrive
<1>10. ASSUME NEW w \in Urbr, SubmitStore(w) PROVE InOrder'
  BY <1>10, UrbrFacts, ReqFacts
  DEF SubmitStore, StoreResult, LenStored, StoredHdrOnly, Lens
<1>11. ASSUME NEW w \in Urbr, SubmitStored(w) PROVE InOrder'
  BY <1>11, UrbrFacts, ReqFacts, MarkEffect DEF SubmitStored, Enlist
<1>12. ASSUME NEW w \in Urbr, SubmitStoredCancelled(w) PROVE InOrder'
  BY <1>12, UrbrFacts, ReqFacts, CompleteEffect, ReqOfFact
  DEF SubmitStoredCancelled, GiveUp
<1>13. ASSUME NEW w \in Urbr, SubmitFinish(w) PROVE InOrder'
  BY <1>13, FinishEffect, UrbrFacts
<1>14. ASSUME NEW w \in Urbr, SubmitFailed(w) PROVE InOrder'
  BY <1>14, UrbrFacts, ReqFacts, CompleteEffect, ReqOfFact DEF SubmitFailed
<1>15. ASSUME NEW w \in Urbr, IoWrite(w) PROVE InOrder'
  BY <1>15, UrbrFacts, ReqFacts DEF IoWrite, Unlist
<1>16. ASSUME NEW r \in Reads, ReadPartial(r) PROVE InOrder'
  BY <1>16, UrbrFacts, ReqFacts, UnmarkEffect DEF ReadPartial, IoRead
<1>17. ASSUME NEW r \in Reads, ReadPended(r) PROVE InOrder'
  BY <1>17, UrbrFacts, ReqFacts DEF ReadPended, IoRead, Unmarks
<1>18. ASSUME NEW r \in Reads, ReadTake(r) PROVE InOrder'
  <2>1. PICK w \in head_urbr_pending :
          /\ Oldest(w) /\ NextSeqnum(w)
          /\ head_urbr_pending' = head_urbr_pending \ {w}
    BY <1>18 DEF ReadTake
  <2>2. w \in Urbr /\ seq' = [seq EXCEPT ![w] = seq_num + 1] /\ UNCHANGED <<kind, at>>
    BY <1>18, <2>1 DEF ReadTake, NextSeqnum, TypeOK
  <2> QED  BY <2>1, <2>2 DEF InOrder, NumbersOrdered, Oldest, TypeOK
<1>19. ASSUME NEW r \in Reads, ReadRefused(r) PROVE InOrder'
  BY <1>19, UrbrFacts, ReqFacts DEF ReadRefused
<1>20. ASSUME NEW r \in Reads, CancelRead(r) PROVE InOrder'
  BY <1>20, UrbrFacts, ReqFacts DEF CancelRead
<1>21. ASSUME NEW r \in Reads, ReqReadCancelled(r) PROVE InOrder'
  BY <1>21, UrbrFacts, ReqFacts, CompleteEffect DEF ReqReadCancelled
<1>22. CASE ReadStore
  BY <1>22, UrbrFacts, ReqFacts
  DEF ReadStore, StoreResult, LenStored, StoredHdrOnly, Lens
<1>23. CASE ReadStorePartial
  BY <1>23, UrbrFacts, ReqFacts DEF ReadStorePartial
<1>24. CASE ReadStored
  BY <1>24, UrbrFacts, ReqFacts, CompleteEffect DEF ReadStored, ReadLeave, Received
<1>25. CASE ReadFailed
  BY <1>25, UrbrFacts, ReqFacts, UnmarkEffect, CompleteEffect, ReqOfFact
  DEF ReadFailed, ReadLeave, Unmarks
<1>26. CASE WriteDone
  BY <1>26, UrbrFacts, ReqFacts, UnmarkEffect, CompleteEffect, ReqOfFact
  DEF WriteDone, Unmarks
<1>27. CASE AbortRead
  BY <1>27, UrbrFacts, ReqFacts DEF AbortRead
<1>28. CASE AbortReadDone
  BY <1>28, AbortEffect, UrbrFacts
<1>29. CASE AbortUrbr
  BY <1>29, UrbrFacts, ReqFacts, UnmarkEffect, CompleteEffect, ReqOfFact
  DEF AbortUrbr, Unlist, Unmarks
<1>30. CASE AbortDone
  BY <1>30, UrbrFacts, ReqFacts DEF AbortDone
<1>31. CASE PlugOut
  BY <1>31, UrbrFacts, ReqFacts DEF PlugOut
<1>32. CASE UNCHANGED vars
  BY <1>32, UrbrFacts, ReqFacts DEF vars
<1> QED  BY <1>1, <1>2, <1>3, <1>4, <1>5, <1>6, <1>7, <1>8, <1>9, <1>10,
            <1>11, <1>12, <1>13, <1>14, <1>15, <1>16, <1>17, <1>18, <1>19, <1>20, <1>21,
            <1>22, <1>23, <1>24, <1>25, <1>26, <1>27, <1>28, <1>29, <1>30, <1>31, <1>32
            DEF Next, Submit, Read, Callback

LEMMA NoOutStep == OutInv /\ [Next]_vars => NoCancelledOut'
<1> SUFFICES ASSUME OutInv, [Next]_vars
             PROVE  NoCancelledOut'
  OBVIOUS
<1>1. UNCHANGED <<kind, may>>
  <2>1. CASE \E u \in Urb : InternalDeviceControl(u) \/ EpConfigure(u) \/ CancelUrb(u)
                              \/ UrbrCancelled(u) \/ UrbrCancelledDone(u)
    BY <2>1
    DEF InternalDeviceControl, EpConfigure, CancelUrb, UrbrCancelled,
        UrbrCancelledDone, urbrs
  <2>2. CASE \E w \in Urbr : Submit(w) \/ IoWrite(w)
    BY <2>2
    DEF Submit, SubmitInvalid, SubmitPending, SubmitCancelled, SubmitDirect,
        SubmitStore, SubmitStored, SubmitStoredCancelled, SubmitFinish, SubmitFailed,
        IoWrite, urbrs
  <2>3. CASE \E r \in Reads : Read(r) \/ ReadRefused(r) \/ CancelRead(r)
                                \/ ReqReadCancelled(r)
    BY <2>3
    DEF Read, ReadPartial, ReadPended, ReadTake, ReadRefused, CancelRead,
        ReqReadCancelled, urbrs
  <2>4. CASE Callback \/ PlugOut \/ UNCHANGED vars
    BY <2>4
    DEF Callback, ReadStore, ReadStorePartial, ReadStored, ReadFailed, WriteDone,
        AbortRead, AbortReadDone, AbortUrbr, AbortDone, PlugOut, vars, urbrs
  <2> QED  BY <2>1, <2>2, <2>3, <2>4 DEF Next
<1> QED  BY <1>1 DEF OutInv, NoCancelledOut

LEMMA OutInit == Init /\ NoCancelledOut => OutInv /\ InOrder
<1> SUFFICES ASSUME Init, NoCancelledOut
             PROVE  OutInv /\ InOrder
  OBVIOUS
<1>1. Placed /\ OwnOnce
  BY UrbrFacts DEF Init, Placed, OwnOnce, Storing, Reading
<1>2. Marks /\ ReadIdle
  BY UrbrFacts, ReqFacts DEF Init, Marks, ReadIdle
<1>3. Expected
  BY UrbrFacts DEF Init, Expected, Storing, Reading
<1>4. Owned
  BY UrbrFacts, ReqFacts DEF Init, Owned, Holds, Cancelling, Storing, Reading
<1>5. InOrder
  BY DEF Init, InOrder, NumbersOrdered
<1> QED  BY <1>1, <1>2, <1>3, <1>4, <1>5 DEF OutInv

\* Together: the inductive invariant of the behaviours in which nobody cancels
\* an OUT transfer.
LEMMA OutInvariant == NoCancelledOut /\ Spec => [](OutInv /\ InOrder)
<1>1. /\ TypeInv /\ StrandInv /\ OutInv /\ InOrder /\ [Next]_vars
      => OutInv' /\ InOrder'
  <2> SUFFICES ASSUME TypeInv, StrandInv, OutInv, InOrder, [Next]_vars
               PROVE  OutInv' /\ InOrder'
    OBVIOUS
  <2>1. NoCancelledOut' /\ Placed' /\ OwnOnce' /\ Marks'
    BY NoOutStep, PlacedStep, OwnOnceStep, MarksStep
  <2>2. Expected' /\ ReadIdle' /\ Owned' /\ InOrder'
    BY ExpectedStep, ReadIdleStep, OwnedStep, InOrderStep
  <2> QED  BY <2>1, <2>2 DEF OutInv
<1> QED  BY <1>1, OutInit, StrandInvariant, PTL DEF Spec

\* Commands get their numbers in the order in which submit_urbr took them, for
\* any number of requests, endpoints and reads, with cancellations and plug-out:
\* as long as no OUT transfer is cancelled (the payload that the forwarder still
\* expects would then be missing, and what is stored instead may fail).
THEOREM NumbersInOrder == NoCancelledOut /\ Spec => []InOrder
<1>1. OutInv /\ InOrder => InOrder
  OBVIOUS
<1> QED  BY <1>1, OutInvariant, PTL

\* No request is completed twice, and what get_partial_urbr's comment says holds,
\* as long as no OUT transfer is cancelled.
THEOREM OnceUnlessOutCancelled == NoCancelledOut /\ Spec => []CompletedOnce
<1>1. OutInv /\ InOrder => CompletedOnce
  BY DEF OutInv, Owned, CompletedOnce
<1> QED  BY <1>1, OutInvariant, PTL
-----------------------------------------------------------------------------
(* The refinement of UrbService.                                            *)

LifeOf == [u \in Urb |-> IF req[u] = "owned" THEN "held" ELSE req[u]]
NumOf == [u \in Urb |-> seq[SubmitOf(u)]]

\* A step that completes requests that the driver owns, or none, and numbers none.
Finishes ==
  /\ UNCHANGED <<seq, seq_num>>
  /\ \A u \in Urb : req'[u] = req[u] \/ (req[u] = "owned" /\ req'[u] = "done")

\* Completing an owned request is the only thing that happens to a request in a
\* step that neither accepts nor numbers one.
LEMMA StepFinishes ==
  ASSUME TypeInv, Owned', [Next]_vars,
         ~ \E u \in Urb : InternalDeviceControl(u) \/ EpConfigure(u),
         ~ \E w \in Urbr : SubmitDirect(w),
         ~ \E r \in Reads : ReadTake(r)
  PROVE  Finishes
<1> USE DEF TypeInv
<1>c. ASSUME NEW S, CompleteAll(S), UNCHANGED <<seq, seq_num>> PROVE Finishes
  <2>1. \A u \in Urb : /\ req'[u] # "twice"
                       /\ req'[u] = IF u \in S THEN Completed(u) ELSE req[u]
    BY <1>c, ReqFacts DEF Owned, CompleteAll
  <2> QED  BY <1>c, <2>1 DEF Finishes, Completed
<1>r. CASE UNCHANGED <<seq, seq_num>> /\ \A u \in Urb : req'[u] = req[u]
  BY <1>r DEF Finishes
<1>1. ASSUME NEW u \in Urb, UrbrCancelled(u) PROVE Finishes
  <2>1. CompleteAll({u}) \/ req' = req
    BY <1>1 DEF UrbrCancelled
  <2>2. UNCHANGED <<seq, seq_num>>
    BY <1>1 DEF UrbrCancelled
  <2> QED  BY <2>1, <2>2, <1>c, <1>r
<1>2. ASSUME NEW u \in Urb, CancelUrb(u) \/ UrbrCancelledDone(u) PROVE Finishes
  BY <1>2, <1>c, <1>r DEF CancelUrb, UrbrCancelledDone, vusb, urbrs
<1>3. ASSUME NEW w \in Urbr,
             SubmitInvalid(w) \/ SubmitCancelled(w) \/ SubmitStoredCancelled(w)
      PROVE  Finishes
  BY <1>3, <1>c DEF SubmitInvalid, SubmitCancelled, SubmitStoredCancelled, GiveUp, vusb
<1>4. ASSUME NEW w \in Urbr, SubmitPending(w) \/ SubmitStore(w) \/ SubmitStored(w)
      PROVE  Finishes
  BY <1>4, <1>r DEF SubmitPending, SubmitStore, SubmitStored, urbrs, reqs
<1>5. ASSUME NEW w \in Urbr, SubmitFinish(w) \/ SubmitFailed(w) PROVE Finishes
  BY <1>5, <1>c DEF SubmitFinish, SubmitFailed, vusb, urbrs
<1>6. ASSUME NEW w \in Urbr, IoWrite(w) PROVE Finishes
  BY <1>6, <1>r DEF IoWrite, reqs
<1>7. ASSUME NEW r \in Reads,
             ReadPartial(r) \/ ReadPended(r) \/ ReadRefused(r) \/ CancelRead(r)
      PROVE  Finishes
  <2>1. \A u \in Urb : req'[u] = req[u]
    BY <1>7, ReqFacts DEF ReadPartial, ReadPended, ReadRefused, CancelRead, TypeOK
  <2>2. UNCHANGED <<seq, seq_num>>
    BY <1>7 DEF ReadPartial, ReadPended, ReadRefused, CancelRead, vusb, urbrs
  <2> QED  BY <2>1, <2>2, <1>r
<1>8. ASSUME NEW r \in Reads, ReqReadCancelled(r) PROVE Finishes
  BY <1>8, <1>c DEF ReqReadCancelled, urbrs
<1>9. CASE ReadStored \/ AbortReadDone
  BY <1>9, <1>c DEF ReadStored, AbortReadDone, vusb, urbrs
<1>10. CASE ReadFailed
  BY <1>10, <1>c DEF ReadFailed
<1>11. CASE WriteDone
  BY <1>11, <1>c, <1>r DEF WriteDone, vusb
<1>12. CASE AbortUrbr
  BY <1>12, <1>c, <1>r DEF AbortUrbr
<1>13. CASE \/ ReadStore \/ ReadStorePartial \/ AbortRead \/ AbortDone \/ PlugOut
            \/ UNCHANGED vars
  BY <1>13, <1>r
  DEF ReadStore, ReadStorePartial, AbortRead, AbortDone, PlugOut, vars, vusb, urbrs,
      reqs
<1> QED  BY <1>1, <1>2, <1>3, <1>4, <1>5, <1>6, <1>7, <1>8, <1>9, <1>10, <1>11,
            <1>12, <1>13
         DEF Next, Submit, Read, Callback

\* A step that gives a command the next number numbers its request, if it has
\* one, for the first time, or is a command of the driver's own.
LEMMA NumberImplements ==
  ASSUME TypeInv, NEW w \in Urbr, NextSeqnum(w), seq[w] = 0,
         \A u \in Urb : req'[u] = req[u],
         \A u \in Urb : w = SubmitOf(u) => req[u] = "owned"
  PROVE  Service!Next
<1> USE DEF TypeInv
<1>1. LifeOf' = LifeOf
  BY DEF LifeOf
<1>2. CASE HasReq(w)
  <2>1. PICK x \in Urb : w = SubmitOf(x)
    BY <1>2, UrbrFacts
  <2>2. NumOf' = [NumOf EXCEPT ![x] = seq_num + 1]
    <3>1. \A v \in Urb : seq'[SubmitOf(v)] = IF v = x THEN seq_num + 1
                                                      ELSE seq[SubmitOf(v)]
      BY <2>1, UrbrFacts DEF NextSeqnum, TypeOK
    <3> QED  BY <3>1 DEF NumOf
  <2>3. LifeOf[x] = "held" /\ NumOf[x] = 0
    BY <2>1 DEF LifeOf, NumOf
  <2>4. Service!Number(x)
    BY <1>1, <2>2, <2>3 DEF Service!Number, LifeOf, NumOf, NextSeqnum
  <2> QED  BY <2>4 DEF Service!Next
<1>3. CASE ~HasReq(w)
  <2>1. NumOf' = NumOf
    BY <1>3, UrbrFacts DEF NumOf, NextSeqnum, TypeOK
  <2>2. Service!NumberOwn
    BY <1>1, <2>1 DEF Service!NumberOwn, LifeOf, NumOf, NextSeqnum
  <2> QED  BY <2>2 DEF Service!Next
<1> QED  BY <1>2, <1>3

\* Every step of the queue is a step of UrbService or changes nothing it shows.
LEMMA StepImplements ==
  TypeInv /\ StrandInv /\ OutInv /\ OutInv' /\ [Next]_vars => Service!Next
<1> SUFFICES ASSUME TypeInv, StrandInv, OutInv, OutInv', [Next]_vars
             PROVE  Service!Next
  OBVIOUS
<1> USE DEF TypeInv
<1>1. ASSUME NEW u \in Urb, InternalDeviceControl(u) \/ EpConfigure(u)
      PROVE  Service!Next
  <2>1. req[u] = "idle" /\ u \in Req
    BY <1>1, ReqFacts DEF InternalDeviceControl, EpConfigure, OutInv, Owned
  <2>2. PICK i \in {"owned", "done"} : req' = [req EXCEPT ![u] = i]
    BY <1>1 DEF InternalDeviceControl, EpConfigure
  <2>3. PICK l \in {"held", "done"} : l = IF i = "owned" THEN "held" ELSE i
    OBVIOUS
  <2>4. LifeOf' = [LifeOf EXCEPT ![u] = l]
    BY <2>1, <2>2, <2>3, ReqFacts DEF LifeOf, TypeOK
  <2>5. LifeOf[u] = "idle"
    BY <2>1 DEF LifeOf
  <2>6. seq' = seq /\ seq_num' = seq_num
    BY <1>1 DEF InternalDeviceControl, EpConfigure, vusb
  <2>7. Service!Submit(u)
    BY <2>4, <2>5, <2>6 DEF Service!Submit, LifeOf
  <2> QED  BY <2>7 DEF Service!Next
<1>2. ASSUME NEW w \in Urbr, SubmitDirect(w) PROVE Service!Next
  <2>1. NextSeqnum(w) /\ req' = req
    BY <1>2 DEF SubmitDirect, reqs
  <2>2. seq[w] = 0 /\ \A u \in Urb : w = SubmitOf(u) => req[u] = "owned"
    BY <1>2 DEF SubmitDirect, OutInv, Placed, Owned
  <2> QED  BY <2>1, <2>2, NumberImplements
<1>3. ASSUME NEW r \in Reads, ReadTake(r) PROVE Service!Next
  <2>1. PICK w \in head_urbr_pending : NextSeqnum(w)
    BY <1>3 DEF ReadTake
  <2>2. \A u \in Urb : req'[u] = req[u]
    BY <1>3, ReqFacts DEF ReadTake, TypeOK
  <2>3. w \in Urbr /\ seq[w] = 0
    BY DEF OutInv, Placed, TypeOK
  <2>4. \A u \in Urb : w = SubmitOf(u) => req[u] = "owned"
    BY DEF OutInv, Owned, Holds, Cancelling, StrandInv, MarkedLate
  <2> QED  BY <2>1, <2>2, <2>3, <2>4, NumberImplements
<1>4. CASE Finishes
  <2>1. PICK T \in SUBSET Urb : T = {u \in Urb : req[u] # req'[u]}
    OBVIOUS
  <2>2. \A u \in T : LifeOf[u] = "held"
    BY <1>4, <2>1 DEF Finishes, LifeOf
  <2>3. LifeOf' = [u \in Urb |-> IF u \in T THEN "done" ELSE LifeOf[u]]
    BY <1>4, <2>1 DEF Finishes, LifeOf
  <2>4. NumOf' = NumOf /\ seq_num' = seq_num
    BY <1>4 DEF Finishes, NumOf
  <2>5. Service!Finish(T)
    BY <2>2, <2>3, <2>4 DEF Service!Finish, LifeOf, NumOf
  <2> QED  BY <2>5 DEF Service!Next
<1>5. Owned'
  BY DEF OutInv
<1> QED  BY <1>1, <1>2, <1>3, <1>4, <1>5, StepFinishes

\* The UDE driver implements the service that the WDM driver implements, as long
\* as no OUT transfer is cancelled: for any set of requests, reads and endpoints
\* every step submits, numbers or completes as UrbService allows.
THEOREM UdeImplementsService == NoCancelledOut /\ Spec => ServiceSpec
<1>1. Init => Service!Init
  <2> SUFFICES ASSUME Init
               PROVE  Service!Init
    OBVIOUS
  <2>1. LifeOf = [u \in Urb |-> "idle"]
    BY ReqFacts DEF Init, LifeOf
  <2>2. NumOf = [u \in Urb |-> 0]
    BY UrbrFacts DEF Init, NumOf
  <2> QED  BY <2>1, <2>2 DEF Service!Init, LifeOf, NumOf, Init
<1>2. /\ TypeInv /\ StrandInv /\ OutInv /\ OutInv' /\ [Next]_vars
      => [Service!Next]_(Service!vars)
  BY StepImplements
<1> QED  BY <1>1, <1>2, StrandInvariant, OutInvariant, PTL
         DEF Spec, ServiceSpec, Service!Spec
=============================================================================
