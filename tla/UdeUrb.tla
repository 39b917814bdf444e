------------------------------- MODULE UdeUrb -------------------------------
(***************************************************************************)
(* The URB queue of one virtual USB device (vusb) of the UDE driver        *)
(* driver/vhci_ude.                                                        *)
(*                                                                         *)
(* The framework calls the driver: internal_device_control and             *)
(* urbr_cancelled under the lock of the endpoint's queue, one at a time    *)
(* for an endpoint; io_read, io_write, req_read_cancelled and the plug-out *)
(* under the lock of the controller's queue, one at a time for the         *)
(* controller (both queues have WdfSynchronizationScopeQueue).             *)
(* ep_configure is under neither.  What the two queues share is guarded by *)
(* vusb->spin_lock only, and one step is one critical section of it, or    *)
(* the code between two of them that another thread can observe.           *)
(*                                                                         *)
(* A urb_req that has been freed keeps its contents, and a request whose   *)
(* cancellation has begun answers WdfRequestUnmarkCancelable with          *)
(* STATUS_CANCELLED for ever.  That the memory of either may be handed out *)
(* again is not modelled.                                                  *)
(***************************************************************************)
EXTENDS Naturals

CONSTANTS
  Urb,         \* requests of the class drivers and of the UDE framework
  Reads,       \* read requests of the forwarder; one is reused once completed
  NoReq,       \* the NULL request
  EpOf,        \* the endpoint a request is for
  Scenarios    \* what the requests may ask for (kinds), and which requests
               \* may be cancelled or whether the device is plugged out (may)

(***************************************************************************)
(* in:     URB without a payload from the host                             *)
(* out:    URB with one                                                    *)
(* bad:    URB that store_urbr refuses                                     *)
(* serial: request for the serial string, answered by store_urbr itself    *)
(* select: SELECT_CONF or SELECT_INTF request of ep_configure              *)
(***************************************************************************)
AllKinds == {"in", "out", "bad", "serial", "select"}

ASSUME ConstantsAssumption ==
  /\ NoReq \notin Urb \cup Reads
  /\ Urb \cap Reads = {}
  /\ DOMAIN EpOf = Urb
  /\ \A s \in Scenarios : /\ s.kinds \subseteq AllKinds
                         /\ s.may \subseteq Urb \cup Reads \cup {"plugout"}

Req == Urb \cup Reads

\* A urb_req is a request, the unlink command of a cancelled one, or the reset
\* of the pipe on which one has stalled.
Urbr == Urb \X {"submit", "unlink", "reset"}
SubmitOf(u) == <<u, "submit">>
UnlinkOf(u) == <<u, "unlink">>
ResetOf(u) == <<u, "reset">>
HasReq(w) == w[2] = "submit"
NoUrbr == <<NoReq, "none">>

HDR == 48      \* sizeof(struct usbip_header)

VARIABLES
  invalid, pending_req_read, urbr_sent_partial, len_sent_partial,
  head_urbr, head_urbr_pending, head_urbr_sent, seq_num,  \* the vusb
  kind,          \* what each request asks for
  may,           \* what may be cancelled, and whether the device is plugged out
  mem,           \* whether a urb_req is allocated
  seq,           \* urbr->seq_num
  at, arrivals,  \* the order in which submit_urbr took the urb_reqs
  req,           \* "idle", "owned" by the driver, "done", or completed "twice"
  mark,          \* framework: "no", "yes" cancelable, or "taken" by a cancellation
  cancelled,     \* framework: whether a cancellation was asked for
  cancelable,    \* urbr->u.urb.cancelable
  can,           \* urbr_cancelled: its step
  sub, sub_read, \* submit_urbr: its step, and the read it fills
  hc, hc_read, hc_urbr, hc_ok,  \* the callback of the controller's queue
  fwd,           \* forwarder: "on", or "off" once it has cancelled its read
  expect,        \* forwarder: the command whose payload it reads next
  wire           \* commands that the forwarder has read as a whole

vusb == <<invalid, pending_req_read, urbr_sent_partial, len_sent_partial,
          head_urbr, head_urbr_pending, head_urbr_sent, seq_num>>
lists == <<head_urbr, head_urbr_pending, head_urbr_sent>>
urbrs == <<kind, may, mem, seq, at, arrivals, cancelable>>
reqs == <<req, mark, cancelled>>
submitters == <<sub, sub_read>>
controller == <<hc, hc_read, hc_urbr, hc_ok>>
forwarder == <<fwd, expect, wire>>
vars == <<vusb, urbrs, reqs, can, submitters, controller, forwarder>>

TypeOK ==
  /\ invalid \in BOOLEAN
  /\ pending_req_read \in Reads \cup {NoReq}
  /\ urbr_sent_partial \in Urbr \cup {NoUrbr}
  /\ len_sent_partial \in {0, HDR}
  /\ head_urbr \subseteq Urbr
  /\ head_urbr_pending \subseteq Urbr
  /\ head_urbr_sent \subseteq Urbr
  /\ seq_num \in Nat
  /\ kind \in [Urb -> AllKinds]
  /\ may \subseteq Req \cup {"plugout"}
  /\ mem \in [Urbr -> {"none", "live", "freed"}]
  /\ seq \in [Urbr -> Nat]
  /\ at \in [Urbr -> Nat] /\ arrivals \in Nat
  /\ req \in [Req -> {"idle", "owned", "done", "twice"}]
  /\ mark \in [Req -> {"no", "yes", "taken"}]
  /\ cancelled \in [Urb -> BOOLEAN]
  /\ cancelable \in [Urb -> BOOLEAN]
  /\ can \in [Urb -> {"idle", "unlinking", "done"}]
  /\ sub \in [Urbr -> {"idle", "enter", "storing", "ok", "bad", "local",
                       "finish", "done"}]
  /\ sub_read \in [Urbr -> Reads \cup {NoReq}]
  /\ hc \in {"idle", "storing", "rest", "stored", "reset", "fetched", "invalid",
             "read", "urbs"}
  /\ hc_read \in Reads \cup {NoReq}
  /\ hc_urbr \in Urbr \cup {NoUrbr}
  /\ hc_ok \in BOOLEAN
  /\ fwd \in {"on", "off"}
  /\ expect \in Urbr \cup {NoUrbr}
  /\ wire \subseteq Urbr

Init ==
  /\ invalid = FALSE
  /\ pending_req_read = NoReq
  /\ urbr_sent_partial = NoUrbr /\ len_sent_partial = 0
  /\ head_urbr = {} /\ head_urbr_pending = {} /\ head_urbr_sent = {}
  /\ seq_num = 0
  /\ \E s \in Scenarios : kind \in [Urb -> s.kinds] /\ may = s.may
  /\ mem = [w \in Urbr |-> "none"]
  /\ seq = [w \in Urbr |-> 0]
  /\ at = [w \in Urbr |-> 0] /\ arrivals = 0
  /\ req = [q \in Req |-> "idle"]
  /\ mark = [q \in Req |-> "no"]
  /\ cancelled = [u \in Urb |-> FALSE]
  /\ cancelable = [u \in Urb |-> FALSE]
  /\ can = [u \in Urb |-> "idle"]
  /\ sub = [w \in Urbr |-> "idle"]
  /\ sub_read = [w \in Urbr |-> NoReq]
  /\ hc = "idle" /\ hc_read = NoReq /\ hc_urbr = NoUrbr /\ hc_ok = FALSE
  /\ fwd = "on" /\ expect = NoUrbr /\ wire = {}
-----------------------------------------------------------------------------
(* The framework's requests                                                 *)

\* WdfRequestComplete, UdecxUrbComplete, UdecxUrbCompleteWithNtStatus
Completed(q) == IF req[q] = "owned" THEN "done" ELSE "twice"
CompleteAll(S) == req' = [q \in Req |-> IF q \in S THEN Completed(q) ELSE req[q]]
ReqOf(w) == IF HasReq(w) THEN {w[1]} ELSE {}

\* Requests of type URBR_TYPE_URB are the ones that may be cancelled.
IsUrb(w) == HasReq(w) /\ kind[w[1]] # "select"

\* mark_cancelable_urbr: WdfRequestMarkCancelableEx fails on a cancelled request.
MarkFails(w) == IsUrb(w) /\ cancelled[w[1]]

MarkCancelable(w) ==
  IF IsUrb(w)
    THEN /\ mark' = [mark EXCEPT ![w[1]] = "yes"]
         /\ cancelable' = [cancelable EXCEPT ![w[1]] = TRUE]
    ELSE UNCHANGED <<mark, cancelable>>

\* Mutant: whatever WdfRequestUnmarkCancelable has returned.
MutUnmarks(w) == TRUE

\* What unmark_cancelable_urbr returns.
Unmarks(w) == ~(IsUrb(w) /\ cancelable[w[1]] /\ mark[w[1]] = "taken")

\* The marks after WdfRequestUnmarkCancelable on a request of S
Unmarked(S) == [q \in Req |-> IF q \in S /\ mark[q] = "yes" THEN "no" ELSE mark[q]]

UnmarkCancelable(w) ==
  IF IsUrb(w) /\ cancelable[w[1]]
    THEN /\ mark' = Unmarked({w[1]})
         /\ cancelable' = [cancelable EXCEPT ![w[1]] = FALSE]
    ELSE UNCHANGED <<mark, cancelable>>

\* create_urbr and free_urbr
Allocate(w) == mem' = [mem EXCEPT ![w] = "live"]
Free(w) == mem' = [mem EXCEPT ![w] = "freed"]

\* Mutant: the command is not put into the list of all.
MutEnlist(w) == UNCHANGED head_urbr

\* InsertTailList on head_urbr
Enlist(w) == head_urbr' = head_urbr \cup {w}

\* RemoveEntryListInit on both links
Unlist(w) ==
  /\ head_urbr' = head_urbr \ {w}
  /\ head_urbr_pending' = head_urbr_pending \ {w}
  /\ head_urbr_sent' = head_urbr_sent \ {w}

\* urbr->seq_num = ++(vusb->seq_num)
NextSeqnum(w) ==
  /\ seq' = [seq EXCEPT ![w] = seq_num + 1]
  /\ seq_num' = seq_num + 1

\* Mutant: the command that came last.
MutOldest(w) == \A x \in head_urbr_pending : at[x] <= at[w]

\* The head of head_urbr_pending
Oldest(w) == \A x \in head_urbr_pending : at[w] <= at[x]
-----------------------------------------------------------------------------
(* store_urbr and what the forwarder makes of a completed read              *)

\* The reads of the forwarder: a header, or the payload that it knows to
\* follow, whose length may be below or above that of a header.
Lens == IF expect = NoUrbr THEN {"hdr"} ELSE {"short", "full"}

StoreResult(w, len) ==
  CASE HasReq(w) /\ kind[w[1]] = "bad" -> "bad"
    [] HasReq(w) /\ kind[w[1]] = "serial" -> "local"
    [] OTHER -> IF len = "short" THEN "bad" ELSE "ok"

\* Only the header was stored, the payload is left for the next read.
StoredHdrOnly(w, len) == len = "hdr" /\ HasReq(w) /\ kind[w[1]] = "out"

\* len_sent_partial after store_urbr
LenStored(w, len) == IF StoredHdrOnly(w, len) THEN HDR ELSE len_sent_partial

\* The forwarder has read (part of) command w.  A header where it expected the
\* payload of another command is sent to the server as that payload.
Received(w, partial) ==
  /\ wire' = IF ~partial /\ expect \in {NoUrbr, w} THEN wire \cup {w} ELSE wire
  /\ expect' = IF partial /\ expect = NoUrbr THEN w ELSE NoUrbr
  /\ UNCHANGED fwd
-----------------------------------------------------------------------------
(* Submitting: internal_device_control, ep_configure, submit_urbr           *)

InSubmit(w) == sub[w] \notin {"idle", "done"}

\* The lock of an endpoint's queue is held by one of its callbacks.
EpBusy(ep) ==
  \E u \in Urb :
    /\ EpOf[u] = ep
    /\ can[u] = "unlinking" \/ (InSubmit(SubmitOf(u)) /\ IsUrb(SubmitOf(u)))

\* The unlocked test of invalid, and create_urbr, which may find no memory.
InternalDeviceControl(u) ==
  /\ kind[u] # "select"
  /\ sub[SubmitOf(u)] = "idle"
  /\ ~EpBusy(EpOf[u])
  /\ \/ /\ ~invalid
        /\ req' = [req EXCEPT ![u] = "owned"]
        /\ Allocate(SubmitOf(u))
        /\ sub' = [sub EXCEPT ![SubmitOf(u)] = "enter"]
     \/ /\ req' = [req EXCEPT ![u] = "done"]
        /\ sub' = [sub EXCEPT ![SubmitOf(u)] = "done"]
        /\ UNCHANGED mem
  /\ UNCHANGED <<vusb, kind, may, seq, at, arrivals, cancelable, mark,
                 cancelled, can, sub_read, controller, forwarder>>

\* ep_configure completes the request at once when there is nothing to select,
\* the device is invalid or memory is short; otherwise it submits a select.
EpConfigure(u) ==
  /\ kind[u] = "select"
  /\ sub[SubmitOf(u)] = "idle"
  /\ \/ /\ req' = [req EXCEPT ![u] = "owned"]
        /\ Allocate(SubmitOf(u))
        /\ sub' = [sub EXCEPT ![SubmitOf(u)] = "enter"]
     \/ /\ req' = [req EXCEPT ![u] = "done"]
        /\ sub' = [sub EXCEPT ![SubmitOf(u)] = "done"]
        /\ UNCHANGED mem
  /\ UNCHANGED <<vusb, kind, may, seq, at, arrivals, cancelable, mark,
                 cancelled, can, sub_read, controller, forwarder>>

\* submit_urbr has failed: its callers free the urb_req and complete the request.
GiveUp(w) ==
  /\ Free(w)
  /\ CompleteAll(ReqOf(w))
  /\ sub' = [sub EXCEPT ![w] = "done"]

Arrive(w) ==
  /\ at' = [at EXCEPT ![w] = arrivals + 1]
  /\ arrivals' = arrivals + 1

NoReadFor == urbr_sent_partial # NoUrbr \/ pending_req_read = NoReq

\* The device is invalid: STATUS_DEVICE_NOT_CONNECTED.
SubmitInvalid(w) ==
  /\ sub[w] = "enter"
  /\ invalid
  /\ GiveUp(w)
  /\ UNCHANGED <<vusb, kind, may, seq, at, arrivals, cancelable, mark,
                 cancelled, can, sub_read, controller, forwarder>>

\* No read is waiting, or an earlier command is still being transferred.
SubmitPending(w) ==
  /\ sub[w] = "enter"
  /\ ~invalid
  /\ NoReadFor
  /\ ~MarkFails(w)
  /\ MarkCancelable(w)
  /\ head_urbr_pending' = head_urbr_pending \cup {w}
  /\ Enlist(w)
  /\ Arrive(w)
  /\ sub' = [sub EXCEPT ![w] = "done"]
  /\ UNCHANGED <<invalid, pending_req_read, urbr_sent_partial, len_sent_partial,
                 head_urbr_sent, seq_num, kind, may, mem, seq, req,
                 cancelled, can, sub_read, controller, forwarder>>

\* The request was cancelled before it could be queued.
SubmitCancelled(w) ==
  /\ sub[w] = "enter"
  /\ ~invalid
  /\ NoReadFor
  /\ MarkFails(w)
  /\ GiveUp(w)
  /\ UNCHANGED <<vusb, kind, may, seq, at, arrivals, cancelable, mark,
                 cancelled, can, sub_read, controller, forwarder>>

\* The waiting read is taken for this command.
SubmitDirect(w) ==
  /\ sub[w] = "enter"
  /\ ~invalid
  /\ ~NoReadFor
  /\ sub_read' = [sub_read EXCEPT ![w] = pending_req_read]
  /\ urbr_sent_partial' = w
  /\ NextSeqnum(w)
  /\ Arrive(w)
  /\ sub' = [sub EXCEPT ![w] = "storing"]
  /\ UNCHANGED <<invalid, pending_req_read, len_sent_partial, lists, kind,
                 may, mem, cancelable, reqs, can, controller, forwarder>>

\* store_urbr, outside the lock
SubmitStore(w) ==
  /\ sub[w] = "storing"
  /\ \E len \in Lens :
       /\ sub' = [sub EXCEPT ![w] = StoreResult(w, len)]
       /\ len_sent_partial' = LenStored(w, len)
  /\ UNCHANGED <<invalid, pending_req_read, urbr_sent_partial, lists, seq_num,
                 urbrs, reqs, can, sub_read, controller, forwarder>>

\* Second critical section.  invalid is not looked at again.
SubmitStored(w) ==
  /\ sub[w] = "ok"
  /\ ~MarkFails(w)
  /\ MarkCancelable(w)
  /\ IF len_sent_partial = 0
       THEN /\ urbr_sent_partial' = NoUrbr
            /\ head_urbr_sent' = head_urbr_sent \cup {w}
       ELSE UNCHANGED <<urbr_sent_partial, head_urbr_sent>>
  /\ Enlist(w)
  /\ pending_req_read' = NoReq
  /\ sub' = [sub EXCEPT ![w] = "finish"]
  /\ UNCHANGED <<invalid, len_sent_partial, head_urbr_pending, seq_num, kind,
                 may, mem, seq, at, arrivals, req, cancelled, can,
                 sub_read, controller, forwarder>>

\* The request was cancelled while it was stored.  urbr_sent_partial goes on
\* naming the urb_req, and the read goes on waiting.
SubmitStoredCancelled(w) ==
  /\ sub[w] = "ok"
  /\ MarkFails(w)
  /\ GiveUp(w)
  /\ sub_read' = [sub_read EXCEPT ![w] = NoReq]
  /\ UNCHANGED <<vusb, kind, may, seq, at, arrivals, cancelable, mark,
                 cancelled, can, controller, forwarder>>

\* The read is completed, whatever WdfRequestUnmarkCancelable has returned.
SubmitFinish(w) ==
  /\ sub[w] = "finish"
  /\ LET r == sub_read[w] IN
     /\ mark' = Unmarked({r})
     /\ CompleteAll({r})
     /\ IF req[r] = "owned"
          THEN Received(w, urbr_sent_partial = w)
          ELSE UNCHANGED forwarder
  /\ sub_read' = [sub_read EXCEPT ![w] = NoReq]
  /\ sub' = [sub EXCEPT ![w] = "done"]
  /\ UNCHANGED <<vusb, urbrs, cancelled, can, controller>>

\* Storing failed, or store_urbr has answered the request itself (its urb_req
\* is then not freed).  The read goes on waiting.
SubmitFailed(w) ==
  /\ sub[w] \in {"bad", "local"}
  /\ urbr_sent_partial' = NoUrbr
  /\ IF sub[w] = "bad" THEN Free(w) ELSE UNCHANGED mem
  /\ CompleteAll(ReqOf(w))
  /\ sub_read' = [sub_read EXCEPT ![w] = NoReq]
  /\ sub' = [sub EXCEPT ![w] = "done"]
  /\ UNCHANGED <<invalid, pending_req_read, len_sent_partial, lists, seq_num, kind,
                 may, seq, at, arrivals, cancelable, mark, cancelled, can,
                 controller, forwarder>>
-----------------------------------------------------------------------------
(* Cancelling: urbr_cancelled, req_read_cancelled                           *)

\* A class driver, or the purge of an endpoint's queue, cancels a request.  The
\* callback is due if the request is marked; if not, the next mark will fail.
CancelUrb(u) ==
  /\ u \in may
  /\ req[u] = "owned" /\ kind[u] # "select" /\ ~cancelled[u]
  /\ cancelled' = [cancelled EXCEPT ![u] = TRUE]
  /\ mark' = [mark EXCEPT ![u] = IF mark[u] = "yes" THEN "taken" ELSE mark[u]]
  /\ UNCHANGED <<vusb, urbrs, req, can, submitters, controller, forwarder>>

\* A request that was not sent is completed (its urb_req is not freed); for one
\* that was, an unlink is submitted first, if there is memory for it.
UrbrCancelled(u) ==
  /\ mark[u] = "taken" /\ can[u] = "idle"
  /\ ~EpBusy(EpOf[u])
  /\ Unlist(SubmitOf(u))
  /\ IF urbr_sent_partial = SubmitOf(u)
       THEN urbr_sent_partial' = NoUrbr /\ len_sent_partial' = 0
       ELSE UNCHANGED <<urbr_sent_partial, len_sent_partial>>
  /\ IF seq[SubmitOf(u)] = 0
       THEN /\ CompleteAll({u})
            /\ can' = [can EXCEPT ![u] = "done"]
            /\ UNCHANGED <<mem, sub>>
       ELSE /\ can' = [can EXCEPT ![u] = "unlinking"]
            /\ \/ /\ Allocate(UnlinkOf(u))
                  /\ sub' = [sub EXCEPT ![UnlinkOf(u)] = "enter"]
               \/ UNCHANGED <<mem, sub>>
            /\ UNCHANGED req
  /\ UNCHANGED <<invalid, pending_req_read, seq_num, kind, may, seq, at,
                 arrivals, cancelable, mark, cancelled, sub_read, controller,
                 forwarder>>

\* submit_urbr_unlink has returned.
UrbrCancelledDone(u) ==
  /\ can[u] = "unlinking"
  /\ ~InSubmit(UnlinkOf(u))
  /\ Free(SubmitOf(u))
  /\ CompleteAll({u})
  /\ can' = [can EXCEPT ![u] = "done"]
  /\ UNCHANGED <<vusb, kind, may, seq, at, arrivals, cancelable, mark,
                 cancelled, submitters, controller, forwarder>>

\* The forwarder cancels its read when it ends.
CancelRead(r) ==
  /\ r \in may
  /\ mark[r] = "yes"
  /\ mark' = [mark EXCEPT ![r] = "taken"]
  /\ fwd' = "off"
  /\ UNCHANGED <<vusb, urbrs, req, cancelled, can, submitters, controller, expect,
                 wire>>

\* get_vusb_by_req does not find an invalid device.
ReqReadCancelled(r) ==
  /\ hc = "idle"
  /\ mark[r] = "taken"
  /\ pending_req_read' =
       IF ~invalid /\ pending_req_read = r THEN NoReq ELSE pending_req_read
  /\ CompleteAll({r})
  /\ mark' = [mark EXCEPT ![r] = "no"]
  /\ UNCHANGED <<invalid, urbr_sent_partial, len_sent_partial, lists, seq_num,
                 urbrs, cancelled, can, submitters, controller, forwarder>>
-----------------------------------------------------------------------------
(* Reading: io_read, read_vusb                                              *)

\* The device is invalid, or another read is waiting: the read fails.
ReadRefused(r) ==
  /\ hc = "idle"
  /\ req[r] = "idle"
  /\ invalid \/ pending_req_read # NoReq
  /\ req' = [req EXCEPT ![r] = "done"]
  /\ UNCHANGED <<vusb, urbrs, mark, cancelled, can, submitters, controller,
                 forwarder>>

\* The forwarder has one read outstanding at a time.
IoRead(r) ==
  /\ hc = "idle" /\ fwd = "on"
  /\ req[r] \in {"idle", "done"}
  /\ \A q \in Reads : req[q] # "owned"
  /\ \A w \in Urbr : sub_read[w] = NoReq
  /\ ~invalid /\ pending_req_read = NoReq

\* get_partial_urbr: the payload of a command whose header has been read.
ReadPartial(r) ==
  /\ IoRead(r)
  /\ urbr_sent_partial # NoUrbr /\ Unmarks(urbr_sent_partial)
  /\ UnmarkCancelable(urbr_sent_partial)
  /\ req' = [req EXCEPT ![r] = "owned"]
  /\ hc' = "rest" /\ hc_read' = r /\ hc_urbr' = urbr_sent_partial
  /\ UNCHANGED <<vusb, kind, may, mem, seq, at, arrivals, cancelled, can,
                 submitters, hc_ok, forwarder>>

\* The command is being cancelled: its payload is not needed any more.
PartialDropped ==
  IF urbr_sent_partial = NoUrbr
    THEN UNCHANGED <<len_sent_partial, mark, cancelable>>
    ELSE /\ ~Unmarks(urbr_sent_partial)
         /\ UnmarkCancelable(urbr_sent_partial)
         /\ len_sent_partial' = 0

\* Mutant: does not look at the commands that wait.
MutNothingPending == TRUE

\* find_pending_urbr returns NULL.
NothingPending == head_urbr_pending = {}

\* Nothing to send: the read waits.  It may have been cancelled already.
ReadPended(r) ==
  /\ IoRead(r)
  /\ NothingPending
  /\ urbr_sent_partial = NoUrbr \/ ~Unmarks(urbr_sent_partial)
  /\ urbr_sent_partial' = NoUrbr
  /\ len_sent_partial' = IF urbr_sent_partial = NoUrbr THEN len_sent_partial ELSE 0
  /\ cancelable' = [u \in Urb |-> cancelable[u] /\ urbr_sent_partial # SubmitOf(u)]
  /\ \/ /\ pending_req_read' = r
        /\ req' = [req EXCEPT ![r] = "owned"]
        /\ mark' = [mark EXCEPT ![r] = "yes"]
        /\ UNCHANGED fwd
     \/ /\ r \in may
        /\ req' = [req EXCEPT ![r] = "done"]
        /\ fwd' = "off"
        /\ UNCHANGED <<pending_req_read, mark>>
  /\ UNCHANGED <<invalid, lists, seq_num, kind, may, mem, seq, at,
                 arrivals, cancelled, can, submitters, controller, expect, wire>>

\* find_pending_urbr: the head of the pending list, which gets its number.
ReadTake(r) ==
  /\ IoRead(r)
  /\ PartialDropped
  /\ \E w \in head_urbr_pending :
       /\ Oldest(w)
       /\ NextSeqnum(w)
       /\ head_urbr_pending' = head_urbr_pending \ {w}
       /\ urbr_sent_partial' = w
       /\ hc_urbr' = w
  /\ req' = [req EXCEPT ![r] = "owned"]
  /\ hc' = "storing" /\ hc_read' = r
  /\ UNCHANGED <<invalid, pending_req_read, head_urbr, head_urbr_sent, kind,
                 may, mem, at, arrivals, cancelled, can, submitters, hc_ok,
                 forwarder>>

ReadStore ==
  /\ hc = "storing"
  /\ \E len \in Lens :
       /\ hc_ok' = (StoreResult(hc_urbr, len) = "ok")
       /\ len_sent_partial' = LenStored(hc_urbr, len)
  /\ hc' = "stored"
  /\ UNCHANGED <<invalid, pending_req_read, urbr_sent_partial, lists, seq_num,
                 urbrs, reqs, can, submitters, hc_read, hc_urbr, forwarder>>

\* store_urbr_partial copies the payload of an OUT transfer.  A command without
\* a request has none, and the read through its NULL request stops the machine.
ReadStorePartial ==
  /\ hc = "rest"
  /\ HasReq(hc_urbr)
  /\ hc_ok' = (kind[hc_urbr[1]] = "out")
  /\ len_sent_partial' = 0
  /\ hc' = "stored"
  /\ UNCHANGED <<invalid, pending_req_read, urbr_sent_partial, lists, seq_num,
                 urbrs, reqs, can, submitters, hc_read, hc_urbr, forwarder>>

ReadLeave == hc' = "idle" /\ hc_read' = NoReq /\ hc_urbr' = NoUrbr /\ hc_ok' = FALSE

\* All is sent, or the payload is still to be read.
ReadStored ==
  /\ hc = "stored" /\ hc_ok
  /\ IF len_sent_partial = 0
       THEN /\ head_urbr_sent' = head_urbr_sent \cup {hc_urbr}
            /\ urbr_sent_partial' = NoUrbr
       ELSE UNCHANGED <<head_urbr_sent, urbr_sent_partial>>
  /\ CompleteAll({hc_read})
  /\ Received(hc_urbr, len_sent_partial # 0)
  /\ ReadLeave
  /\ UNCHANGED <<invalid, pending_req_read, len_sent_partial, head_urbr,
                 head_urbr_pending, seq_num, urbrs, mark, cancelled, can,
                 submitters>>

\* The command fails, and the read with it.
ReadFailed ==
  /\ hc = "stored" /\ ~hc_ok
  /\ head_urbr' = head_urbr \ {hc_urbr}
  /\ UnmarkCancelable(hc_urbr)
  /\ urbr_sent_partial' = NoUrbr
  /\ IF Unmarks(hc_urbr)
       THEN CompleteAll(ReqOf(hc_urbr) \cup {hc_read}) /\ Free(hc_urbr)
       ELSE CompleteAll({hc_read}) /\ UNCHANGED mem
  /\ expect' = NoUrbr
  /\ ReadLeave
  /\ UNCHANGED <<invalid, pending_req_read, len_sent_partial, head_urbr_pending,
                 head_urbr_sent, seq_num, kind, may, seq, at, arrivals,
                 cancelled, can, submitters, fwd, wire>>
-----------------------------------------------------------------------------
(* Writing: io_write, write_vusb, fetch_urbr                                *)

\* The server answers a command, once.  An answer to a command that is no longer
\* known is ignored; a stalled transfer makes the driver reset the pipe.
IoWrite(w) ==
  /\ hc = "idle" /\ fwd = "on"
  /\ w \in wire
  /\ wire' = wire \ {w}
  /\ \/ /\ invalid \/ \A x \in head_urbr_sent : seq[x] # seq[w]
        /\ UNCHANGED <<lists, mem, sub, hc, hc_urbr>>
     \/ \E x \in head_urbr_sent :
          /\ ~invalid /\ seq[x] = seq[w]
          /\ Unlist(x)
          /\ hc' = "fetched" /\ hc_urbr' = x
          /\ \/ UNCHANGED <<mem, sub>>
             \/ /\ IsUrb(x)
                /\ Allocate(ResetOf(x[1]))
                /\ sub' = [sub EXCEPT ![ResetOf(x[1])] = "enter"]
  /\ UNCHANGED <<invalid, pending_req_read, urbr_sent_partial, len_sent_partial,
                 seq_num, kind, may, seq, at, arrivals, cancelable, reqs,
                 can, sub_read, hc_read, hc_ok, fwd, expect>>

\* fetch_urbr, and the reset it may have submitted, are done.
WriteDone ==
  /\ hc = "fetched"
  /\ ~InSubmit(ResetOf(hc_urbr[1]))
  /\ UnmarkCancelable(hc_urbr)
  /\ IF Unmarks(hc_urbr)
       THEN CompleteAll(ReqOf(hc_urbr)) /\ Free(hc_urbr)
       ELSE UNCHANGED <<req, mem>>
  /\ hc' = "idle" /\ hc_urbr' = NoUrbr
  /\ UNCHANGED <<vusb, kind, may, seq, at, arrivals, cancelled, can,
                 submitters, hc_read, hc_ok, forwarder>>
-----------------------------------------------------------------------------
(* Plugging out: vusb_plugout                                               *)

PlugOut ==
  /\ "plugout" \in may
  /\ hc = "idle" /\ ~invalid
  /\ invalid' = TRUE
  /\ hc' = "invalid"
  /\ UNCHANGED <<pending_req_read, urbr_sent_partial, len_sent_partial, lists,
                 seq_num, urbrs, reqs, can, submitters, hc_read, hc_urbr, hc_ok,
                 forwarder>>

\* abort_pending_req_read
AbortRead ==
  /\ hc = "invalid"
  /\ hc_read' = pending_req_read
  /\ pending_req_read' = NoReq
  /\ hc' = "read"
  /\ UNCHANGED <<invalid, urbr_sent_partial, len_sent_partial, lists, seq_num,
                 urbrs, reqs, can, submitters, hc_urbr, hc_ok, forwarder>>

AbortReadDone ==
  /\ hc = "read"
  /\ mark' = Unmarked({hc_read})
  /\ CompleteAll({hc_read})
  /\ hc_read' = NoReq
  /\ hc' = "urbs"
  /\ UNCHANGED <<vusb, urbrs, cancelled, can, submitters, hc_urbr, hc_ok,
                 forwarder>>

\* abort_all_pending_urbrs, one turn of its loop
AbortUrbr ==
  /\ hc = "urbs"
  /\ \E w \in head_urbr :
       /\ Unlist(w)
       /\ UnmarkCancelable(w)
       /\ IF Unmarks(w)
            THEN CompleteAll(ReqOf(w)) /\ Free(w)
            ELSE UNCHANGED <<req, mem>>
  /\ UNCHANGED <<invalid, pending_req_read, urbr_sent_partial, len_sent_partial,
                 seq_num, kind, may, seq, at, arrivals, cancelled, can,
                 submitters, controller, forwarder>>

AbortDone ==
  /\ hc = "urbs"
  /\ head_urbr = {}
  /\ hc' = "idle"
  /\ UNCHANGED <<vusb, urbrs, reqs, can, submitters, hc_read, hc_urbr, hc_ok,
                 forwarder>>
-----------------------------------------------------------------------------
Submit(w) ==
  \/ SubmitInvalid(w) \/ SubmitPending(w) \/ SubmitCancelled(w) \/ SubmitDirect(w)
  \/ SubmitStore(w) \/ SubmitStored(w) \/ SubmitStoredCancelled(w)
  \/ SubmitFinish(w) \/ SubmitFailed(w)

Read(r) == ReadPartial(r) \/ ReadPended(r) \/ ReadTake(r)

Callback ==
  \/ ReadStore \/ ReadStorePartial \/ ReadStored \/ ReadFailed
  \/ WriteDone
  \/ AbortRead \/ AbortReadDone \/ AbortUrbr \/ AbortDone

Next ==
  \/ \E u \in Urb : InternalDeviceControl(u) \/ EpConfigure(u) \/ CancelUrb(u)
                      \/ UrbrCancelled(u) \/ UrbrCancelledDone(u)
  \/ \E w \in Urbr : Submit(w) \/ IoWrite(w)
  \/ \E r \in Reads : Read(r) \/ ReadRefused(r) \/ CancelRead(r)
                        \/ ReqReadCancelled(r)
  \/ Callback
  \/ PlugOut

Spec == Init /\ [][Next]_vars

(***************************************************************************)
(* A callback that has begun goes on, the forwarder reads again after      *)
(* every completed read and the server answers every command it is sent.   *)
(* Whether anybody submits, cancels or plugs out is not assumed.           *)
(***************************************************************************)
Fairness ==
  /\ \A w \in Urbr : WF_vars(Submit(w)) /\ SF_vars(IoWrite(w))
  /\ \A u \in Urb : WF_vars(UrbrCancelled(u)) /\ WF_vars(UrbrCancelledDone(u))
  /\ \A r \in Reads : SF_vars(ReqReadCancelled(r))
  /\ SF_vars(\E r \in Reads : Read(r))
  /\ WF_vars(Callback)

FairSpec == Spec /\ Fairness
-----------------------------------------------------------------------------
(* Properties                                                               *)

\* What the driver promises to the class drivers.
Service ==
  INSTANCE UrbService WITH
    life <- [u \in Urb |-> IF req[u] = "owned" THEN "held" ELSE req[u]],
    num <- [u \in Urb |-> seq[SubmitOf(u)]],
    last <- seq_num

\* The driver implements UrbService: it completes no request twice, announces
\* none under two numbers and gives no number twice, whatever the endpoint's
\* queue, the controller's queue and the framework do in between.
ServiceSpec == Service!Spec

\* No request is stranded: one that the driver has accepted is in the hands of
\* submit_urbr, of its cancellation or of a callback of the controller's queue,
\* or it is in head_urbr, where the plug-out finds it, and then also where the
\* forwarder or its answer finds it.
NoStrandedUrb ==
  \A u \in Urb : LET w == SubmitOf(u) IN
    req[u] = "owned" =>
      \/ sub[w] \in {"enter", "storing", "ok", "bad", "local"}
      \/ mark[u] = "taken" /\ can[u] # "done"
      \/ hc_urbr = w
      \/ /\ w \in head_urbr
         /\ w \in head_urbr_pending \cup head_urbr_sent \/ urbr_sent_partial = w

\* Nobody may cancel an OUT transfer.
NoCancelledOut == \A u \in Urb \cap may : kind[u] # "out"

\* A command that has its number has not overtaken one that still waits.
NumbersOrdered ==
  \A v, w \in Urbr : at[v] < at[w] /\ seq[w] # 0 => v \notin head_urbr_pending

\* Commands get their numbers in the order in which submit_urbr took them: the
\* shortcut that hands a command to a waiting read never overtakes a queued one,
\* whatever IN transfers and reads are cancelled and whether the device is
\* plugged out.  Not claimed where an OUT transfer may be cancelled, or store_urbr
\* refuses a command: with three requests the first is then cancelled between
\* its header and its payload, and NumbersOrdered fails.
InOrder ==
  NoCancelledOut /\ (\A u \in Urb : kind[u] \in {"in", "out", "select"})
    => NumbersOrdered

\* Every request that the driver accepts is completed in the end, as long as
\* the forwarder keeps reading and the server answering: no command is lost
\* between the lists and no read waits beside it.  (Not so when a request is
\* cancelled or refused while it is handed to a waiting read.)
UrbServed ==
  may = {} /\ (\A u \in Urb : kind[u] \in {"in", "out", "select"}) =>
    \A u \in Urb : req[u] = "owned" ~> req[u] = "done"

\* get_partial_urbr meets a command that is being cancelled: "It's enough to just
\* clear out followings" (vhci_read.c:35), that is, the cancellation and nobody
\* else completes its request.
CompletedOnce == \A u \in Urb : req[u] # "twice"
=============================================================================
