------------------------------ MODULE VhciUrb ------------------------------
(***************************************************************************)
(* The URB queue of one virtual USB device (vpdo) of the WDM driver        *)
(* driver/vhci.                                                            *)
(*                                                                         *)
(* A class driver sends URB IRPs to the vpdo (vhci_internal_ioctl.c).  The *)
(* user-mode forwarder reads them off as USB/IP commands (vhci_read.c) and *)
(* writes the answers back (vhci_write.c).  Any IRP may be cancelled, a    *)
(* pipe may be aborted and the device may be unplugged and removed at any  *)
(* time (usbreq.c, vhci_pnp_remove.c).                                     *)
(*                                                                         *)
(* One step is one critical section of vpdo->lock_urbr, or the code        *)
(* between two of them that other threads can observe.  Code that touches  *)
(* only what its thread owns is joined to the section before it.           *)
(*                                                                         *)
(* A urb_req that has been freed keeps its contents (the lookaside list    *)
(* does not clear it): a thread that still holds a pointer to it goes on   *)
(* with the values it finds there.  That the same memory may be handed out *)
(* again before that is not modelled.                                      *)
(*                                                                         *)
(* The three lists are sets.  head_urbr and head_urbr_sent are searched or *)
(* emptied as a whole; head_urbr_pending is in the order of the arrival    *)
(* numbers that submit_urbr's first critical section gives out.            *)
(***************************************************************************)
EXTENDS Naturals

CONSTANTS
  Urb,          \* URB IRPs the class driver may send
  Reads,        \* read IRPs of the forwarder; one is reused once completed
  NoIrp,        \* the NULL IRP
  Kinds,        \* what the URBs may ask for, a subset of AllKinds
  Pipe,         \* pipes of the device
  PipeOf,       \* the pipe a URB is for
  NoPipe,       \* no pipe
  HdrLens,      \* lengths of the reads that expect a header, a subset of AllLens
  Cancellable,  \* IRPs whose issuer may cancel them
  AbortPipes,   \* pipes the class driver may abort
  MayUnplug     \* whether the device may be unplugged

(***************************************************************************)
(* in:    header-only transfer on a bulk or isochronous pipe               *)
(* out:   transfer with a payload on a bulk or isochronous pipe            *)
(* reset: SYNC_RESET_PIPE_AND_CLEAR_STALL, which also aborts its pipe      *)
(* bad:   a URB that store_urbr refuses (VENDOR_OTHER, wrong pipe type)    *)
(***************************************************************************)
AllKinds == {"in", "out", "reset", "bad"}

\* A read buffer below a header, of exactly a header, or with room for any payload.
AllLens == {"short", "hdr", "full"}

ASSUME ConstantsAssumption ==
  /\ NoIrp \notin Urb \cup Reads
  /\ Urb \cap Reads = {}
  /\ Kinds \subseteq AllKinds
  /\ HdrLens \subseteq AllLens
  /\ PipeOf \in [Urb -> Pipe]
  /\ NoPipe \notin Pipe
  /\ AbortPipes \subseteq Pipe
  /\ Cancellable \subseteq Urb \cup Reads
  /\ MayUnplug \in BOOLEAN

Irp == Urb \cup Reads

\* A urb_req stands for a URB IRP, or for the unlink command of a cancelled one.
Urbr == Urb \X {"submit", "unlink"}
SubmitOf(u) == <<u, "submit">>
UnlinkOf(u) == <<u, "unlink">>
HasIrp(w) == w[2] = "submit"
NoUrbr == <<NoIrp, "none">>

HDR == 48      \* sizeof(struct usbip_header)

VARIABLES
  plugged, pending_read_irp, urbr_sent_partial, len_sent_partial,
  head_urbr, head_urbr_pending, head_urbr_sent, seq_num,  \* the vpdo
  kind,         \* what each URB asks for
  mem,          \* whether a urb_req is allocated
  seq,          \* urbr->seq_num
  seq_unlink,   \* urbr->seq_num_unlink
  at, arrivals, \* the order in which submit_urbr took the urb_reqs
  irp,          \* "idle", "owned" by the driver, "done", or completed "twice"
  rtn,          \* whether an IRP has a cancel routine
  sub, sub_read,          \* submit_urbr: its step, and the read IRP it fills
  rd, rd_len, rd_urbr, rd_ok,  \* vhci_read: its step, length, urb_req, status
  expect,       \* what the forwarder reads next, "hdr" or "payload"
  wr_urbr,      \* vhci_write: the urb_req it found
  can,          \* cancel_urbr, or on_pending_irp_read_cancelled: its step
  abt,          \* the pipe that vhci_ioctl_abort_pipe is about to abort
  rem, rem_irp, rem_urbr  \* invalidate_vpdo: its step and its locals

vpdo == <<plugged, pending_read_irp, urbr_sent_partial, len_sent_partial,
          head_urbr, head_urbr_pending, head_urbr_sent, seq_num>>
urbrs == <<kind, mem, seq, seq_unlink, at, arrivals>>
irps == <<irp, rtn>>
submitters == <<sub, sub_read>>
readers == <<rd, rd_len, rd_urbr, rd_ok, expect>>
remover == <<rem, rem_irp, rem_urbr>>
vars == <<vpdo, urbrs, irps, submitters, readers, wr_urbr, can, abt, remover>>

TypeOK ==
  /\ plugged \in BOOLEAN
  /\ pending_read_irp \in Reads \cup {NoIrp}
  /\ urbr_sent_partial \in Urbr \cup {NoUrbr}
  /\ len_sent_partial \in {0, HDR}
  /\ head_urbr \subseteq Urbr
  /\ head_urbr_pending \subseteq Urbr
  /\ head_urbr_sent \subseteq Urbr
  /\ seq_num \in Nat
  /\ kind \in [Urb -> AllKinds]
  /\ mem \in [Urbr -> {"none", "live", "freed"}]
  /\ seq \in [Urbr -> Nat]
  /\ seq_unlink \in [Urbr -> Nat]
  /\ at \in [Urbr -> Nat]
  /\ arrivals \in Nat
  /\ irp \in [Irp -> {"idle", "owned", "done", "twice"}]
  /\ rtn \in [Irp -> BOOLEAN]
  /\ sub \in [Urbr -> {"idle", "enter", "storing", "ok", "err", "done"}]
  /\ sub_read \in [Urbr -> Reads \cup {NoIrp}]
  /\ rd \in [Reads -> {"idle", "enter", "storing", "rest", "stored", "rested",
                       "failed"}]
  /\ rd_len \in [Reads -> AllLens]
  /\ rd_urbr \in [Reads -> Urbr \cup {NoUrbr}]
  /\ rd_ok \in [Reads -> BOOLEAN]
  /\ expect \in {"hdr", "payload"}
  /\ wr_urbr \in Urbr \cup {NoUrbr}
  /\ can \in [Irp -> {"idle", "taken", "removed", "unlinking", "done"}]
  /\ abt \in Pipe \cup {NoPipe}
  /\ rem \in {"idle", "unplugged", "read", "urbs", "urb", "gone"}
  /\ rem_irp \in Reads \cup {NoIrp}
  /\ rem_urbr \in Urbr \cup {NoUrbr}

Init ==
  /\ plugged = TRUE
  /\ pending_read_irp = NoIrp
  /\ urbr_sent_partial = NoUrbr
  /\ len_sent_partial = 0
  /\ head_urbr = {} /\ head_urbr_pending = {} /\ head_urbr_sent = {}
  /\ seq_num = 0
  /\ kind \in [Urb -> Kinds]
  /\ mem = [w \in Urbr |-> "none"]
  /\ seq = [w \in Urbr |-> 0]
  /\ seq_unlink = [w \in Urbr |-> 0]
  /\ at = [w \in Urbr |-> 0] /\ arrivals = 0
  /\ irp = [i \in Irp |-> "idle"]
  /\ rtn = [i \in Irp |-> FALSE]
  /\ sub = [w \in Urbr |-> "idle"]
  /\ sub_read = [w \in Urbr |-> NoIrp]
  /\ rd = [r \in Reads |-> "idle"]
  /\ rd_len = [r \in Reads |-> "hdr"]
  /\ rd_urbr = [r \in Reads |-> NoUrbr]
  /\ rd_ok = [r \in Reads |-> FALSE]
  /\ expect = "hdr"
  /\ wr_urbr = NoUrbr
  /\ can = [i \in Irp |-> "idle"]
  /\ abt = NoPipe
  /\ rem = "idle" /\ rem_irp = NoIrp /\ rem_urbr = NoUrbr
-----------------------------------------------------------------------------
(* IRPs and urb_reqs                                                        *)

\* IoCompleteRequest
Completed(i) == IF irp[i] = "owned" THEN "done" ELSE "twice"
Complete(i) == irp' = [irp EXCEPT ![i] = Completed(i)]

\* Mutant: completes IRPs whatever IoSetCancelRoutine returned.
MutCompleteUncancelled(S) ==
  /\ irp' = [i \in Irp |-> IF i \in S THEN Completed(i) ELSE irp[i]]
  /\ rtn' = [i \in Irp |-> rtn[i] /\ i \notin S]

\* IoSetCancelRoutine(irp, NULL) on the IRPs of S; those that had one are completed.
CompleteUncancelled(S) ==
  /\ irp' = [i \in Irp |-> IF i \in S /\ rtn[i] THEN Completed(i) ELSE irp[i]]
  /\ rtn' = [i \in Irp |-> rtn[i] /\ i \notin S]

IrpsOf(W) == {u \in Urb : SubmitOf(u) \in W}

\* create_urbr and free_urbr
Allocate(w) == mem' = [mem EXCEPT ![w] = "live"]
Free(W) == mem' = [w \in Urbr |-> IF w \in W THEN "freed" ELSE mem[w]]

\* Mutant: the urb_req is not put into the list of all.
MutEnlist(w) == UNCHANGED head_urbr

\* InsertTailList on head_urbr
Enlist(w) == head_urbr' = head_urbr \cup {w}

\* Mutant: the urb_req that came last.
MutOldest(w) == \A x \in head_urbr_pending : at[x] <= at[w]

\* The head of head_urbr_pending
Oldest(w) == \A x \in head_urbr_pending : at[w] <= at[x]

\* Mutant: the counter of the device is left as it is.
MutNextSeqnum(w) == seq' = [seq EXCEPT ![w] = seq_num + 1] /\ UNCHANGED seq_num

\* urbr->seq_num = next_seqnum(vpdo)
NextSeqnum(w) ==
  /\ seq' = [seq EXCEPT ![w] = seq_num + 1]
  /\ seq_num' = seq_num + 1

\* RemoveEntryListInit on both links of the urb_reqs of W
Unlist(W) ==
  /\ head_urbr' = head_urbr \ W
  /\ head_urbr_pending' = head_urbr_pending \ W
  /\ head_urbr_sent' = head_urbr_sent \ W

-----------------------------------------------------------------------------
(* vhci_ioctl_abort_pipe and store_urbr                                     *)

\* is_port_urbr
IsPortUrbr(w, p) ==
  HasIrp(w) /\ kind[w[1]] \in {"in", "out"} /\ PipeOf[w[1]] = p

AbortPipe(p) ==
  LET W == {w \in head_urbr : IsPortUrbr(w, p)} IN
  /\ Unlist(W)
  /\ Free(W)
  /\ CompleteUncancelled(IrpsOf(W))

\* The command fits the buffer and the URB is one that can be sent.
StoreOk(w, len) == len # "short" /\ (HasIrp(w) => kind[w[1]] # "bad")

\* Mutant: takes any transfer for one with a payload.
MutStoredHdrOnly(w, len) == len = "hdr" /\ HasIrp(w)

\* Only the header was stored, the payload is left for the next read.
StoredHdrOnly(w, len) == len = "hdr" /\ HasIrp(w) /\ kind[w[1]] = "out"

\* len_sent_partial after store_urbr
LenStored(w, len) == IF StoredHdrOnly(w, len) THEN HDR ELSE len_sent_partial

\* store_urbr(read_irp, urbr), outside the lock
StoreUrbr(w, len) ==
  /\ len_sent_partial' = LenStored(w, len)
  /\ IF StoreOk(w, len) /\ HasIrp(w) /\ kind[w[1]] = "reset"
       THEN AbortPipe(PipeOf[w[1]])
       ELSE UNCHANGED <<head_urbr, head_urbr_pending, head_urbr_sent, mem, irps>>
  /\ UNCHANGED <<plugged, pending_read_irp, urbr_sent_partial, seq_num,
                 kind, seq, seq_unlink, at, arrivals>>

\* store_urbr_partial copies the payload of an OUT transfer, all of it or nothing.
StorePartialOk(w, len) == len = "full" /\ kind[w[1]] = "out"

\* What the forwarder reads after a read that returned (part of) command w.
ReadNext(w, partial) == expect' = IF partial THEN "payload" ELSE "hdr"

-----------------------------------------------------------------------------
(* Submitting: vhci_internal_ioctl, submit_urbr_irp, submit_urbr            *)

\* The plugged test and create_urbr, which may find no memory.
InternalIoctl(u) ==
  /\ sub[SubmitOf(u)] = "idle"
  /\ \/ /\ plugged
        /\ irp' = [irp EXCEPT ![u] = "owned"]
        /\ Allocate(SubmitOf(u))
        /\ sub' = [sub EXCEPT ![SubmitOf(u)] = "enter"]
     \/ /\ irp' = [irp EXCEPT ![u] = "done"]
        /\ sub' = [sub EXCEPT ![SubmitOf(u)] = "done"]
        /\ UNCHANGED mem
  /\ UNCHANGED <<vpdo, kind, seq, seq_unlink, at, arrivals, rtn, sub_read,
                 readers, wr_urbr, can, abt, remover>>

Arrive(w) ==
  /\ at' = [at EXCEPT ![w] = arrivals + 1]
  /\ arrivals' = arrivals + 1

\* No read is waiting, or an earlier command is still being transferred.
SubmitPending(w) ==
  /\ sub[w] = "enter"
  /\ urbr_sent_partial # NoUrbr \/ pending_read_irp = NoIrp
  /\ rtn' = IF HasIrp(w) THEN [rtn EXCEPT ![w[1]] = TRUE] ELSE rtn
  /\ head_urbr_pending' = head_urbr_pending \cup {w}
  /\ Enlist(w)
  /\ Arrive(w)
  /\ sub' = [sub EXCEPT ![w] = "done"]
  /\ UNCHANGED <<plugged, pending_read_irp, urbr_sent_partial, len_sent_partial,
                 head_urbr_sent, seq_num, kind, mem, seq, seq_unlink, irp,
                 sub_read, readers, wr_urbr, can, abt, remover>>

\* The waiting read has lost its cancel routine: submit_urbr gives up, its
\* caller frees the urb_req and the URB fails with STATUS_INVALID_PARAMETER.
SubmitReadCancelled(w) ==
  /\ sub[w] = "enter"
  /\ urbr_sent_partial = NoUrbr /\ pending_read_irp # NoIrp
  /\ ~rtn[pending_read_irp]
  /\ pending_read_irp' = NoIrp
  /\ Arrive(w)
  /\ Free({w})
  /\ IF HasIrp(w) THEN Complete(w[1]) ELSE UNCHANGED irp
  /\ sub' = [sub EXCEPT ![w] = "done"]
  /\ UNCHANGED <<plugged, urbr_sent_partial, len_sent_partial, head_urbr,
                 head_urbr_pending, head_urbr_sent, seq_num, kind, seq,
                 seq_unlink, rtn, sub_read, readers, wr_urbr, can, abt, remover>>

\* The waiting read is taken for this command.
SubmitDirect(w) ==
  /\ sub[w] = "enter"
  /\ urbr_sent_partial = NoUrbr /\ pending_read_irp # NoIrp
  /\ rtn[pending_read_irp]
  /\ rtn' = [rtn EXCEPT ![pending_read_irp] = FALSE]
  /\ urbr_sent_partial' = w
  /\ NextSeqnum(w)
  /\ Arrive(w)
  /\ sub_read' = [sub_read EXCEPT ![w] = pending_read_irp]
  /\ sub' = [sub EXCEPT ![w] = "storing"]
  /\ UNCHANGED <<plugged, pending_read_irp, len_sent_partial, head_urbr,
                 head_urbr_pending, head_urbr_sent, kind, mem, seq_unlink, irp,
                 readers, wr_urbr, can, abt, remover>>

SubmitStore(w) ==
  /\ sub[w] = "storing"
  /\ LET len == rd_len[sub_read[w]] IN
     /\ StoreUrbr(w, len)
     /\ sub' = [sub EXCEPT ![w] = IF StoreOk(w, len) THEN "ok" ELSE "err"]
  /\ UNCHANGED <<sub_read, readers, wr_urbr, can, abt, remover>>

\* Second critical section: the URB becomes cancellable, the read completes.
SubmitStored(w) ==
  /\ sub[w] = "ok"
  /\ rtn' = IF HasIrp(w) THEN [rtn EXCEPT ![w[1]] = TRUE] ELSE rtn
  /\ IF len_sent_partial = 0
       THEN /\ urbr_sent_partial' = NoUrbr
            /\ head_urbr_sent' = head_urbr_sent \cup {w}
       ELSE UNCHANGED <<urbr_sent_partial, head_urbr_sent>>
  /\ Enlist(w)
  /\ pending_read_irp' = NoIrp
  /\ Complete(sub_read[w])
  /\ ReadNext(w, len_sent_partial # 0)
  /\ sub_read' = [sub_read EXCEPT ![w] = NoIrp]
  /\ sub' = [sub EXCEPT ![w] = "done"]
  /\ UNCHANGED <<plugged, len_sent_partial, head_urbr_pending, seq_num, urbrs,
                 rd, rd_len, rd_urbr, rd_ok, wr_urbr, can, abt, remover>>

\* Storing failed: the urb_req is freed and the URB fails.
SubmitFailed(w) ==
  /\ sub[w] = "err"
  /\ urbr_sent_partial' = NoUrbr
  /\ Free({w})
  /\ IF HasIrp(w) THEN Complete(w[1]) ELSE UNCHANGED irp
  /\ sub_read' = [sub_read EXCEPT ![w] = NoIrp]
  /\ sub' = [sub EXCEPT ![w] = "done"]
  /\ UNCHANGED <<plugged, pending_read_irp, len_sent_partial, head_urbr,
                 head_urbr_pending, head_urbr_sent, seq_num, kind, seq,
                 seq_unlink, at, arrivals, rtn, readers, wr_urbr, can,
                 abt, remover>>

-----------------------------------------------------------------------------
(* Reading: vhci_read, process_read_irp                                     *)

\* The forwarder asks for a header, or for the payload that it knows to follow.
Read(r) ==
  /\ rd[r] = "idle" /\ irp[r] \in {"idle", "done"}
  /\ IF plugged
       THEN /\ irp' = [irp EXCEPT ![r] = "owned"]
            /\ rd' = [rd EXCEPT ![r] = "enter"]
            /\ \E len \in IF expect = "payload" THEN {"full"} ELSE HdrLens :
                 rd_len' = [rd_len EXCEPT ![r] = len]
       ELSE /\ irp' = [irp EXCEPT ![r] = "done"]
            /\ UNCHANGED <<rd, rd_len>>
  /\ UNCHANGED <<vpdo, urbrs, rtn, submitters, rd_urbr, rd_ok, expect, wr_urbr,
                 can, abt, remover>>

\* Another read is waiting already: STATUS_INVALID_DEVICE_REQUEST.
ReadRefused(r) ==
  /\ rd[r] = "enter"
  /\ pending_read_irp # NoIrp
  /\ Complete(r)
  /\ rd' = [rd EXCEPT ![r] = "idle"]
  /\ UNCHANGED <<vpdo, urbrs, rtn, submitters, rd_len, rd_urbr, rd_ok, expect,
                 wr_urbr, can, abt, remover>>

\* The payload of a command whose header has been read.
ReadPartial(r) ==
  /\ rd[r] = "enter"
  /\ pending_read_irp = NoIrp /\ urbr_sent_partial # NoUrbr
  /\ rd_urbr' = [rd_urbr EXCEPT ![r] = urbr_sent_partial]
  /\ rd' = [rd EXCEPT ![r] = "rest"]
  /\ UNCHANGED <<vpdo, urbrs, irps, submitters, rd_len, rd_ok, expect, wr_urbr,
                 can, abt, remover>>

\* Nothing to send: the read waits, and may be cancelled.
ReadPended(r) ==
  /\ rd[r] = "enter"
  /\ pending_read_irp = NoIrp /\ urbr_sent_partial = NoUrbr
  /\ head_urbr_pending = {}
  /\ pending_read_irp' = r
  /\ rtn' = [rtn EXCEPT ![r] = TRUE]
  /\ rd' = [rd EXCEPT ![r] = "idle"]
  /\ UNCHANGED <<plugged, urbr_sent_partial, len_sent_partial, head_urbr,
                 head_urbr_pending, head_urbr_sent, seq_num, urbrs, irp,
                 submitters, rd_len, rd_urbr, rd_ok, expect, wr_urbr, can, abt,
                 remover>>

\* find_pending_urbr: the head of the pending list, which gets its number.
ReadTake(r) ==
  /\ rd[r] = "enter"
  /\ pending_read_irp = NoIrp /\ urbr_sent_partial = NoUrbr
  /\ \E w \in head_urbr_pending :
       /\ Oldest(w)
       /\ NextSeqnum(w)
       /\ head_urbr_pending' = head_urbr_pending \ {w}
       /\ urbr_sent_partial' = w
       /\ rd_urbr' = [rd_urbr EXCEPT ![r] = w]
  /\ rd' = [rd EXCEPT ![r] = "storing"]
  /\ UNCHANGED <<plugged, pending_read_irp, len_sent_partial, head_urbr,
                 head_urbr_sent, kind, mem, seq_unlink, at, arrivals, irps,
                 submitters, rd_len, rd_ok, expect, wr_urbr, can, abt, remover>>

ReadStore(r) ==
  /\ rd[r] = "storing"
  /\ StoreUrbr(rd_urbr[r], rd_len[r])
  /\ rd_ok' = [rd_ok EXCEPT ![r] = StoreOk(rd_urbr[r], rd_len[r])]
  /\ rd' = [rd EXCEPT ![r] = "stored"]
  /\ UNCHANGED <<submitters, rd_len, rd_urbr, expect, wr_urbr, can, abt, remover>>

\* An unlink has no IRP: reading through its NULL pointer stops the machine.
ReadStorePartial(r) ==
  /\ rd[r] = "rest"
  /\ HasIrp(rd_urbr[r])
  /\ LET ok == StorePartialOk(rd_urbr[r], rd_len[r]) IN
     /\ rd_ok' = [rd_ok EXCEPT ![r] = ok]
     /\ len_sent_partial' = IF ok THEN 0 ELSE len_sent_partial
  /\ rd' = [rd EXCEPT ![r] = "rested"]
  /\ UNCHANGED <<plugged, pending_read_irp, urbr_sent_partial, head_urbr,
                 head_urbr_pending, head_urbr_sent, seq_num, urbrs, irps,
                 submitters, rd_len, rd_urbr, expect, wr_urbr, can, abt, remover>>

\* len_sent_partial in the critical section that follows the transfer.
LenAfter(r) == IF rd[r] = "rested" THEN 0 ELSE len_sent_partial

\* The transfer succeeded: all sent, or the payload is still to be read.
ReadStored(r) ==
  /\ rd[r] \in {"stored", "rested"} /\ rd_ok[r]
  /\ len_sent_partial' = LenAfter(r)
  /\ IF LenAfter(r) = 0
       THEN /\ head_urbr_sent' = head_urbr_sent \cup {rd_urbr[r]}
            /\ urbr_sent_partial' = NoUrbr
       ELSE UNCHANGED <<head_urbr_sent, urbr_sent_partial>>
  /\ Complete(r)
  /\ ReadNext(rd_urbr[r], LenAfter(r) # 0)
  /\ rd_urbr' = [rd_urbr EXCEPT ![r] = NoUrbr]
  /\ rd_ok' = [rd_ok EXCEPT ![r] = FALSE]
  /\ rd' = [rd EXCEPT ![r] = "idle"]
  /\ UNCHANGED <<plugged, pending_read_irp, head_urbr, head_urbr_pending, seq_num,
                 urbrs, rtn, submitters, rd_len, wr_urbr, can,
                 abt, remover>>

\* The transfer failed.  urbr_sent_partial is left as it is.
ReadFail(r) ==
  /\ rd[r] \in {"stored", "rested"} /\ ~rd_ok[r]
  /\ len_sent_partial' = LenAfter(r)
  /\ head_urbr' = head_urbr \ {rd_urbr[r]}
  /\ rd' = [rd EXCEPT ![r] = "failed"]
  /\ UNCHANGED <<plugged, pending_read_irp, urbr_sent_partial, head_urbr_pending,
                 head_urbr_sent, seq_num, urbrs, irps, submitters, rd_len,
                 rd_urbr, rd_ok, expect, wr_urbr, can, abt, remover>>

\* The urb_req is freed, its IRP and then the read are completed.
ReadFailed(r) ==
  /\ rd[r] = "failed"
  /\ Free({rd_urbr[r]})
  /\ LET S == IrpsOf({rd_urbr[r]}) IN
     /\ irp' = [i \in Irp |-> IF i = r \/ (i \in S /\ rtn[i])
                                THEN Completed(i) ELSE irp[i]]
     /\ rtn' = [i \in Irp |-> rtn[i] /\ i \notin S]
  /\ expect' = "hdr"
  /\ rd_urbr' = [rd_urbr EXCEPT ![r] = NoUrbr]
  /\ rd' = [rd EXCEPT ![r] = "idle"]
  /\ UNCHANGED <<vpdo, kind, seq, seq_unlink, at, arrivals, submitters, rd_len,
                 rd_ok, wr_urbr, can, abt, remover>>

-----------------------------------------------------------------------------
(* Writing: vhci_write, process_write_irp                                   *)

\* find_sent_urbr: an answer to a command that is no longer known is ignored.
Write(s) ==
  /\ plugged
  /\ wr_urbr = NoUrbr
  /\ \E w \in head_urbr_sent :
       /\ seq[w] = s
       /\ Unlist({w})
       /\ wr_urbr' = w
  /\ UNCHANGED <<plugged, pending_read_irp, urbr_sent_partial, len_sent_partial,
                 seq_num, urbrs, irps, submitters, readers, can, abt, remover>>

WriteDone ==
  /\ wr_urbr # NoUrbr
  /\ Free({wr_urbr})
  /\ CompleteUncancelled(IrpsOf({wr_urbr}))
  /\ wr_urbr' = NoUrbr
  /\ UNCHANGED <<vpdo, kind, seq, seq_unlink, at, arrivals, submitters, readers,
                 can, abt, remover>>

-----------------------------------------------------------------------------
(* Cancelling: cancel_urbr, on_pending_irp_read_cancelled                   *)

\* IoCancelIrp takes the cancel routine; without one nothing happens.
IoCancelIrp(i) ==
  /\ i \in Cancellable
  /\ irp[i] = "owned" /\ rtn[i]
  /\ rtn' = [rtn EXCEPT ![i] = FALSE]
  /\ can' = [can EXCEPT ![i] = "taken"]
  /\ UNCHANGED <<vpdo, urbrs, irp, submitters, readers, wr_urbr, abt, remover>>

\* remove_cancelled_urbr, its critical section
RemoveCancelledUrbr(u) ==
  /\ can[u] = "taken"
  /\ Unlist({SubmitOf(u)})
  /\ IF urbr_sent_partial = SubmitOf(u)
       THEN urbr_sent_partial' = NoUrbr /\ len_sent_partial' = 0
       ELSE UNCHANGED <<urbr_sent_partial, len_sent_partial>>
  /\ can' = [can EXCEPT ![u] = "removed"]
  /\ UNCHANGED <<plugged, pending_read_irp, seq_num, urbrs, irps, submitters,
                 readers, wr_urbr, abt, remover>>

\* submit_urbr_unlink: without memory there is no unlink command.
SubmitUnlink(u) ==
  /\ can[u] = "removed"
  /\ \/ /\ Allocate(UnlinkOf(u))
        /\ seq_unlink' = [seq_unlink EXCEPT ![UnlinkOf(u)] = seq[SubmitOf(u)]]
        /\ sub' = [sub EXCEPT ![UnlinkOf(u)] = "enter"]
     \/ /\ sub' = [sub EXCEPT ![UnlinkOf(u)] = "done"]
        /\ UNCHANGED <<mem, seq_unlink>>
  /\ can' = [can EXCEPT ![u] = "unlinking"]
  /\ UNCHANGED <<vpdo, kind, seq, at, arrivals, irps, sub_read, readers, wr_urbr,
                 abt, remover>>

\* submit_urbr has returned: free the urb_req and complete the IRP.
CancelUrbrDone(u) ==
  /\ can[u] = "unlinking"
  /\ sub[UnlinkOf(u)] = "done"
  /\ Free({SubmitOf(u)})
  /\ Complete(u)
  /\ can' = [can EXCEPT ![u] = "done"]
  /\ UNCHANGED <<vpdo, kind, seq, seq_unlink, at, arrivals, rtn, submitters,
                 readers, wr_urbr, abt, remover>>

\* The file object names the vpdo only while the device exists.
PendingReadCancelled(r) ==
  /\ can[r] = "taken"
  /\ rem # "gone"
  /\ pending_read_irp' = IF pending_read_irp = r THEN NoIrp ELSE pending_read_irp
  /\ Complete(r)
  /\ can' = [can EXCEPT ![r] = "idle"]
  /\ UNCHANGED <<plugged, urbr_sent_partial, len_sent_partial, head_urbr,
                 head_urbr_pending, head_urbr_sent, seq_num, urbrs, rtn,
                 submitters, readers, wr_urbr, abt, remover>>

-----------------------------------------------------------------------------
(* Aborting a pipe: URB_FUNCTION_ABORT_PIPE                                 *)

AbortPipeEnter(p) ==
  /\ plugged
  /\ abt = NoPipe
  /\ abt' = p
  /\ UNCHANGED <<vpdo, urbrs, irps, submitters, readers, wr_urbr, can, remover>>

AbortPipeLocked ==
  /\ abt # NoPipe
  /\ AbortPipe(abt)
  /\ abt' = NoPipe
  /\ UNCHANGED <<plugged, pending_read_irp, urbr_sent_partial, len_sent_partial,
                 seq_num, kind, seq, seq_unlink, at, arrivals, submitters,
                 readers, wr_urbr, can, remover>>

-----------------------------------------------------------------------------
(* Unplugging and removing: vhub_mark_unplugged_vpdo, invalidate_vpdo       *)

Unplug ==
  /\ MayUnplug
  /\ rem = "idle"
  /\ plugged' = FALSE
  /\ rem' = "unplugged"
  /\ UNCHANGED <<pending_read_irp, urbr_sent_partial, len_sent_partial, head_urbr,
                 head_urbr_pending, head_urbr_sent, seq_num, urbrs, irps,
                 submitters, readers, wr_urbr, can, abt, rem_irp, rem_urbr>>

\* complete_pending_read_irp
RemoveRead ==
  /\ rem = "unplugged"
  /\ rem_irp' = pending_read_irp
  /\ pending_read_irp' = NoIrp
  /\ rem' = "read"
  /\ UNCHANGED <<plugged, urbr_sent_partial, len_sent_partial, head_urbr,
                 head_urbr_pending, head_urbr_sent, seq_num, urbrs, irps,
                 submitters, readers, wr_urbr, can, abt, rem_urbr>>

RemoveReadDone ==
  /\ rem = "read"
  /\ CompleteUncancelled({rem_irp})
  /\ rem_irp' = NoIrp
  /\ rem' = "urbs"
  /\ UNCHANGED <<vpdo, urbrs, submitters, readers, wr_urbr, can, abt,
                 rem_urbr>>

\* complete_pending_irp, one turn of its loop
RemoveUrb ==
  /\ rem = "urbs"
  /\ \E w \in head_urbr :
       /\ Unlist({w})
       /\ rem_urbr' = w
  /\ rem' = "urb"
  /\ UNCHANGED <<plugged, pending_read_irp, urbr_sent_partial, len_sent_partial,
                 seq_num, urbrs, irps, submitters, readers, wr_urbr, can, abt,
                 rem_irp>>

RemoveUrbDone ==
  /\ rem = "urb"
  /\ Free({rem_urbr})
  /\ CompleteUncancelled(IrpsOf({rem_urbr}))
  /\ rem_urbr' = NoUrbr
  /\ rem' = "urbs"
  /\ UNCHANGED <<vpdo, kind, seq, seq_unlink, at, arrivals, submitters, readers,
                 wr_urbr, can, abt, rem_irp>>

\* The list is empty; what follows detaches and deletes the device.
RemoveDone ==
  /\ rem = "urbs"
  /\ head_urbr = {}
  /\ urbr_sent_partial' = NoUrbr
  /\ len_sent_partial' = 0
  /\ head_urbr_sent' = {}
  /\ head_urbr_pending' = {}
  /\ rem' = "gone"
  /\ UNCHANGED <<plugged, pending_read_irp, head_urbr, seq_num, urbrs, irps,
                 submitters, readers, wr_urbr, can, abt, rem_irp, rem_urbr>>

-----------------------------------------------------------------------------
Submit(w) ==
  \/ SubmitPending(w) \/ SubmitReadCancelled(w) \/ SubmitDirect(w)
  \/ SubmitStore(w) \/ SubmitStored(w) \/ SubmitFailed(w)

ProcessRead(r) ==
  \/ ReadRefused(r) \/ ReadPartial(r) \/ ReadPended(r) \/ ReadTake(r)
  \/ ReadStore(r) \/ ReadStorePartial(r) \/ ReadStored(r)
  \/ ReadFail(r) \/ ReadFailed(r)

CancelUrbr(u) ==
  \/ RemoveCancelledUrbr(u) \/ SubmitUnlink(u) \/ CancelUrbrDone(u)

Remove ==
  \/ RemoveRead \/ RemoveReadDone \/ RemoveUrb \/ RemoveUrbDone \/ RemoveDone

Next ==
  \/ \E u \in Urb : InternalIoctl(u) \/ CancelUrbr(u)
  \/ \E w \in Urbr : Submit(w)
  \/ \E r \in Reads : Read(r) \/ ProcessRead(r) \/ PendingReadCancelled(r)
  \/ \E i \in Irp : IoCancelIrp(i)
  \/ \E s \in 1 .. seq_num : Write(s)
  \/ WriteDone
  \/ \E p \in AbortPipes : AbortPipeEnter(p)
  \/ AbortPipeLocked
  \/ Unplug
  \/ Remove

Spec == Init /\ [][Next]_vars

\* The forwarder has a read in the driver.
Reading(r) == irp[r] = "owned" \/ rd[r] # "idle"

(***************************************************************************)
(* The forwarder issues its next read when the last one is completed, the  *)
(* server answers every command, and a thread inside the driver goes on.   *)
(* Whether anybody submits, cancels, aborts or unplugs, or whether a second *)
(* read is issued meanwhile, is not assumed.                               *)
(***************************************************************************)
Fairness ==
  /\ \A w \in Urbr : WF_vars(Submit(w))
  /\ WF_vars(\E r \in Reads : Read(r) /\ \A q \in Reads : ~Reading(q))
  /\ \A r \in Reads : WF_vars(ProcessRead(r)) /\ WF_vars(PendingReadCancelled(r))
  /\ \A u \in Urb : WF_vars(CancelUrbr(u))
  /\ WF_vars(\E s \in 1 .. seq_num : Write(s)) /\ WF_vars(WriteDone)
  /\ WF_vars(AbortPipeLocked)

FairSpec == Spec /\ Fairness
-----------------------------------------------------------------------------
(* Properties                                                               *)

\* An IRP is completed at most once, whoever of the reader, the writer, the
\* submitter, the abort, the removal and the cancel routine gets to it: each
\* completes it only after taking its cancel routine away, or before one is set.
CompletedOnce == \A i \in Irp : irp[i] # "twice"

\* submit_urbr is still in the hands of its caller.
Submitting(w) == sub[w] \in {"enter", "storing", "ok", "err"}

\* A thread has taken the urb_req off head_urbr and will complete its IRP.
Held(w) ==
  \/ wr_urbr = w
  \/ rem_urbr = w
  \/ \E r \in Reads : rd[r] = "failed" /\ rd_urbr[r] = w

\* No URB is stranded: while the device exists, a URB that the driver has
\* accepted is being submitted, is being cancelled, or can be cancelled and is
\* in head_urbr (where abort and removal find it) or in the hands of a thread
\* that completes it.
NoStrandedUrb ==
  \A u \in Urb :
    irp[u] = "owned" /\ rem # "gone" =>
      \/ Submitting(SubmitOf(u))
      \/ can[u] \in {"taken", "removed", "unlinking"}
      \/ rtn[u] /\ (SubmitOf(u) \in head_urbr \/ Held(SubmitOf(u)))

\* Commands get their sequence numbers in the order in which submit_urbr took
\* them: the shortcut that hands a command straight to a waiting read never
\* overtakes one that is queued.
InOrder ==
  \A v, w \in Urbr :
    at[v] < at[w] /\ seq[w] # 0 =>
      /\ v \notin head_urbr_pending
      /\ seq[v] < seq[w]

\* No two commands have the same sequence number, so the answer that vhci_write
\* is given finds the urb_req it answers.
SeqNumsDiffer ==
  \A v, w \in Urbr : seq[v] # 0 /\ seq[v] = seq[w] => v = w

\* What the driver promises to the class drivers.
Service ==
  INSTANCE UrbService WITH
    life <- [u \in Urb |-> IF irp[u] = "owned" THEN "held" ELSE irp[u]],
    num <- [u \in Urb |-> seq[SubmitOf(u)]],
    last <- seq_num

\* The driver implements UrbService: whatever the reader, the writer, an abort,
\* a cancellation and the removal do in between, no URB is completed twice or
\* announced under two numbers, and none is numbered after its completion.
ServiceSpec == Service!Spec

\* The forwarder's reads never overlap.
OneReadAtATime == \A q, r \in Reads : Reading(q) /\ Reading(r) => q = r

\* Every URB that the driver accepts is completed in the end, be it answered,
\* cancelled or failed, as long as the forwarder keeps reading, one read after
\* the other, and the server answering: the queue loses no command between its
\* lists.
UrbServed ==
  []OneReadAtATime => \A u \in Urb : irp[u] = "owned" ~> irp[u] = "done"

\* free_urbr asserts that the urb_req it frees is in no list (usbreq.c:157-158).
FreeUrbrAsserts ==
  [][\A w \in Urbr : mem[w] = "live" /\ mem'[w] = "freed" =>
       w \notin head_urbr' \cup head_urbr_pending' \cup head_urbr_sent']_vars

\* urbr_sent_partial is "a partially transferred urb_req" (vhci_dev.h:177): it
\* is NULL or names a urb_req that has not been freed.
PartialIsLive ==
  urbr_sent_partial # NoUrbr => mem[urbr_sent_partial] = "live"

\* A read IRP that has no cancel routine any more "was cancelled"
\* (usbreq.c:224): one that waits and is not being used is being cancelled.
WaitingReadIsCancellable ==
  \A r \in Reads :
    pending_read_irp = r =>
      \/ rtn[r]
      \/ can[r] = "taken"
      \/ \E w \in Urbr : sub_read[w] = r
=============================================================================
