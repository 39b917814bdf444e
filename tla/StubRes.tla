------------------------------ MODULE StubRes ------------------------------
(***************************************************************************)
(* The queue of results of one exported device in the driver driver/stub.  *)
(*                                                                         *)
(* The forwarder of usbipd writes the client's commands (stub_write.c):    *)
(* control requests are carried out and answered at once, transfers are    *)
(* handed to the USB stack and answered when it completes them, in any     *)
(* order and on any thread (stub_usbd.c), and an unlink cancels such a     *)
(* transfer, as does the USB stack when the pipe below it is reset or      *)
(* closed.  The forwarder reads the results as a stream (stub_res.c).      *)
(* It keeps at most one read and one write outstanding.                    *)
(*                                                                         *)
(* One step is one critical section of lock_stub_res, or the code between  *)
(* two of them.  The USB stack below is external.                          *)
(***************************************************************************)
EXTENDS Naturals, Sequences, FiniteSets

CONSTANTS
  Submits,       \* CMD_SUBMITs the client may send
  NoRes,         \* the NULL stub_res
  Kinds,         \* what they may be, a subset of AllKinds
  HDR,           \* length of a header, in units
  Payloads,      \* payload lengths of the results, in units
  ReadLens,      \* lengths of the forwarder's reads, in units
  MayLackMemory, \* whether an allocation may fail
  MayCancelRead  \* whether the forwarder may cancel its read

(***************************************************************************)
(* data:  a transfer on a bulk, interrupt or isochronous pipe              *)
(* ctrl:  a request answered within the write                              *)
(* reset: one that resets a pipe or selects a configuration or setting     *)
(* unsup: a request for which the driver has no code and no answer         *)
(***************************************************************************)
AllKinds == {"data", "ctrl", "reset", "unsup"}

\* The result of a command, and that of the unlink of one.
RetSubmit(s) == <<s, "submit">>
RetUnlink(s) == <<s, "unlink">>
Res == Submits \X {"submit", "unlink"}

ASSUME ConstantsAssumption ==
  /\ NoRes \notin Res
  /\ Kinds \subseteq AllKinds
  /\ HDR \in Nat \ {0}
  /\ Payloads \subseteq Nat /\ 0 \in Payloads
  /\ ReadLens \subseteq Nat \ {0} /\ ReadLens # {}
  /\ MayLackMemory \in BOOLEAN /\ MayCancelRead \in BOOLEAN

\* Threads that send: the write, the read and the completion of each transfer.
Thread == {"write", "read"} \cup Submits

VARIABLES
  sres_head_pending, sres_head_done, sres_ongoing, len_sent_partial,
  irp_stub_read,  \* whether a read is waiting
  kind,           \* what each command is
  written,        \* commands that have been written
  wr,             \* the write: its step, the command it is about
  wr_ok,          \* what IoCancelIrp returned
  usb,            \* the IRP of a transfer, and do_safe_completion on it
  pay,            \* sres->data_len
  read_irp,       \* the read IRP: "idle", "owned", completed or completed "twice"
  read_len,       \* its length
  read_rtn,       \* whether it has a cancel routine
  read_can,       \* whether that routine has been called
  snd,            \* send_stub_res of each thread: its step and stub_res
  out             \* the units that the forwarder has received

device == <<sres_head_pending, sres_head_done, sres_ongoing, len_sent_partial,
            irp_stub_read>>
writer == <<written, wr, wr_ok>>
reader == <<read_irp, read_len, read_rtn, read_can>>
vars == <<device, kind, writer, usb, pay, reader, snd, out>>

Idle == <<"idle", NoRes>>

TypeOK ==
  /\ sres_head_pending \subseteq Submits
  /\ sres_head_done \in Seq(Res)
  /\ sres_ongoing \in Res \cup {NoRes}
  /\ len_sent_partial \in Nat
  /\ irp_stub_read \in BOOLEAN
  /\ kind \in [Submits -> AllKinds]
  /\ written \subseteq Res
  /\ wr \in ({"idle"} \X {NoRes}) \cup ({"reply", "cancel"} \X Res)
  /\ wr_ok \in [Submits -> BOOLEAN]
  /\ usb \in [Submits -> {"none", "inflight", "marked", "cancelled", "reply",
                          "dropped", "replied", "freed"}]
  /\ pay \in [Res -> Nat]
  /\ read_irp \in {"idle", "owned", "done", "twice"}
  /\ read_len \in Nat
  /\ read_rtn \in BOOLEAN /\ read_can \in BOOLEAN
  /\ snd \in [Thread -> ({"idle"} \X {NoRes}) \cup ({"store", "more", "last",
                                                     "saved", "freed"} \X Res)]
  /\ out \in Seq(Res \X Nat)

Init ==
  /\ sres_head_pending = {} /\ sres_head_done = <<>>
  /\ sres_ongoing = NoRes /\ len_sent_partial = 0
  /\ irp_stub_read = FALSE
  /\ kind \in [Submits -> Kinds]
  /\ written = {} /\ wr = Idle
  /\ wr_ok = [s \in Submits |-> FALSE]
  /\ usb = [s \in Submits |-> "none"]
  /\ pay = [r \in Res |-> 0]
  /\ read_irp = "idle" /\ read_len = 1
  /\ read_rtn = FALSE /\ read_can = FALSE
  /\ snd = [t \in Thread |-> Idle]
  /\ out = <<>>
-----------------------------------------------------------------------------
(* Handing results to reads: stub_res.c                                     *)

\* send_irp_sres, up to the release of the lock; q is the list of done results
SendIrpSres(t, q) ==
  /\ irp_stub_read' = FALSE
  /\ \/ /\ sres_ongoing # NoRes
        /\ snd' = [snd EXCEPT ![t] = <<"store", sres_ongoing>>]
        /\ sres_head_done' = q
     \/ /\ sres_ongoing = NoRes
        /\ snd' = [snd EXCEPT ![t] = <<"store", Head(q)>>]
        /\ sres_head_done' = Tail(q)

\* Mutant: a result that no read waits for is lost.
MutReplyStubReq(t, r) ==
  IF irp_stub_read
    THEN SendIrpSres(t, <<r>>)
    ELSE UNCHANGED <<sres_head_done, irp_stub_read, snd>>

\* reply_stub_req
ReplyStubReq(t, r) ==
  LET q == Append(sres_head_done, r) IN
  IF irp_stub_read
    THEN SendIrpSres(t, q)
    ELSE sres_head_done' = q /\ UNCHANGED <<irp_stub_read, snd>>

\* ReadFileEx of the forwarder: stub_dispatch_read.  It ends here once a thread
\* fills a read that has been completed already.
Read ==
  /\ read_irp \in {"idle", "done"} /\ \A t \in Thread : snd[t] = Idle
  /\ \E n \in ReadLens : read_len' = n
  /\ read_irp' = "owned"
  /\ UNCHANGED <<device, kind, writer, usb, pay, read_rtn, read_can, snd, out>>

\* The read has entered the driver and collect_done_stub_res has not run yet.
Entered == /\ read_irp = "owned" /\ ~irp_stub_read /\ ~read_can
           /\ \A t \in Thread : snd[t] = Idle

\* Mutant: forgets the result that has been sent in part.
MutNothingToSend == sres_head_done = <<>>

NothingToSend == sres_ongoing = NoRes /\ sres_head_done = <<>>

\* collect_done_stub_res: the read waits, or is sent what there is
CollectDoneStubRes ==
  /\ Entered
  /\ \/ /\ NothingToSend
        /\ irp_stub_read' = TRUE
        /\ read_rtn' = TRUE
        /\ UNCHANGED <<sres_head_done, snd>>
     \/ /\ ~NothingToSend
        /\ SendIrpSres("read", sres_head_done)
        /\ UNCHANGED read_rtn
  /\ UNCHANGED <<sres_head_pending, sres_ongoing, len_sent_partial, kind, writer,
                 usb, pay, read_irp, read_len, read_can, out>>

\* Units of result r that are left to send.
Left(r) == HDR + pay[r] - len_sent_partial

\* How many of them fit into the read.
Fit(r) == IF Left(r) <= read_len THEN Left(r) ELSE read_len

\* send_stub_res: fill the buffer of the read
SendStore(t) ==
  /\ snd[t][1] = "store"
  /\ LET r == snd[t][2] IN
     /\ out' = out \o [k \in 1 .. Fit(r) |-> <<r, len_sent_partial + k>>]
     /\ len_sent_partial' = len_sent_partial + Fit(r)
     /\ snd' = [snd EXCEPT ![t] = <<IF Fit(r) < Left(r) THEN "more" ELSE "last", r>>]
  /\ UNCHANGED <<sres_head_pending, sres_head_done, sres_ongoing, irp_stub_read,
                 kind, writer, usb, pay, reader>>

\* Mutant: a result that has been sent to its end stays the ongoing one.
MutOngoingSaved(t) == IF snd[t][1] = "more" THEN snd[t][2] ELSE sres_ongoing

\* sres_ongoing after save_pending_sres
OngoingSaved(t) == IF snd[t][1] = "more" THEN snd[t][2] ELSE NoRes

\* save_pending_sres, its critical section; all sent means free_stub_res before
SavePendingSres(t) ==
  /\ snd[t][1] \in {"more", "last"}
  /\ sres_ongoing' = OngoingSaved(t)
  /\ snd' = [snd EXCEPT ![t] = <<IF @[1] = "more" THEN "saved" ELSE "freed", @[2]>>]
  /\ UNCHANGED <<sres_head_pending, sres_head_done, len_sent_partial,
                 irp_stub_read, kind, writer, usb, pay, reader, out>>

\* Mutant: the length of what was sent is not reset.
MutLenSaved(t) == len_sent_partial

\* len_sent_partial after save_pending_sres
LenSaved(t) == IF snd[t][1] = "freed" THEN 0 ELSE len_sent_partial

\* The rest of save_pending_sres, and the read is completed.
SendDone(t) ==
  /\ snd[t][1] \in {"saved", "freed"}
  /\ len_sent_partial' = LenSaved(t)
  /\ read_irp' = IF read_irp = "owned" THEN "done" ELSE "twice"
  /\ read_rtn' = FALSE
  /\ snd' = [snd EXCEPT ![t] = Idle]
  /\ UNCHANGED <<sres_head_pending, sres_head_done, sres_ongoing, irp_stub_read,
                 kind, writer, usb, pay, read_len, read_can, out>>

Send(t) == SendStore(t) \/ SavePendingSres(t) \/ SendDone(t)

\* IoCancelIrp on the read: takes its cancel routine and calls it.
CancelRead ==
  /\ MayCancelRead
  /\ read_irp = "owned" /\ read_rtn
  /\ read_rtn' = FALSE /\ read_can' = TRUE
  /\ UNCHANGED <<device, kind, writer, usb, pay, read_irp, read_len, snd, out>>

\* on_irp_read_cancelled completes the read, be it the waiting one or not.
OnIrpReadCancelled ==
  /\ read_can
  /\ irp_stub_read' = FALSE
  /\ read_irp' = IF read_irp = "owned" THEN "done" ELSE "twice"
  /\ read_can' = FALSE
  /\ UNCHANGED <<sres_head_pending, sres_head_done, sres_ongoing,
                 len_sent_partial, kind, writer, usb, pay, read_len, read_rtn, snd,
                 out>>
-----------------------------------------------------------------------------
(* Writing commands: stub_write.c, stub_usbd.c                              *)

\* The forwarder writes again once its last write has returned.
CanWrite(r) ==
  /\ wr = Idle /\ snd["write"] = Idle
  /\ r \notin written

\* A transfer: add_pending_stub_res and IoCallDriver, or an error to report
\* (no such pipe, no memory).
WriteData(s) ==
  /\ CanWrite(RetSubmit(s)) /\ kind[s] = "data"
  /\ written' = written \cup {RetSubmit(s)}
  /\ \/ /\ sres_head_pending' = sres_head_pending \cup {s}
        /\ usb' = [usb EXCEPT ![s] = "inflight"]
        /\ UNCHANGED wr
     \/ /\ wr' = <<"reply", RetSubmit(s)>>
        /\ UNCHANGED <<sres_head_pending, usb>>
  /\ UNCHANGED <<sres_head_done, sres_ongoing, len_sent_partial, irp_stub_read,
                 kind, wr_ok, pay, reader, snd, out>>

\* A control request, carried out by the USB stack while the write waits.
WriteControl(s) ==
  /\ CanWrite(RetSubmit(s)) /\ kind[s] = "ctrl"
  /\ written' = written \cup {RetSubmit(s)}
  /\ wr' = <<"reply", RetSubmit(s)>>
  /\ \E n \in Payloads : pay' = [pay EXCEPT ![RetSubmit(s)] = n]
  /\ UNCHANGED <<device, kind, wr_ok, usb, reader, snd, out>>

\* What the USB stack still has to complete.
InStack == {s \in Submits : usb[s] \in {"inflight", "marked"}}

\* A request for which the USB stack cancels transfers, those on the pipes that it
\* resets or closes; it answers without data, and so does one that fails.
WriteReset(s) ==
  /\ CanWrite(RetSubmit(s)) /\ kind[s] = "reset"
  /\ written' = written \cup {RetSubmit(s)}
  /\ wr' = <<"reply", RetSubmit(s)>>
  /\ \E C \in SUBSET InStack :
       usb' = [x \in Submits |-> IF x \in C THEN "cancelled" ELSE usb[x]]
  /\ UNCHANGED <<device, kind, wr_ok, pay, reader, snd, out>>

WriteUnsupported(s) ==
  /\ CanWrite(RetSubmit(s)) /\ kind[s] = "unsup"
  /\ written' = written \cup {RetSubmit(s)}
  /\ UNCHANGED <<device, kind, wr, wr_ok, usb, pay, reader, snd, out>>

\* An unlink: cancel_pending_stub_res finds the IRP of the transfer, or not.
WriteUnlink(s) ==
  /\ CanWrite(RetUnlink(s)) /\ RetSubmit(s) \in written
  /\ written' = written \cup {RetUnlink(s)}
  /\ wr' = <<IF s \in sres_head_pending THEN "cancel" ELSE "reply", RetUnlink(s)>>
  /\ UNCHANGED <<device, kind, wr_ok, usb, pay, reader, snd, out>>

(***************************************************************************)
(* IoCancelIrp, after the lock was released.  It returns TRUE if it called *)
(* the cancel routine of the USB stack, which then completes the IRP as    *)
(* cancelled.  Else the IRP is marked and may be completed as cancelled    *)
(* later, or the stack is done with it or about to be (it may even have    *)
(* been freed).                                                            *)
(***************************************************************************)
IoCancelIrp(s) ==
  /\ wr = <<"cancel", RetUnlink(s)>>
  /\ \/ /\ usb[s] = "inflight"
        /\ usb' = [usb EXCEPT ![s] = "cancelled"]
        /\ wr_ok' = [wr_ok EXCEPT ![s] = TRUE]
     \/ /\ usb[s] = "inflight"
        /\ usb' = [usb EXCEPT ![s] = "marked"]
        /\ UNCHANGED wr_ok
     \/ /\ usb[s] # "inflight"
        /\ UNCHANGED <<usb, wr_ok>>
  /\ wr' = <<"reply", RetUnlink(s)>>
  /\ UNCHANGED <<device, kind, written, pay, reader, snd, out>>

\* The write's answer; without memory for it there is none.
WriteReply ==
  /\ wr[1] = "reply"
  /\ \/ ReplyStubReq("write", wr[2])
     \/ /\ MayLackMemory
        /\ UNCHANGED <<sres_head_done, irp_stub_read, snd>>
  /\ wr' = Idle
  /\ UNCHANGED <<sres_head_pending, sres_ongoing, len_sent_partial, kind, written,
                 wr_ok, usb, pay, reader, out>>

\* Mutant: answers a transfer whether or not it was cancelled.
MutDropped(s) == FALSE

\* The transfer was cancelled: "just drop it".
Dropped(s) == usb[s] = "cancelled"

\* do_safe_completion: del_pending_stub_res; the status decides what follows.
DelPendingStubRes(s) ==
  /\ usb[s] \in {"inflight", "marked", "cancelled"}
  /\ sres_head_pending' = sres_head_pending \ {s}
  /\ \/ /\ ~Dropped(s)
        /\ usb' = [usb EXCEPT ![s] = "reply"]
        /\ \E n \in Payloads : pay' = [pay EXCEPT ![RetSubmit(s)] = n]
     \/ /\ Dropped(s) \/ usb[s] = "marked"
        /\ usb' = [usb EXCEPT ![s] = "dropped"]
        /\ UNCHANGED pay
  /\ UNCHANGED <<sres_head_done, sres_ongoing, len_sent_partial, irp_stub_read,
                 kind, writer, reader, snd, out>>

\* done_bulk_intr_transfer, done_iso_transfer
DoneTransfer(s) ==
  /\ usb[s] = "reply"
  /\ ReplyStubReq(s, RetSubmit(s))
  /\ usb' = [usb EXCEPT ![s] = "replied"]
  /\ UNCHANGED <<sres_head_pending, sres_ongoing, len_sent_partial, kind, writer,
                 pay, reader, out>>

\* IoFreeIrp, the last thing do_safe_completion does
IoFreeIrp(s) ==
  /\ usb[s] \in {"replied", "dropped"} /\ snd[s] = Idle
  /\ usb' = [usb EXCEPT ![s] = "freed"]
  /\ UNCHANGED <<device, kind, writer, pay, reader, snd, out>>

Completion(s) == DelPendingStubRes(s) \/ DoneTransfer(s) \/ IoFreeIrp(s)
-----------------------------------------------------------------------------
Next ==
  \/ Read \/ CollectDoneStubRes \/ CancelRead \/ OnIrpReadCancelled
  \/ \E t \in Thread : Send(t)
  \/ \E s \in Submits :
       \/ WriteData(s) \/ WriteControl(s) \/ WriteReset(s)
       \/ WriteUnsupported(s) \/ WriteUnlink(s)
       \/ IoCancelIrp(s) \/ Completion(s)
  \/ WriteReply

Spec == Init /\ [][Next]_vars

(***************************************************************************)
(* The forwarder keeps reading, the USB stack completes every transfer and *)
(* a thread inside the driver goes on.                                     *)
(***************************************************************************)
Fairness ==
  /\ WF_vars(Read) /\ WF_vars(CollectDoneStubRes) /\ WF_vars(OnIrpReadCancelled)
  /\ \A t \in Thread : WF_vars(Send(t))
  /\ \A s \in Submits : WF_vars(IoCancelIrp(s)) /\ WF_vars(Completion(s))
  /\ WF_vars(WriteReply)

FairSpec == Spec /\ Fairness
-----------------------------------------------------------------------------
(* Properties                                                               *)

\* A read waits only while there is nothing to send: no answer sleeps in the
\* list, or half sent, behind a waiting read.  This is also why the assertion
\* of collect_done_stub_res holds (stub_res.c:275).
WaitsForNothing ==
  irp_stub_read => sres_ongoing = NoRes /\ sres_head_done = <<>>

\* The forwarder receives whole results one after the other: every unit comes
\* right behind the unit before it of the same result, and a result starts only
\* behind the end of another, however many threads send and however the reads
\* cut the stream.
Framed ==
  \A k \in 1 .. Len(out) :
    LET r == out[k][1] IN
    IF out[k][2] = 1
      THEN k = 1 \/ out[k - 1][2] = HDR + pay[out[k - 1][1]]
      ELSE k > 1 /\ out[k - 1] = <<r, out[k][2] - 1>>

Sent(r) == \E k \in 1 .. Len(out) : out[k][1] = r

\* No result is sent twice.
SentOnce ==
  \A j, k \in 1 .. Len(out) : out[j] = out[k] => j = k

\* A command is not both answered and reported as unlinked (RET_UNLINK with
\* status 0): the client completes its URB once.
UnlinkedIsSilent ==
  \A s \in Submits : wr_ok[s] => ~Sent(RetSubmit(s))

\* The client gets the result of every transfer that the USB stack was given,
\* unless it has unlinked it, or the stack has cancelled it for another request,
\* or completing a read twice has stopped the machine.
TransferAnswered ==
  \A s \in Submits :
    usb[s] = "inflight" ~>
      \/ Sent(RetSubmit(s)) \/ RetUnlink(s) \in written
      \/ usb[s] = "cancelled" \/ read_irp = "twice"

\* The same without the second exception does not hold: a transfer on a pipe that is
\* reset, or closed by a selection, ends cancelled and is dropped without an answer.
ResetAnswered ==
  \A s \in Submits :
    usb[s] = "inflight" ~>
      Sent(RetSubmit(s)) \/ RetUnlink(s) \in written \/ read_irp = "twice"

\* "cancelled IRP does not match with devstub read irp" (stub_res.c:230) is an
\* error: the cancel routine is only called for the read that waits.
CancelledMatches == read_can => irp_stub_read
=============================================================================
