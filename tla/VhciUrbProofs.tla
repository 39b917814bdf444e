--------------------------- MODULE VhciUrbProofs ---------------------------
(***************************************************************************)
(* Proofs about the URB queue of VhciUrb, for any set of URBs and reads.   *)
(***************************************************************************)
EXTENDS VhciUrb, TLAPS

\* A reader past process_read_irp's first critical section holds a urb_req.
ReadHasUrbr ==
  \A r \in Reads : rd[r] \notin {"idle", "enter"} => rd_urbr[r] \in Urbr

TypeInv == TypeOK /\ ReadHasUrbr

\* A URB IRP belongs to its submitter, then to whoever takes its cancel routine.
UrbOwned ==
  \A u \in Urb :
    /\ irp[u] # "twice"
    /\ sub[SubmitOf(u)] = "idle" => irp[u] = "idle" /\ ~rtn[u] /\ can[u] = "idle"
    /\ Submitting(SubmitOf(u)) => irp[u] = "owned" /\ ~rtn[u] /\ can[u] = "idle"
    /\ rtn[u] => irp[u] = "owned" /\ can[u] = "idle"
    /\ can[u] \in {"taken", "removed", "unlinking"} => irp[u] = "owned"
    /\ can[u] \notin {"unlinking", "done"} => sub[UnlinkOf(u)] = "idle"

\* A read IRP belongs to its reader, or to the submitter that fills it, or to
\* its cancel routine, or it waits with a cancel routine.
ReadOwned ==
  \A r \in Reads :
    /\ irp[r] # "twice"
    /\ rd[r] # "idle" => irp[r] = "owned" /\ ~rtn[r] /\ can[r] # "taken"
    /\ rtn[r] => irp[r] = "owned" /\ can[r] # "taken"
    /\ can[r] = "taken" => irp[r] = "owned"
    /\ \A w \in Urbr : sub_read[w] = r =>
         irp[r] = "owned" /\ ~rtn[r] /\ can[r] # "taken" /\ rd[r] = "idle"

\* A submitter fills a read exactly while it stores, and no two the same.
SubReads ==
  /\ \A w \in Urbr : sub_read[w] # NoIrp <=> sub[w] \in {"storing", "ok", "err"}
  /\ \A v, w \in Urbr : sub_read[v] = sub_read[w] /\ sub_read[v] # NoIrp => v = w

OwnInv == UrbOwned /\ ReadOwned /\ SubReads

\* complete_pending_irp holds one urb_req at a time.
RemHolds == rem # "urb" => rem_urbr = NoUrbr

\* Arrival and sequence numbers given out so far.
Numbered ==
  \A w \in Urbr :
    /\ at[w] <= arrivals
    /\ seq[w] <= seq_num
    /\ sub[w] \in {"idle", "enter"} => at[w] = 0 /\ seq[w] = 0
    /\ w \in head_urbr_pending => at[w] # 0 /\ seq[w] = 0
    /\ seq[w] # 0 => at[w] # 0
    /\ \A v \in Urbr : at[v] = at[w] /\ at[v] # 0 => v = w

\* While a cancellable read waits there is nothing to send.
WaitingReadIdle ==
  pending_read_irp # NoIrp /\ rtn[pending_read_irp] =>
    urbr_sent_partial = NoUrbr /\ head_urbr_pending = {}

\* Facts about urb_req identities that every proof below uses.
LEMMA UrbrFacts ==
  /\ NoUrbr \notin Urbr
  /\ \A u \in Urb : SubmitOf(u) \in Urbr /\ UnlinkOf(u) \in Urbr
  /\ \A u \in Urb : SubmitOf(u) # UnlinkOf(u) /\ HasIrp(SubmitOf(u))
                    /\ ~HasIrp(UnlinkOf(u)) /\ SubmitOf(u)[1] = u
  /\ \A w \in Urbr : w[1] \in Urb /\ (HasIrp(w) => w = SubmitOf(w[1]))
                     /\ (~HasIrp(w) => w = UnlinkOf(w[1]))
  /\ \A u, v \in Urb : SubmitOf(u) # UnlinkOf(v)
  /\ \A u, v \in Urb : SubmitOf(u) = SubmitOf(v) => u = v
  /\ \A u, v \in Urb : UnlinkOf(u) = UnlinkOf(v) => u = v
  BY ConstantsAssumption DEF NoUrbr, Urbr, SubmitOf, UnlinkOf, HasIrp

\* IrpsOf yields URB IRPs.
LEMMA IrpsOfFact == \A W : IrpsOf(W) \subseteq Urb
  BY DEF IrpsOf

\* The types of identities, all that the type invariant needs of them.
LEMMA TypeFacts ==
  /\ \A u \in Urb : u \in Irp /\ SubmitOf(u) \in Urbr /\ UnlinkOf(u) \in Urbr
  /\ \A r \in Reads : r \in Irp
  /\ \A w \in Urbr : w[1] \in Urb /\ w[1] \in Irp
  /\ AbortPipes \subseteq Pipe
  /\ Kinds \subseteq AllKinds
  /\ HdrLens \subseteq AllLens
  BY ConstantsAssumption DEF Urbr, SubmitOf, UnlinkOf, Irp

\* What vhci_ioctl_abort_pipe leaves behind has its type.
LEMMA AbortType ==
  ASSUME TypeOK, NEW p, AbortPipe(p)
  PROVE  /\ head_urbr' \subseteq Urbr
         /\ head_urbr_pending' \subseteq Urbr
         /\ head_urbr_sent' \subseteq Urbr
         /\ mem' \in [Urbr -> {"none", "live", "freed"}]
         /\ irp' \in [Irp -> {"idle", "owned", "done", "twice"}]
         /\ rtn' \in [Irp -> BOOLEAN]
  BY DEF TypeOK, AbortPipe, Unlist, Free, CompleteUncancelled, Completed

\* What store_urbr changes has its type.
LEMMA StoreType ==
  ASSUME TypeOK, NEW w, NEW len, StoreUrbr(w, len)
  PROVE  /\ len_sent_partial' \in {0, HDR}
         /\ head_urbr' \subseteq Urbr
         /\ head_urbr_pending' \subseteq Urbr
         /\ head_urbr_sent' \subseteq Urbr
         /\ mem' \in [Urbr -> {"none", "live", "freed"}]
         /\ irp' \in [Irp -> {"idle", "owned", "done", "twice"}]
         /\ rtn' \in [Irp -> BOOLEAN]
<1>1. len_sent_partial' \in {0, HDR}
  BY DEF StoreUrbr, LenStored, TypeOK
<1>2. \/ AbortPipe(PipeOf[w[1]])
      \/ UNCHANGED <<head_urbr, head_urbr_pending, head_urbr_sent, mem, irps>>
  BY DEF StoreUrbr
<1>3. CASE AbortPipe(PipeOf[w[1]])
  BY <1>1, <1>3, AbortType
<1>4. CASE UNCHANGED <<head_urbr, head_urbr_pending, head_urbr_sent, mem, irps>>
  BY <1>1, <1>4 DEF TypeOK, irps
<1> QED BY <1>2, <1>3, <1>4

\* The type invariant: every action leaves every variable in its type.
LEMMA TypeStep == TypeInv /\ [Next]_vars => TypeOK'
<1> SUFFICES ASSUME TypeOK, ReadHasUrbr, [Next]_vars PROVE TypeOK'
  BY DEF TypeInv
<1> USE TypeFacts DEF TypeOK, Completed, Complete, CompleteUncancelled,
        Allocate, Free, Enlist, Unlist, NextSeqnum, Arrive, urbrs, irps, vpdo,
        submitters, readers, remover
<1>1. ASSUME NEW u \in Urb, InternalIoctl(u) PROVE TypeOK'
  <2>1. irp' \in [Irp -> {"idle", "owned", "done", "twice"}]
    BY <1>1 DEF InternalIoctl
  <2>2. mem' \in [Urbr -> {"none", "live", "freed"}]
    BY <1>1 DEF InternalIoctl
  <2>3. sub' \in [Urbr -> {"idle", "enter", "storing", "ok", "err", "done"}]
    BY <1>1 DEF InternalIoctl
  <2> QED BY <1>1, <2>1, <2>2, <2>3 DEF InternalIoctl
<1>2. ASSUME NEW u \in Urb, CancelUrbr(u) PROVE TypeOK'
  <2>1. CASE RemoveCancelledUrbr(u)
    BY <2>1 DEF RemoveCancelledUrbr
  <2>2. CASE SubmitUnlink(u)
    <3>1. mem' \in [Urbr -> {"none", "live", "freed"}]
      BY <2>2 DEF SubmitUnlink
    <3>2. seq_unlink' \in [Urbr -> Nat]
      BY SMTT(30), <2>2 DEF SubmitUnlink
    <3>3. sub' \in [Urbr -> {"idle", "enter", "storing", "ok", "err", "done"}]
      BY <2>2 DEF SubmitUnlink
    <3> QED BY <2>2, <3>1, <3>2, <3>3 DEF SubmitUnlink
  <2>3. CASE CancelUrbrDone(u)
    BY <2>3 DEF CancelUrbrDone
  <2> QED BY <1>2, <2>1, <2>2, <2>3 DEF CancelUrbr
<1>3. ASSUME NEW w \in Urbr, Submit(w) PROVE TypeOK'
  <2>1. CASE SubmitPending(w)
    BY <2>1 DEF SubmitPending
  <2>2. CASE SubmitReadCancelled(w)
    <3>1. irp' \in [Irp -> {"idle", "owned", "done", "twice"}]
      BY <2>2 DEF SubmitReadCancelled
    <3>2. /\ mem' \in [Urbr -> {"none", "live", "freed"}]
          /\ sub' \in [Urbr -> {"idle", "enter", "storing", "ok", "err", "done"}]
      BY <2>2 DEF SubmitReadCancelled
    <3>3. at' \in [Urbr -> Nat] /\ arrivals' \in Nat
      BY <2>2 DEF SubmitReadCancelled
    <3> QED BY <2>2, <3>1, <3>2, <3>3 DEF SubmitReadCancelled
  <2>3. CASE SubmitDirect(w)
    BY <2>3 DEF SubmitDirect
  <2>4. CASE SubmitStore(w)
    <3>1. StoreUrbr(w, rd_len[sub_read[w]])
      BY <2>4 DEF SubmitStore
    <3>2. sub' \in [Urbr -> {"idle", "enter", "storing", "ok", "err", "done"}]
      BY <2>4 DEF SubmitStore
    <3> QED BY <2>4, <3>1, <3>2, StoreType DEF SubmitStore, StoreUrbr
  <2>5. CASE SubmitStored(w)
    BY ZenonT(60), <2>5 DEF SubmitStored, ReadNext
  <2>6. CASE SubmitFailed(w)
    BY <2>6 DEF SubmitFailed
  <2> QED BY <1>3, <2>1, <2>2, <2>3, <2>4, <2>5, <2>6 DEF Submit
<1>4. ASSUME NEW r \in Reads, Read(r) PROVE TypeOK'
  <2>1. irp' \in [Irp -> {"idle", "owned", "done", "twice"}]
    BY SMTT(30), <1>4 DEF Read
  <2>2. rd_len' \in [Reads -> AllLens]
    BY <1>4 DEF Read, AllLens
  <2>3. rd' \in [Reads -> {"idle", "enter", "storing", "rest", "stored", "rested",
                           "failed"}]
    BY <1>4 DEF Read
  <2> QED BY <1>4, <2>1, <2>2, <2>3 DEF Read
<1>5. ASSUME NEW r \in Reads, ProcessRead(r) PROVE TypeOK'
  <2>1. CASE ReadRefused(r)
    BY <2>1 DEF ReadRefused
  <2>2. CASE ReadPartial(r)
    BY <2>2 DEF ReadPartial
  <2>3. CASE ReadPended(r)
    BY <2>3 DEF ReadPended
  <2>4. CASE ReadTake(r)
    BY <2>4 DEF ReadTake
  <2>5. CASE ReadStore(r)
    <3>1. StoreUrbr(rd_urbr[r], rd_len[r])
      BY <2>5 DEF ReadStore
    <3>2. StoreOk(rd_urbr[r], rd_len[r]) \in BOOLEAN
      BY DEF StoreOk
    <3>3. rd_ok' \in [Reads -> BOOLEAN]
      BY <2>5, <3>2 DEF ReadStore
    <3> QED BY <2>5, <3>1, <3>3, StoreType DEF ReadStore, StoreUrbr
  <2>6. CASE ReadStorePartial(r)
    BY <2>6 DEF ReadStorePartial, StorePartialOk
  <2>7. CASE ReadStored(r)
    <3>1. LenAfter(r) \in {0, HDR}
      BY DEF LenAfter
    <3>2. expect' \in {"hdr", "payload"}
      BY <2>7 DEF ReadStored, ReadNext
    <3>3. head_urbr_sent' \subseteq Urbr /\ urbr_sent_partial' \in Urbr \cup {NoUrbr}
      <4>1. CASE LenAfter(r) = 0
        <5>1. rd_urbr[r] \in Urbr
          BY <2>7 DEF ReadStored, ReadHasUrbr
        <5> QED BY <2>7, <4>1, <5>1 DEF ReadStored
      <4>2. CASE LenAfter(r) # 0
        BY <2>7, <4>2 DEF ReadStored
      <4> QED BY <4>1, <4>2
    <3> QED BY <2>7, <3>1, <3>2, <3>3 DEF ReadStored
  <2>8. CASE ReadFail(r)
    BY <2>8 DEF ReadFail, LenAfter
  <2>9. CASE ReadFailed(r)
    BY <2>9 DEF ReadFailed
  <2> QED BY <1>5, <2>1, <2>2, <2>3, <2>4, <2>5, <2>6, <2>7, <2>8, <2>9
          DEF ProcessRead
<1>6. ASSUME NEW r \in Reads, PendingReadCancelled(r) PROVE TypeOK'
  BY <1>6 DEF PendingReadCancelled
<1>7. ASSUME NEW i \in Irp, IoCancelIrp(i) PROVE TypeOK'
  BY <1>7 DEF IoCancelIrp
<1>8. ASSUME NEW s \in 1 .. seq_num, Write(s) PROVE TypeOK'
  BY <1>8 DEF Write
<1>9. CASE WriteDone
  BY <1>9 DEF WriteDone
<1>10. ASSUME NEW p \in AbortPipes, AbortPipeEnter(p) PROVE TypeOK'
  BY <1>10 DEF AbortPipeEnter
<1>11. CASE AbortPipeLocked
  BY <1>11 DEF AbortPipeLocked, AbortPipe
<1>12. CASE Unplug
  BY <1>12 DEF Unplug
<1>13. CASE Remove
  <2>1. CASE RemoveRead
    BY <2>1 DEF RemoveRead
  <2>2. CASE RemoveReadDone
    BY <2>2 DEF RemoveReadDone
  <2>3. CASE RemoveUrb
    BY <2>3 DEF RemoveUrb
  <2>4. CASE RemoveUrbDone
    BY <2>4 DEF RemoveUrbDone
  <2>5. CASE RemoveDone
    BY <2>5 DEF RemoveDone
  <2> QED BY <1>13, <2>1, <2>2, <2>3, <2>4, <2>5 DEF Remove
<1>14. CASE UNCHANGED vars
  BY <1>14 DEF vars
<1> QED
  BY <1>1, <1>2, <1>3, <1>4, <1>5, <1>6, <1>7, <1>8, <1>9, <1>10, <1>11, <1>12,
     <1>13, <1>14 DEF Next

\* Only the steps of process_read_irp change what a reader holds.
LEMMA ReadHasUrbrStep == TypeInv /\ [Next]_vars => ReadHasUrbr'
<1> SUFFICES ASSUME TypeOK, ReadHasUrbr, [Next]_vars PROVE ReadHasUrbr'
  BY DEF TypeInv
<1> USE DEF ReadHasUrbr, TypeOK
<1>1. ASSUME NEW r \in Reads, Read(r) \/ ProcessRead(r) PROVE ReadHasUrbr'
  BY <1>1 DEF Read, ProcessRead, ReadRefused, ReadPartial, ReadPended, ReadTake,
              ReadStore, ReadStorePartial, ReadStored, ReadFail, ReadFailed, readers
<1>2. CASE UNCHANGED <<rd, rd_urbr>>
  BY <1>2
<1>3. (\E r \in Reads : Read(r) \/ ProcessRead(r)) \/ UNCHANGED <<rd, rd_urbr>>
  BY DEF Next, vars, readers, InternalIoctl, CancelUrbr, RemoveCancelledUrbr,
         SubmitUnlink, CancelUrbrDone, Submit, SubmitPending, SubmitReadCancelled,
         SubmitDirect, SubmitStore, SubmitStored, SubmitFailed,
         PendingReadCancelled, IoCancelIrp, Write, WriteDone, AbortPipeEnter,
         AbortPipeLocked, Unplug, Remove, RemoveRead, RemoveReadDone, RemoveUrb,
         RemoveUrbDone, RemoveDone
<1> QED BY <1>1, <1>2, <1>3

\* Every variable keeps its type, and readers hold urb_reqs.
LEMMA TypeInvariant == Spec => []TypeInv
<1>1. Init => TypeInv
  BY ConstantsAssumption DEF Init, TypeInv, TypeOK, ReadHasUrbr, AllLens
<1>2. TypeInv /\ [Next]_vars => TypeInv'
  BY TypeStep, ReadHasUrbrStep DEF TypeInv
<1> QED BY <1>1, <1>2, PTL DEF Spec

\* Type correctness of the URB queue.
THEOREM TypeCorrect == Spec => []TypeOK
<1>1. TypeInv => TypeOK
  BY DEF TypeInv
<1> QED BY <1>1, TypeInvariant, PTL

-----------------------------------------------------------------------------
(* No IRP is completed twice                                                *)

\* What distinguishes the IRPs and the urb_reqs.
LEMMA Distinct ==
  /\ \A u \in Urb : u \in Irp /\ u \notin Reads
  /\ \A r \in Reads : r \in Irp /\ r \notin Urb /\ r # NoIrp
  /\ \A u \in Urb : SubmitOf(u) \in Urbr /\ UnlinkOf(u) \in Urbr
  /\ \A u, v \in Urb : SubmitOf(u) # UnlinkOf(v)
  /\ \A u, v \in Urb : SubmitOf(u) = SubmitOf(v) => u = v
  /\ \A u, v \in Urb : UnlinkOf(u) = UnlinkOf(v) => u = v
  /\ \A w \in Urbr : w[1] \in Urb
  /\ \A w \in Urbr : HasIrp(w) => w = SubmitOf(w[1])
  /\ \A w \in Urbr, u \in Urb : ~HasIrp(w) => w # SubmitOf(u)
  BY ConstantsAssumption, UrbrFacts DEF Irp

\* The types that ownership is about.
OwnTypes ==
  /\ pending_read_irp \in Reads \cup {NoIrp}
  /\ irp \in [Irp -> {"idle", "owned", "done", "twice"}]
  /\ rtn \in [Irp -> BOOLEAN]
  /\ sub \in [Urbr -> {"idle", "enter", "storing", "ok", "err", "done"}]
  /\ sub_read \in [Urbr -> Reads \cup {NoIrp}]
  /\ rd \in [Reads -> {"idle", "enter", "storing", "rest", "stored", "rested",
                       "failed"}]
  /\ can \in [Irp -> {"idle", "taken", "removed", "unlinking", "done"}]

\* A step settles IRPs: it completes only owned ones whose cancel routine it
\* takes away.
Settles ==
  \A i \in Irp :
    /\ rtn'[i] => rtn[i] /\ irp'[i] = irp[i]
    /\ ~rtn[i] => irp'[i] = irp[i]
    /\ irp[i] = "owned" => irp'[i] \in {"owned", "done"}

LEMMA UncancelledSettles ==
  ASSUME OwnTypes, NEW S, CompleteUncancelled(S)
  PROVE  Settles
  BY DEF OwnTypes, CompleteUncancelled, Completed, Settles

LEMMA UnchangedSettles ==
  ASSUME OwnTypes, UNCHANGED irps
  PROVE  Settles
  BY DEF OwnTypes, irps, Settles

\* A step that settles IRPs and moves no thread into or out of an owning state.
LEMMA SettlesOwned ==
  ASSUME OwnTypes, OwnTypes', OwnInv, Settles, UNCHANGED <<can, sub_read>>,
         \A w \in Urbr : /\ Submitting(w)' <=> Submitting(w)
                         /\ sub'[w] = "idle" <=> sub[w] = "idle"
                         /\ sub'[w] = "enter" <=> sub[w] = "enter",
         \A r \in Reads : rd'[r] = "idle" <=> rd[r] = "idle"
  PROVE  OwnInv'
<1>1. UrbOwned'
  BY Distinct DEF OwnTypes, OwnInv, UrbOwned, Settles, Submitting
<1>2. ReadOwned'
  BY Distinct DEF OwnTypes, OwnInv, ReadOwned, Settles
<1>3. SubReads'
  BY Distinct DEF OwnTypes, OwnInv, SubReads, Submitting
<1> QED BY <1>1, <1>2, <1>3 DEF OwnInv

\* Who owns an IRP: preserved by every action.
LEMMA OwnStep == TypeInv /\ TypeInv' /\ OwnInv /\ [Next]_vars => OwnInv'
<1> SUFFICES ASSUME TypeInv, TypeInv', OwnInv, [Next]_vars PROVE OwnInv'
  OBVIOUS
<1>t. OwnTypes /\ OwnTypes'
  BY DEF TypeInv, TypeOK, OwnTypes
<1> USE Distinct, <1>t
<1>1. ASSUME NEW u \in Urb, InternalIoctl(u) PROVE OwnInv'
  <2>1. UrbOwned'
    BY <1>1 DEF InternalIoctl, OwnTypes, OwnInv, UrbOwned, Submitting
  <2>2. ReadOwned' /\ SubReads'
    BY <1>1 DEF InternalIoctl, OwnTypes, OwnInv, ReadOwned, SubReads, readers
  <2> QED BY <2>1, <2>2 DEF OwnInv
<1>2. ASSUME NEW u \in Urb, CancelUrbr(u) PROVE OwnInv'
  <2>1. CASE RemoveCancelledUrbr(u)
    BY <2>1 DEF RemoveCancelledUrbr, OwnTypes, OwnInv, UrbOwned, ReadOwned,
                SubReads, Submitting, irps, submitters, readers
  <2>2. CASE SubmitUnlink(u)
    <3>1. UrbOwned'
      BY <2>2 DEF SubmitUnlink, OwnTypes, OwnInv, UrbOwned, Submitting, irps
    <3>2. ReadOwned' /\ SubReads'
      BY SMTT(30), <2>2 DEF SubmitUnlink, OwnTypes, OwnInv, UrbOwned, ReadOwned, SubReads,
                  readers, irps
    <3> QED BY <3>1, <3>2 DEF OwnInv
  <2>3. CASE CancelUrbrDone(u)
    <3>1. UrbOwned'
      BY <2>3 DEF CancelUrbrDone, Complete, Completed, OwnTypes, OwnInv, UrbOwned,
                  Submitting, submitters
    <3>2. ReadOwned' /\ SubReads'
      BY <2>3 DEF CancelUrbrDone, Complete, OwnTypes, OwnInv, ReadOwned, SubReads,
                  readers, submitters
    <3> QED BY <3>1, <3>2 DEF OwnInv
  <2> QED BY <1>2, <2>1, <2>2, <2>3 DEF CancelUrbr
<1>3. ASSUME NEW w \in Urbr, Submit(w) PROVE OwnInv'
  <2>1. CASE SubmitPending(w)
    <3>1. UrbOwned'
      BY <2>1 DEF SubmitPending, OwnTypes, OwnInv, UrbOwned, Submitting
    <3>2. ReadOwned' /\ SubReads'
      BY <2>1 DEF SubmitPending, OwnTypes, OwnInv, ReadOwned, SubReads, readers
    <3> QED BY <3>1, <3>2 DEF OwnInv
  <2>2. CASE SubmitReadCancelled(w)
    <3>1. UrbOwned'
      BY <2>2 DEF SubmitReadCancelled, Complete, Completed, OwnTypes, OwnInv,
                  UrbOwned, Submitting
    <3>2. ReadOwned' /\ SubReads'
      BY <2>2 DEF SubmitReadCancelled, Complete, OwnTypes, OwnInv, ReadOwned,
                  SubReads, readers
    <3> QED BY <3>1, <3>2 DEF OwnInv
  <2>3. CASE SubmitDirect(w)
    <3>1. UrbOwned'
      BY <2>3 DEF SubmitDirect, OwnTypes, OwnInv, UrbOwned, Submitting
    <3>2. ReadOwned'
      BY <2>3 DEF SubmitDirect, OwnTypes, OwnInv, ReadOwned, readers
    <3>3. SubReads'
      BY <2>3 DEF SubmitDirect, OwnTypes, OwnInv, ReadOwned, SubReads
    <3> QED BY <3>1, <3>2, <3>3 DEF OwnInv
  <2>4. CASE SubmitStore(w)
    <3>1. Settles
      BY <2>4, UncancelledSettles, UnchangedSettles DEF SubmitStore, StoreUrbr,
         AbortPipe
    <3>2. \A x \in Urbr : /\ Submitting(x)' <=> Submitting(x)
                          /\ sub'[x] = "idle" <=> sub[x] = "idle"
                          /\ sub'[x] = "enter" <=> sub[x] = "enter"
      BY <2>4 DEF SubmitStore, Submitting, OwnTypes
    <3> QED BY <2>4, <3>1, <3>2, SettlesOwned DEF SubmitStore, readers
  <2>5. CASE SubmitStored(w)
    <3>1. sub_read[w] \in Reads /\ irp[sub_read[w]] = "owned"
      BY <2>5 DEF SubmitStored, OwnTypes, OwnInv, ReadOwned, SubReads
    <3>2. UrbOwned'
      BY <2>5, <3>1 DEF SubmitStored, Complete, OwnTypes, OwnInv, UrbOwned, Submitting
    <3>3. ReadOwned'
      BY <2>5, <3>1 DEF SubmitStored, Complete, Completed, OwnTypes, OwnInv,
                        ReadOwned, SubReads
    <3>4. SubReads'
      BY <2>5 DEF SubmitStored, OwnTypes, OwnInv, SubReads
    <3> QED BY <3>2, <3>3, <3>4 DEF OwnInv
  <2>6. CASE SubmitFailed(w)
    <3>1. UrbOwned'
      BY <2>6 DEF SubmitFailed, Complete, Completed, OwnTypes, OwnInv, UrbOwned,
                  Submitting
    <3>2. ReadOwned'
      BY <2>6 DEF SubmitFailed, Complete, OwnTypes, OwnInv, ReadOwned, readers
    <3>3. SubReads'
      BY <2>6 DEF SubmitFailed, OwnTypes, OwnInv, SubReads
    <3> QED BY <3>1, <3>2, <3>3 DEF OwnInv
  <2> QED BY <1>3, <2>1, <2>2, <2>3, <2>4, <2>5, <2>6 DEF Submit
<1>4. ASSUME NEW r \in Reads, Read(r) PROVE OwnInv'
  <2>1. UrbOwned' /\ SubReads'
    BY <1>4 DEF Read, OwnTypes, OwnInv, UrbOwned, SubReads, Submitting, submitters
  <2>2. ReadOwned'
    BY <1>4 DEF Read, OwnTypes, OwnInv, ReadOwned, submitters
  <2> QED BY <2>1, <2>2 DEF OwnInv
<1>5. ASSUME NEW r \in Reads, ProcessRead(r) PROVE OwnInv'
  <2>1. CASE ReadRefused(r)
    <3>1. UrbOwned' /\ SubReads'
      BY <2>1 DEF ReadRefused, Complete, OwnTypes, OwnInv, UrbOwned, SubReads,
                  Submitting, submitters
    <3>2. ReadOwned'
      BY <2>1 DEF ReadRefused, Complete, Completed, OwnTypes, OwnInv, ReadOwned,
                  submitters
    <3> QED BY <3>1, <3>2 DEF OwnInv
  <2>2. CASE ReadPended(r)
    <3>1. UrbOwned' /\ SubReads'
      BY <2>2 DEF ReadPended, OwnTypes, OwnInv, UrbOwned, SubReads, Submitting,
                  submitters
    <3>2. ReadOwned'
      BY <2>2 DEF ReadPended, OwnTypes, OwnInv, ReadOwned, submitters
    <3> QED BY <3>1, <3>2 DEF OwnInv
  <2>3. CASE ReadPartial(r) \/ ReadTake(r) \/ ReadStorePartial(r) \/ ReadFail(r)
    <3>1. UNCHANGED <<irps, sub, sub_read, can>>
      BY <2>3 DEF ReadPartial, ReadTake, ReadStorePartial, ReadFail, submitters
    <3>2. \A x \in Reads : rd'[x] = "idle" <=> rd[x] = "idle"
      BY <2>3 DEF ReadPartial, ReadTake, ReadStorePartial, ReadFail, OwnTypes
    <3>3. Settles
      BY <3>1, UnchangedSettles
    <3> QED BY <3>1, <3>2, <3>3, SettlesOwned DEF Submitting
  <2>4. CASE ReadStore(r)
    <3>1. Settles
      BY <2>4, UncancelledSettles, UnchangedSettles DEF ReadStore, StoreUrbr,
         AbortPipe
    <3>2. UNCHANGED <<sub, sub_read, can>>
      BY <2>4 DEF ReadStore, submitters
    <3>3. \A x \in Reads : rd'[x] = "idle" <=> rd[x] = "idle"
      BY <2>4 DEF ReadStore, OwnTypes
    <3> QED BY <3>1, <3>2, <3>3, SettlesOwned DEF Submitting
  <2>5. CASE ReadStored(r)
    <3>1. UrbOwned' /\ SubReads'
      BY <2>5 DEF ReadStored, Complete, OwnTypes, OwnInv, UrbOwned, SubReads,
                  Submitting, submitters
    <3>2. ReadOwned'
      BY <2>5 DEF ReadStored, Complete, Completed, OwnTypes, OwnInv, ReadOwned,
                  submitters
    <3> QED BY <3>1, <3>2 DEF OwnInv
  <2>6. CASE ReadFailed(r)
    <3>1. IrpsOf({rd_urbr[r]}) \subseteq Urb
      BY IrpsOfFact
    <3>2. UNCHANGED <<sub, sub_read, can>>
      BY <2>6 DEF ReadFailed, submitters
    <3>3. \A u \in Urb : /\ rtn'[u] => rtn[u] /\ irp'[u] = irp[u]
                         /\ ~rtn[u] => irp'[u] = irp[u]
                         /\ irp[u] = "owned" => irp'[u] \in {"owned", "done"}
      BY ZenonT(60), <2>6, <3>1 DEF ReadFailed, Completed, OwnTypes
    <3>4. UrbOwned'
      BY <3>2, <3>3 DEF OwnTypes, OwnInv, UrbOwned, Submitting
    <3>5. ReadOwned' /\ SubReads'
      BY <2>6, <3>1, <3>2 DEF ReadFailed, Completed, OwnTypes, OwnInv, ReadOwned,
                              SubReads
    <3> QED BY <3>4, <3>5 DEF OwnInv
  <2> QED BY <1>5, <2>1, <2>2, <2>3, <2>4, <2>5, <2>6 DEF ProcessRead
<1>6. ASSUME NEW r \in Reads, PendingReadCancelled(r) PROVE OwnInv'
  <2>1. UrbOwned' /\ SubReads'
    BY <1>6 DEF PendingReadCancelled, Complete, OwnTypes, OwnInv, UrbOwned,
                SubReads, Submitting, submitters
  <2>2. ReadOwned'
    BY <1>6 DEF PendingReadCancelled, Complete, Completed, OwnTypes, OwnInv,
                ReadOwned, submitters, readers
  <2> QED BY <2>1, <2>2 DEF OwnInv
<1>7. ASSUME NEW i \in Irp, IoCancelIrp(i) PROVE OwnInv'
  <2>1. UrbOwned' /\ SubReads'
    BY <1>7 DEF IoCancelIrp, OwnTypes, OwnInv, UrbOwned, SubReads, Submitting,
                submitters
  <2>2. ReadOwned'
    BY <1>7 DEF IoCancelIrp, OwnTypes, OwnInv, ReadOwned, submitters, readers
  <2> QED BY <2>1, <2>2 DEF OwnInv
<1>8. CASE Settles /\ UNCHANGED <<sub, sub_read, can, rd>>
  BY <1>8, SettlesOwned DEF Submitting
<1>9. ASSUME NEW s \in 1 .. seq_num, Write(s) PROVE OwnInv'
  BY <1>8, <1>9, UnchangedSettles DEF Write, submitters, readers
<1>10. CASE WriteDone
  BY <1>8, <1>10, UncancelledSettles DEF WriteDone, submitters, readers
<1>11. ASSUME NEW p \in AbortPipes, AbortPipeEnter(p) PROVE OwnInv'
  BY <1>8, <1>11, UnchangedSettles DEF AbortPipeEnter, submitters, readers
<1>12. CASE AbortPipeLocked
  BY <1>8, <1>12, UncancelledSettles DEF AbortPipeLocked, AbortPipe, submitters,
     readers
<1>13. CASE Unplug \/ RemoveRead \/ RemoveUrb \/ RemoveDone
  <2>1. UNCHANGED <<irps, sub, sub_read, can, rd>>
    BY <1>13 DEF Unplug, RemoveRead, RemoveUrb, RemoveDone, submitters, readers
  <2> QED BY <1>8, <2>1, UnchangedSettles
<1>14. CASE RemoveReadDone \/ RemoveUrbDone
  BY <1>8, <1>14, UncancelledSettles DEF RemoveReadDone, RemoveUrbDone, submitters,
     readers
<1>15. CASE UNCHANGED vars
  BY <1>8, <1>15, UnchangedSettles DEF vars, submitters, readers
<1> QED
  BY <1>1, <1>2, <1>3, <1>4, <1>5, <1>6, <1>7, <1>9, <1>10, <1>11, <1>12, <1>13,
     <1>14, <1>15 DEF Next, Remove

\* Ownership of the IRPs, in every reachable state.
LEMMA OwnInvariant == Spec => []OwnInv
<1>1. Init => OwnInv
  BY Distinct DEF Init, OwnInv, UrbOwned, ReadOwned, SubReads, Submitting
<1> QED BY <1>1, TypeInvariant, OwnStep, PTL DEF Spec

\* No IRP is completed twice, however many URBs, reads and pipes there are.
THEOREM NeverCompletedTwice == Spec => []CompletedOnce
<1>1. OwnInv => CompletedOnce
  BY DEF OwnInv, UrbOwned, ReadOwned, CompletedOnce, Irp
<1> QED BY <1>1, OwnInvariant, PTL

-----------------------------------------------------------------------------
(* Commands are numbered in the order of their arrival                      *)

OrderInv == Numbered /\ WaitingReadIdle /\ InOrder /\ SeqNumsDiffer

\* The types that the numbering is about.
NumTypes ==
  /\ pending_read_irp \in Reads \cup {NoIrp}
  /\ urbr_sent_partial \in Urbr \cup {NoUrbr}
  /\ head_urbr_pending \subseteq Urbr
  /\ seq_num \in Nat
  /\ arrivals \in Nat
  /\ at \in [Urbr -> Nat]
  /\ seq \in [Urbr -> Nat]
  /\ rtn \in [Irp -> BOOLEAN]
  /\ sub \in [Urbr -> {"idle", "enter", "storing", "ok", "err", "done"}]

\* A step gives out no number, queues nothing and lets no read begin to wait.
NoNumbers ==
  /\ UNCHANGED <<at, arrivals, seq, seq_num>>
  /\ head_urbr_pending' \subseteq head_urbr_pending
  /\ urbr_sent_partial' \in {urbr_sent_partial, NoUrbr}
  /\ pending_read_irp' \in {pending_read_irp, NoIrp}
  /\ \A r \in Reads : rtn'[r] => rtn[r]
  /\ \A w \in Urbr : sub'[w] \in {"idle", "enter"} => sub[w] \in {"idle", "enter"}

LEMMA NoNumbersOrder ==
  ASSUME NumTypes, NumTypes', OrderInv, NoNumbers
  PROVE  OrderInv'
<1>1. Numbered'
  BY DEF NumTypes, OrderInv, Numbered, NoNumbers
<1>2. WaitingReadIdle'
  BY DEF NumTypes, OrderInv, WaitingReadIdle, NoNumbers
<1>3. InOrder' /\ SeqNumsDiffer'
  BY DEF NumTypes, OrderInv, InOrder, SeqNumsDiffer, NoNumbers
<1> QED BY <1>1, <1>2, <1>3 DEF OrderInv

\* Storing a command, with or without an abort, gives out no number.
LEMMA StoreNoNumbers ==
  ASSUME NumTypes, NEW w, NEW len, StoreUrbr(w, len)
  PROVE  /\ UNCHANGED <<at, arrivals, seq, seq_num, urbr_sent_partial,
                        pending_read_irp>>
         /\ head_urbr_pending' \subseteq head_urbr_pending
         /\ \A r \in Reads : rtn'[r] => rtn[r]
  BY Distinct DEF NumTypes, StoreUrbr, AbortPipe, Unlist, CompleteUncancelled, irps

LEMMA OrderStep ==
  TypeInv /\ TypeInv' /\ OwnInv /\ OrderInv /\ [Next]_vars => OrderInv'
<1> SUFFICES ASSUME TypeInv, TypeInv', OwnInv, OrderInv, [Next]_vars
             PROVE  OrderInv'
  OBVIOUS
<1>t. NumTypes /\ NumTypes'
  BY DEF TypeInv, TypeOK, NumTypes
<1> USE Distinct, <1>t
<1>f. CASE NoNumbers
  BY <1>f, NoNumbersOrder
<1>1. ASSUME NEW u \in Urb, InternalIoctl(u) PROVE OrderInv'
  <2>1. NoNumbers
    BY <1>1 DEF InternalIoctl, NoNumbers, NumTypes, vpdo
  <2> QED BY <2>1, <1>f
<1>2. ASSUME NEW u \in Urb, CancelUrbr(u) PROVE OrderInv'
  <2>1. CASE RemoveCancelledUrbr(u)
    BY <2>1, <1>f DEF RemoveCancelledUrbr, Unlist, NoNumbers, urbrs, irps, submitters
  <2>2. CASE SubmitUnlink(u)
    <3>1. sub[UnlinkOf(u)] = "idle"
      BY <2>2 DEF SubmitUnlink, OwnInv, UrbOwned
    <3>2. NoNumbers
      BY <2>2, <3>1 DEF SubmitUnlink, NoNumbers, NumTypes, vpdo, irps
    <3> QED BY <3>2, <1>f
  <2>3. CASE CancelUrbrDone(u)
    BY <2>3, <1>f DEF CancelUrbrDone, NoNumbers, vpdo, submitters
  <2> QED BY <1>2, <2>1, <2>2, <2>3 DEF CancelUrbr
<1>3. ASSUME NEW w \in Urbr, SubmitPending(w) PROVE OrderInv'
  <2>1. Numbered'
    BY <1>3 DEF SubmitPending, Arrive, NumTypes, OrderInv, Numbered
  <2>2. WaitingReadIdle'
    BY <1>3 DEF SubmitPending, NumTypes, OrderInv, WaitingReadIdle
  <2>3. InOrder' /\ SeqNumsDiffer'
    BY <1>3 DEF SubmitPending, Arrive, NumTypes, OrderInv, Numbered, InOrder,
                SeqNumsDiffer
  <2> QED BY <2>1, <2>2, <2>3 DEF OrderInv
<1>4. ASSUME NEW w \in Urbr, SubmitReadCancelled(w) PROVE OrderInv'
  <2>1. Numbered'
    BY <1>4 DEF SubmitReadCancelled, Arrive, NumTypes, OrderInv, Numbered
  <2>2. WaitingReadIdle'
    BY <1>4 DEF SubmitReadCancelled, WaitingReadIdle
  <2>3. InOrder' /\ SeqNumsDiffer'
    BY <1>4 DEF SubmitReadCancelled, Arrive, NumTypes, OrderInv, Numbered, InOrder,
                SeqNumsDiffer
  <2> QED BY <2>1, <2>2, <2>3 DEF OrderInv
<1>5. ASSUME NEW w \in Urbr, SubmitDirect(w) PROVE OrderInv'
  <2>1. Numbered'
    BY <1>5 DEF SubmitDirect, NextSeqnum, Arrive, NumTypes, OrderInv, Numbered
  <2>2. WaitingReadIdle'
    BY <1>5 DEF SubmitDirect, NumTypes, WaitingReadIdle
  <2>3. head_urbr_pending = {}
    BY <1>5 DEF SubmitDirect, OrderInv, WaitingReadIdle
  <2>4. InOrder'
    BY <1>5, <2>3 DEF SubmitDirect, NextSeqnum, Arrive, NumTypes, OrderInv,
                      Numbered, InOrder
  <2>5. SeqNumsDiffer'
    BY <1>5 DEF SubmitDirect, NextSeqnum, NumTypes, OrderInv, Numbered,
                SeqNumsDiffer
  <2> QED BY <2>1, <2>2, <2>4, <2>5 DEF OrderInv
<1>6. ASSUME NEW w \in Urbr, SubmitStore(w) PROVE OrderInv'
  <2>1. NoNumbers
    BY <1>6, StoreNoNumbers DEF SubmitStore, NoNumbers, NumTypes
  <2> QED BY <2>1, <1>f
<1>7. ASSUME NEW w \in Urbr, SubmitStored(w) \/ SubmitFailed(w) PROVE OrderInv'
  <2>1. NoNumbers
    BY <1>7 DEF SubmitStored, SubmitFailed, NoNumbers, NumTypes, urbrs
  <2> QED BY <2>1, <1>f
<1>8. ASSUME NEW r \in Reads, ReadPended(r) PROVE OrderInv'
  BY <1>8 DEF ReadPended, NumTypes, OrderInv, Numbered, WaitingReadIdle, InOrder,
              SeqNumsDiffer, urbrs, submitters
<1>9. ASSUME NEW r \in Reads, ReadTake(r) PROVE OrderInv'
  <2> PICK w \in head_urbr_pending :
             /\ \A x \in head_urbr_pending : at[w] <= at[x]
             /\ seq' = [seq EXCEPT ![w] = seq_num + 1]
             /\ seq_num' = seq_num + 1
             /\ head_urbr_pending' = head_urbr_pending \ {w}
    BY <1>9 DEF ReadTake, Oldest, NextSeqnum
  <2>1. UNCHANGED <<at, arrivals, sub, rtn, pending_read_irp>>
    BY <1>9 DEF ReadTake, irps, submitters
  <2>2. Numbered'
    BY <2>1 DEF NumTypes, OrderInv, Numbered
  <2>3. WaitingReadIdle'
    BY <1>9, <2>1 DEF ReadTake, WaitingReadIdle
  <2>4. InOrder'
    BY <2>1 DEF NumTypes, OrderInv, Numbered, InOrder
  <2>5. SeqNumsDiffer'
    BY DEF NumTypes, OrderInv, Numbered, SeqNumsDiffer
  <2> QED BY <2>2, <2>3, <2>4, <2>5 DEF OrderInv
<1>10. ASSUME NEW r \in Reads, ReadStore(r) PROVE OrderInv'
  <2>1. NoNumbers
    BY <1>10, StoreNoNumbers DEF ReadStore, NoNumbers, submitters
  <2> QED BY <2>1, <1>f
<1>11. ASSUME NEW r \in Reads,
              \/ Read(r) \/ ReadRefused(r) \/ ReadPartial(r) \/ ReadStorePartial(r)
              \/ ReadStored(r) \/ ReadFail(r) \/ PendingReadCancelled(r)
       PROVE  OrderInv'
  <2>1. NoNumbers
    BY <1>11 DEF Read, ReadRefused, ReadPartial, ReadStorePartial, ReadStored,
                 ReadFail, PendingReadCancelled, NoNumbers, vpdo, urbrs, irps,
                 submitters
  <2> QED BY <2>1, <1>f
<1>12. ASSUME NEW r \in Reads, ReadFailed(r) PROVE OrderInv'
  <2>1. NoNumbers
    BY <1>12 DEF ReadFailed, NoNumbers, NumTypes, vpdo, submitters
  <2> QED BY <2>1, <1>f
<1>13. ASSUME NEW i \in Irp, IoCancelIrp(i) PROVE OrderInv'
  <2>1. NoNumbers
    BY <1>13 DEF IoCancelIrp, NoNumbers, NumTypes, vpdo, urbrs, submitters
  <2> QED BY <2>1, <1>f
<1>14. ASSUME NEW s \in 1 .. seq_num, Write(s) PROVE OrderInv'
  <2>1. NoNumbers
    BY <1>14 DEF Write, Unlist, NoNumbers, urbrs, irps, submitters
  <2> QED BY <2>1, <1>f
<1>15. CASE WriteDone \/ AbortPipeLocked \/ RemoveReadDone \/ RemoveUrbDone
  <2>1. NoNumbers
    BY <1>15 DEF WriteDone, AbortPipeLocked, RemoveReadDone, RemoveUrbDone, AbortPipe,
                 Unlist, CompleteUncancelled, NoNumbers, NumTypes, vpdo, urbrs,
                 submitters
  <2> QED BY <2>1, <1>f
<1>16. CASE Unplug \/ RemoveRead \/ RemoveUrb \/ RemoveDone
  <2>1. NoNumbers
    BY <1>16 DEF Unplug, RemoveRead, RemoveUrb, RemoveDone, Unlist, NoNumbers, urbrs,
                 irps, submitters
  <2> QED BY <2>1, <1>f
<1>17. CASE UNCHANGED vars \/ \E p \in AbortPipes : AbortPipeEnter(p)
  <2>1. NoNumbers
    BY <1>17 DEF vars, AbortPipeEnter, NoNumbers, vpdo, urbrs, irps, submitters
  <2> QED BY <2>1, <1>f
<1> QED
  BY <1>1, <1>2, <1>3, <1>4, <1>5, <1>6, <1>7, <1>8, <1>9, <1>10, <1>11, <1>12,
     <1>13, <1>14, <1>15, <1>16, <1>17 DEF Next, Submit, ProcessRead, Remove

\* What the order of the commands rests on holds throughout.
LEMMA OrderInvariant == Spec => []OrderInv
<1>1. Init => OrderInv
  BY Distinct DEF Init, OrderInv, Numbered, WaitingReadIdle, InOrder, SeqNumsDiffer
<1> QED BY <1>1, TypeInvariant, OwnInvariant, OrderStep, PTL DEF Spec

\* Commands get their sequence numbers in the order of their arrival, and no two
\* the same, for any number of URBs, reads and unlink commands.
THEOREM CommandsInOrder == Spec => [](InOrder /\ SeqNumsDiffer)
<1>1. OrderInv => InOrder /\ SeqNumsDiffer
  BY DEF OrderInv
<1> QED BY <1>1, OrderInvariant, PTL

-----------------------------------------------------------------------------
(* No URB is stranded                                                       *)

StrandInv == NoStrandedUrb /\ RemHolds

\* The types that the whereabouts of a URB are about.
HeldTypes ==
  /\ pending_read_irp \in Reads \cup {NoIrp}
  /\ sub_read \in [Urbr -> Reads \cup {NoIrp}]
  /\ head_urbr \subseteq Urbr
  /\ irp \in [Irp -> {"idle", "owned", "done", "twice"}]
  /\ rtn \in [Irp -> BOOLEAN]
  /\ sub \in [Urbr -> {"idle", "enter", "storing", "ok", "err", "done"}]
  /\ rd \in [Reads -> {"idle", "enter", "storing", "rest", "stored", "rested",
                       "failed"}]
  /\ rd_urbr \in [Reads -> Urbr \cup {NoUrbr}]
  /\ wr_urbr \in Urbr \cup {NoUrbr}
  /\ can \in [Irp -> {"idle", "taken", "removed", "unlinking", "done"}]
  /\ rem_urbr \in Urbr \cup {NoUrbr}

\* A URB that somebody accounts for, as NoStrandedUrb asks.
Accounted(u) ==
  \/ Submitting(SubmitOf(u))
  \/ can[u] \in {"taken", "removed", "unlinking"}
  \/ rtn[u] /\ (SubmitOf(u) \in head_urbr \/ Held(SubmitOf(u)))

\* Completing what it takes off head_urbr, a step strands nobody.
LEMMA CompletesAccounted ==
  ASSUME HeldTypes, OwnInv, NEW W, CompleteUncancelled(IrpsOf(W)),
         \A v \in Urbr : Submitting(v) => Submitting(v)', UNCHANGED can,
         NEW u \in Urb, Accounted(u), irp'[u] = "owned",
         head_urbr' \in {head_urbr, head_urbr \ W},
         SubmitOf(u) \notin W /\ Held(SubmitOf(u)) => Held(SubmitOf(u))'
  PROVE  Accounted(u)'
<1>1. CASE SubmitOf(u) \in W
  <2>1. u \in IrpsOf(W)
    BY <1>1 DEF IrpsOf
  <2>2. ~rtn[u]
    BY <2>1, Distinct DEF CompleteUncancelled, Completed, HeldTypes, OwnInv, UrbOwned
  <2> QED BY <2>2, Distinct DEF Accounted
<1>2. CASE SubmitOf(u) \notin W
  <2>1. rtn'[u] = rtn[u]
    BY <1>2, Distinct DEF CompleteUncancelled, HeldTypes, IrpsOf
  <2> QED BY <1>2, <2>1, Distinct DEF Accounted
<1> QED BY <1>1, <1>2

\* Storing a command strands nobody, even when it aborts a pipe.
LEMMA StoreAccounted ==
  ASSUME HeldTypes, OwnInv, NEW w, NEW len, StoreUrbr(w, len), UNCHANGED can,
         \A v \in Urbr : Submitting(v) => Submitting(v)',
         \A v \in Urbr : Held(v) => Held(v)',
         NEW u \in Urb, irp[u] = "owned" => Accounted(u), irp'[u] = "owned"
  PROVE  Accounted(u)'
<1>1. CASE UNCHANGED <<head_urbr, irps>>
  BY <1>1, Distinct DEF Accounted, irps
<1>2. CASE AbortPipe(PipeOf[w[1]])
  <2>1. PICK W : CompleteUncancelled(IrpsOf(W)) /\ head_urbr' = head_urbr \ W
    BY <1>2 DEF AbortPipe, Unlist
  <2>2. irp[u] = "owned"
    BY <2>1, Distinct DEF CompleteUncancelled, Completed, HeldTypes
  <2> QED BY <2>1, <2>2, CompletesAccounted, Distinct
<1> QED BY <1>1, <1>2 DEF StoreUrbr

LEMMA StrandStep ==
  TypeInv /\ TypeInv' /\ OwnInv /\ StrandInv /\ [Next]_vars => NoStrandedUrb'
<1> SUFFICES ASSUME TypeInv, TypeInv', OwnInv, StrandInv, [Next]_vars,
                    NEW u \in Urb, irp'[u] = "owned", rem' # "gone"
             PROVE  Accounted(u)'
  BY DEF NoStrandedUrb, Accounted
<1>t. HeldTypes /\ HeldTypes'
  BY DEF TypeInv, TypeOK, HeldTypes
<1>a. irp[u] = "owned" /\ rem # "gone" => Accounted(u)
  BY DEF StrandInv, NoStrandedUrb, Accounted
<1> USE Distinct, <1>t
<1>1. ASSUME NEW v \in Urb, InternalIoctl(v) PROVE Accounted(u)'
  BY <1>1, <1>a DEF InternalIoctl, HeldTypes, Accounted, Submitting, Held, vpdo,
     readers, remover
<1>2. ASSUME NEW v \in Urb, CancelUrbr(v) PROVE Accounted(u)'
  <2>1. CASE RemoveCancelledUrbr(v)
    BY <2>1, <1>a DEF RemoveCancelledUrbr, Unlist, HeldTypes, Accounted, Submitting,
       Held, irps, submitters, readers, remover
  <2>2. CASE SubmitUnlink(v)
    BY <2>2, <1>a DEF SubmitUnlink, HeldTypes, Accounted, Submitting, Held, vpdo,
       irps, readers, remover
  <2>3. CASE CancelUrbrDone(v)
    BY <2>3, <1>a DEF CancelUrbrDone, Complete, Completed, HeldTypes, OwnInv,
       UrbOwned, Accounted, Submitting, Held, vpdo, submitters, readers, remover
  <2> QED BY <1>2, <2>1, <2>2, <2>3 DEF CancelUrbr
<1>3. ASSUME NEW w \in Urbr, Submit(w) PROVE Accounted(u)'
  <2>1. CASE SubmitPending(w)
    BY <2>1, <1>a DEF SubmitPending, Enlist, HeldTypes, Accounted, Submitting, Held, readers,
       remover
  <2>2. CASE SubmitReadCancelled(w)
    BY <2>2, <1>a DEF SubmitReadCancelled, Complete, Completed, HeldTypes, OwnInv,
       UrbOwned, Accounted, Submitting, Held, readers, remover
  <2>3. CASE SubmitDirect(w)
    BY <2>3, <1>a DEF SubmitDirect, HeldTypes, Accounted, Submitting, Held, readers,
       remover
  <2>4. CASE SubmitStore(w)
    <3>1. \A v \in Urbr : Submitting(v) => Submitting(v)'
      BY <2>4 DEF SubmitStore, Submitting, HeldTypes
    <3>2. UNCHANGED can /\ \A v \in Urbr : Held(v) => Held(v)'
      BY <2>4 DEF SubmitStore, Held, readers, remover
    <3>3. rem # "gone" /\ StoreUrbr(w, rd_len[sub_read[w]])
      BY <2>4 DEF SubmitStore, remover
    <3> QED BY <3>1, <3>2, <3>3, <1>a, StoreAccounted
  <2>5. CASE SubmitStored(w)
    <3>1. sub_read[w] \in Reads
      BY <2>5 DEF SubmitStored, HeldTypes, OwnInv, SubReads
    <3> QED BY <2>5, <3>1, <1>a DEF SubmitStored, Enlist, Complete, HeldTypes, Accounted,
            Submitting, Held, remover
  <2>6. CASE SubmitFailed(w)
    BY <2>6, <1>a DEF SubmitFailed, Complete, Completed, HeldTypes, OwnInv,
       UrbOwned, Accounted, Submitting, Held, readers, remover
  <2> QED BY <1>3, <2>1, <2>2, <2>3, <2>4, <2>5, <2>6 DEF Submit
<1>4. ASSUME NEW r \in Reads, Read(r) PROVE Accounted(u)'
  BY <1>4, <1>a DEF Read, HeldTypes, Accounted, Submitting, Held, vpdo, submitters,
     remover
<1>5. ASSUME NEW r \in Reads,
             ReadRefused(r) \/ ReadPartial(r) \/ ReadPended(r) \/ ReadTake(r)
      PROVE  Accounted(u)'
  <2>1. irp'[u] = irp[u] /\ rtn'[u] = rtn[u] /\ UNCHANGED <<sub, can, rem, head_urbr>>
    BY <1>5 DEF ReadRefused, ReadPartial, ReadPended, ReadTake, Complete, HeldTypes,
                vpdo, irps, submitters, remover
  <2>2. \A v \in Urbr : Held(v) => Held(v)'
    BY <1>5 DEF ReadRefused, ReadPartial, ReadPended, ReadTake, Held, HeldTypes,
                remover
  <2> QED BY <2>1, <2>2, <1>a DEF Accounted, Submitting
<1>6. ASSUME NEW r \in Reads, ReadStore(r) PROVE Accounted(u)'
  <2>1. \A v \in Urbr : Held(v) => Held(v)'
    BY <1>6 DEF ReadStore, Held, HeldTypes, remover
  <2>2. /\ UNCHANGED <<sub, can>>
        /\ rem # "gone"
        /\ StoreUrbr(rd_urbr[r], rd_len[r])
    BY <1>6 DEF ReadStore, submitters, remover
  <2> QED BY <2>1, <2>2, <1>a, StoreAccounted DEF Submitting
<1>7. ASSUME NEW r \in Reads, ReadStorePartial(r) \/ ReadStored(r) PROVE Accounted(u)'
  <2>1. irp'[u] = irp[u] /\ rtn'[u] = rtn[u] /\ UNCHANGED <<sub, can, rem, head_urbr>>
    BY <1>7 DEF ReadStorePartial, ReadStored, Complete, HeldTypes, irps, submitters,
                remover
  <2>2. \A v \in Urbr : Held(v) => Held(v)'
    BY <1>7 DEF ReadStorePartial, ReadStored, Held, HeldTypes, remover
  <2> QED BY <2>1, <2>2, <1>a DEF Accounted, Submitting
<1>8. ASSUME NEW r \in Reads, ReadFail(r) PROVE Accounted(u)'
  <2>1. UNCHANGED <<irps, sub, can, rem>>
    BY <1>8 DEF ReadFail, submitters, remover
  <2>2. \A v \in Urbr : v \in head_urbr \/ Held(v) => v \in head_urbr' \/ Held(v)'
    BY <1>8 DEF ReadFail, Held, HeldTypes, remover
  <2> QED BY <2>1, <2>2, <1>a DEF Accounted, Submitting, irps
<1>9. ASSUME NEW r \in Reads, ReadFailed(r) PROVE Accounted(u)'
  <2>1. UNCHANGED <<sub, can, rem, head_urbr>>
    BY <1>9 DEF ReadFailed, vpdo, submitters, remover
  <2>2. CASE SubmitOf(u) = rd_urbr[r]
    <3>1. u \in IrpsOf({rd_urbr[r]})
      BY <2>2 DEF IrpsOf
    <3>2. irp[u] = "owned" /\ ~rtn[u]
      BY <1>9, <3>1 DEF ReadFailed, Completed, HeldTypes, OwnInv, UrbOwned
    <3> QED BY <2>1, <3>2, <1>a DEF Accounted, Submitting
  <2>3. CASE SubmitOf(u) # rd_urbr[r]
    <3>1. u \notin IrpsOf({rd_urbr[r]})
      BY <2>3 DEF IrpsOf
    <3>2. irp'[u] = irp[u] /\ rtn'[u] = rtn[u]
      BY <1>9, <3>1 DEF ReadFailed, HeldTypes
    <3>3. Held(SubmitOf(u)) => Held(SubmitOf(u))'
      BY <1>9, <2>3 DEF ReadFailed, Held, HeldTypes, remover
    <3> QED BY <2>1, <3>2, <3>3, <1>a DEF Accounted, Submitting
  <2> QED BY <2>2, <2>3
<1>10. ASSUME NEW r \in Reads, PendingReadCancelled(r) PROVE Accounted(u)'
  BY <1>10, <1>a DEF PendingReadCancelled, Complete, HeldTypes, Accounted,
     Submitting, Held, submitters, readers, remover
<1>11. ASSUME NEW i \in Irp, IoCancelIrp(i) PROVE Accounted(u)'
  BY <1>11, <1>a DEF IoCancelIrp, HeldTypes, Accounted, Submitting, Held, vpdo,
     submitters, readers, remover
<1>12. ASSUME NEW s \in 1 .. seq_num, Write(s) PROVE Accounted(u)'
  <2>1. UNCHANGED <<irps, sub, can, rem>>
    BY <1>12 DEF Write, submitters, remover
  <2>2. \A v \in Urbr : v \in head_urbr \/ Held(v) => v \in head_urbr' \/ Held(v)'
    BY <1>12, UrbrFacts DEF Write, Unlist, Held, HeldTypes, readers, remover
  <2> QED BY <2>1, <2>2, <1>a DEF Accounted, Submitting, irps
<1>13. ASSUME NEW W, CompleteUncancelled(IrpsOf(W)), UNCHANGED <<sub, can>>,
              rem # "gone", head_urbr' \in {head_urbr, head_urbr \ W},
              SubmitOf(u) \notin W /\ Held(SubmitOf(u)) => Held(SubmitOf(u))'
       PROVE  Accounted(u)'
  <2>1. irp[u] = "owned"
    BY <1>13 DEF CompleteUncancelled, Completed, HeldTypes
  <2> QED BY <1>13, <2>1, <1>a, CompletesAccounted DEF Submitting
<1>14. CASE WriteDone
  <2>1. /\ CompleteUncancelled(IrpsOf({wr_urbr}))
        /\ UNCHANGED <<sub, can, rem, head_urbr>>
    BY <1>14 DEF WriteDone, vpdo, submitters, remover
  <2>2. SubmitOf(u) # wr_urbr /\ Held(SubmitOf(u)) => Held(SubmitOf(u))'
    BY <1>14 DEF WriteDone, Held, readers, remover
  <2> QED BY <2>1, <2>2, <1>13
<1>15. CASE AbortPipeLocked
  <2>1. PICK W : CompleteUncancelled(IrpsOf(W)) /\ head_urbr' = head_urbr \ W
    BY <1>15 DEF AbortPipeLocked, AbortPipe, Unlist
  <2>2. UNCHANGED <<sub, can, rem, rd, rd_urbr, wr_urbr, rem_urbr>>
    BY <1>15 DEF AbortPipeLocked, submitters, readers, remover
  <2> QED BY <2>1, <2>2, <1>13 DEF Held
<1>16. CASE RemoveReadDone
  <2>1. CompleteUncancelled({rem_irp}) /\ rem_irp \notin Urb
    BY <1>16, ConstantsAssumption DEF RemoveReadDone, TypeInv, TypeOK
  <2>2. irp'[u] = irp[u] /\ rtn'[u] = rtn[u]
    BY <2>1 DEF CompleteUncancelled, HeldTypes
  <2> QED BY <1>16, <2>2, <1>a DEF RemoveReadDone, Accounted, Submitting, Held,
          vpdo, submitters, readers
<1>17. CASE RemoveUrb
  <2>1. UNCHANGED <<irps, sub, can>> /\ rem # "gone"
    BY <1>17 DEF RemoveUrb, submitters
  <2>2. \A v \in Urbr : v \in head_urbr \/ Held(v) => v \in head_urbr' \/ Held(v)'
    BY <1>17, UrbrFacts DEF RemoveUrb, StrandInv, RemHolds, Unlist, Held, HeldTypes,
                            readers
  <2> QED BY <2>1, <2>2, <1>a DEF Accounted, Submitting, irps
<1>18. CASE RemoveUrbDone
  <2>1. /\ CompleteUncancelled(IrpsOf({rem_urbr})) /\ rem # "gone"
        /\ UNCHANGED <<sub, can, head_urbr>>
    BY <1>18 DEF RemoveUrbDone, vpdo, submitters
  <2>2. SubmitOf(u) # rem_urbr /\ Held(SubmitOf(u)) => Held(SubmitOf(u))'
    BY <1>18 DEF RemoveUrbDone, Held, readers
  <2> QED BY <2>1, <2>2, <1>13
<1>19. CASE RemoveDone
  BY <1>19 DEF RemoveDone
<1>20. CASE \/ Unplug \/ RemoveRead \/ UNCHANGED vars
            \/ \E p \in AbortPipes : AbortPipeEnter(p)
  BY <1>20, <1>a DEF Unplug, RemoveRead, vars, AbortPipeEnter, Accounted, Submitting,
     Held, vpdo, irps, submitters, readers, remover
<1> QED
  BY <1>1, <1>2, <1>3, <1>4, <1>5, <1>6, <1>7, <1>8, <1>9, <1>10, <1>11, <1>12,
     <1>14, <1>15, <1>16, <1>17, <1>18, <1>19, <1>20 DEF Next, ProcessRead, Remove

\* The removing thread lets go of a urb_req before it takes the next.
LEMMA RemHoldsStep == RemHolds /\ [Next]_vars => RemHolds'
<1> SUFFICES ASSUME RemHolds, [Next]_vars PROVE RemHolds'
  OBVIOUS
<1> USE DEF RemHolds
<1>1. CASE Unplug \/ Remove
  BY <1>1 DEF Unplug, Remove, RemoveRead, RemoveReadDone, RemoveUrb, RemoveUrbDone,
              RemoveDone
<1>2. CASE UNCHANGED <<rem, rem_urbr>>
  BY <1>2
<1>3. Unplug \/ Remove \/ UNCHANGED <<rem, rem_urbr>>
  BY ZenonT(60) DEF Next, vars, remover, InternalIoctl, CancelUrbr, RemoveCancelledUrbr,
         SubmitUnlink, CancelUrbrDone, Submit, SubmitPending, SubmitReadCancelled,
         SubmitDirect, SubmitStore, SubmitStored, SubmitFailed, Read, ProcessRead,
         ReadRefused, ReadPartial, ReadPended, ReadTake, ReadStore,
         ReadStorePartial, ReadStored, ReadFail, ReadFailed,
         PendingReadCancelled, IoCancelIrp, Write, WriteDone, AbortPipeEnter,
         AbortPipeLocked
<1> QED BY <1>1, <1>2, <1>3

\* Every URB that the driver has accepted is accounted for until the device is
\* gone, for any number of URBs, reads and pipes.
THEOREM NobodyStranded == Spec => []NoStrandedUrb
<1>1. Init => StrandInv
  BY Distinct DEF Init, StrandInv, NoStrandedUrb, RemHolds
<1>2. TypeInv /\ TypeInv' /\ OwnInv /\ StrandInv /\ [Next]_vars => StrandInv'
  BY StrandStep, RemHoldsStep DEF StrandInv
<1>3. StrandInv => NoStrandedUrb
  BY DEF StrandInv
<1> QED BY <1>1, <1>2, <1>3, TypeInvariant, OwnInvariant, PTL DEF Spec

-----------------------------------------------------------------------------
(* The driver implements UrbService                                         *)

\* Whatever a thread took from the pending list or skipped it with has a number.
SentNumbered ==
  /\ urbr_sent_partial # NoUrbr => seq[urbr_sent_partial] # 0
  /\ wr_urbr # NoUrbr => seq[wr_urbr] # 0
  /\ \A r \in Reads : rd[r] \notin {"idle", "enter"} => seq[rd_urbr[r]] # 0
  /\ \A w \in Urbr : sub[w] \in {"storing", "ok", "err"} => seq[w] # 0

\* What the removal takes from head_urbr has been submitted, and is not pending.
RemovedSubmitted ==
  /\ \A w \in head_urbr : sub[w] = "done"
  /\ rem_urbr # NoUrbr => sub[rem_urbr] = "done" /\ rem_urbr \notin head_urbr_pending

\* A URB that waits for its number has not been completed, nor will it be before
\* it has left the list.
PendingOwned ==
  \A u \in Urb :
    SubmitOf(u) \in head_urbr_pending => irp[u] = "owned" /\ can[u] \in {"idle", "taken"}

NumInv == SentNumbered /\ RemovedSubmitted /\ PendingOwned

\* Once a urb_req has a number it keeps one.
LEMMA SeqKept ==
  ASSUME TypeInv, OwnInv, [Next]_vars
  PROVE  \A w \in Urbr : seq[w] # 0 => seq'[w] # 0
<1> USE DEF TypeInv, TypeOK
<1>1. ASSUME NEW w \in Urbr, NextSeqnum(w) PROVE \A v \in Urbr : seq[v] # 0 => seq'[v] # 0
  BY <1>1 DEF NextSeqnum
<1>2. CASE \E w \in Urbr : SubmitDirect(w)
  BY <1>1, <1>2 DEF SubmitDirect
<1>3. CASE \E r \in Reads : ReadTake(r)
  BY <1>1, <1>3 DEF ReadTake
<1>4. \/ \E w \in Urbr : SubmitDirect(w)
      \/ \E r \in Reads : ReadTake(r)
      \/ UNCHANGED seq
  BY ZenonT(60) DEF Next, vars, urbrs, InternalIoctl, CancelUrbr, RemoveCancelledUrbr,
         SubmitUnlink, CancelUrbrDone, Submit, SubmitPending, SubmitReadCancelled,
         SubmitStore, SubmitStored, SubmitFailed, StoreUrbr, Read, ProcessRead,
         ReadRefused, ReadPartial, ReadPended, ReadStore, ReadStorePartial,
         ReadStored, ReadFail, ReadFailed, PendingReadCancelled, IoCancelIrp, Write,
         WriteDone, AbortPipeEnter, AbortPipeLocked, Unplug, Remove, RemoveRead,
         RemoveReadDone, RemoveUrb, RemoveUrbDone, RemoveDone
<1> QED BY <1>2, <1>3, <1>4

\* A command gets its number in the step that hands it to somebody.
LEMMA SentNumberedStep ==
  TypeInv /\ TypeInv' /\ OwnInv /\ SentNumbered /\ [Next]_vars => SentNumbered'
<1> SUFFICES ASSUME TypeInv, TypeInv', OwnInv, SentNumbered, [Next]_vars
             PROVE  SentNumbered'
  OBVIOUS
<1>k. \A w \in Urbr : seq[w] # 0 => seq'[w] # 0
  BY SeqKept
<1> USE UrbrFacts, <1>k DEF TypeInv, TypeOK, ReadHasUrbr
\* Nothing new is in anybody's hands.
<1>f. CASE /\ urbr_sent_partial' \in {urbr_sent_partial, NoUrbr}
           /\ wr_urbr' \in {wr_urbr, NoUrbr}
           /\ \A r \in Reads : rd'[r] \notin {"idle", "enter"} =>
                rd'[r] # "idle" /\ rd[r] \notin {"idle", "enter"} /\ rd_urbr'[r] = rd_urbr[r]
           /\ \A w \in Urbr : sub'[w] \in {"storing", "ok", "err"} =>
                sub[w] \in {"storing", "ok", "err"}
  BY <1>f DEF SentNumbered
<1>1. ASSUME NEW w \in Urbr, SubmitDirect(w) PROVE SentNumbered'
  BY <1>1 DEF SubmitDirect, NextSeqnum, SentNumbered, readers
<1>2. ASSUME NEW r \in Reads, ReadTake(r) PROVE SentNumbered'
  <2> PICK w \in head_urbr_pending :
        /\ NextSeqnum(w)
        /\ urbr_sent_partial' = w
        /\ rd_urbr' = [rd_urbr EXCEPT ![r] = w]
    BY <1>2 DEF ReadTake
  <2> QED BY <1>2 DEF ReadTake, NextSeqnum, SentNumbered, submitters
<1>3. ASSUME NEW r \in Reads, ReadPartial(r) PROVE SentNumbered'
  BY <1>3 DEF ReadPartial, SentNumbered, vpdo, urbrs, submitters
<1>4. ASSUME NEW s \in 1 .. seq_num, Write(s) PROVE SentNumbered'
  BY <1>4 DEF Write, SentNumbered, urbrs, readers, submitters
<1>5. ASSUME NEW u \in Urb, InternalIoctl(u) \/ CancelUrbr(u) PROVE SentNumbered'
  BY <1>5, <1>f DEF InternalIoctl, CancelUrbr, RemoveCancelledUrbr, SubmitUnlink,
       CancelUrbrDone, vpdo, readers, submitters
<1>6. ASSUME NEW w \in Urbr,
             \/ SubmitPending(w) \/ SubmitReadCancelled(w) \/ SubmitStore(w)
             \/ SubmitStored(w) \/ SubmitFailed(w)
      PROVE  SentNumbered'
  BY <1>6, <1>f DEF SubmitPending, SubmitReadCancelled, SubmitStore, StoreUrbr,
       SubmitStored, SubmitFailed, readers
<1>7. ASSUME NEW r \in Reads,
             \/ Read(r) \/ ReadRefused(r) \/ ReadPended(r) \/ ReadStore(r)
             \/ ReadStorePartial(r) \/ ReadStored(r) \/ ReadFail(r) \/ ReadFailed(r)
             \/ PendingReadCancelled(r)
      PROVE  SentNumbered'
  BY <1>7, <1>f DEF Read, ReadRefused, ReadPended, ReadStore, StoreUrbr,
       ReadStorePartial, ReadStored, ReadFail, ReadFailed, PendingReadCancelled,
       vpdo, readers, submitters
<1>8. CASE \/ \E i \in Irp : IoCancelIrp(i)
           \/ WriteDone \/ AbortPipeLocked \/ Unplug \/ Remove \/ UNCHANGED vars
           \/ \E p \in AbortPipes : AbortPipeEnter(p)
  BY <1>8, <1>f DEF IoCancelIrp, WriteDone, AbortPipeLocked, Unplug, Remove,
       RemoveRead, RemoveReadDone, RemoveUrb, RemoveUrbDone, RemoveDone, vars,
       AbortPipeEnter, vpdo, readers, submitters
<1> QED
  BY <1>1, <1>2, <1>3, <1>4, <1>5, <1>6, <1>7, <1>8 DEF Next, Submit, ProcessRead

\* submit_urbr returns once.
LEMMA SubmittedKept ==
  ASSUME TypeInv, OwnInv, [Next]_vars
  PROVE  \A w \in Urbr : sub[w] = "done" => sub'[w] = "done"
<1> USE UrbrFacts DEF TypeInv, TypeOK
<1>1. ASSUME NEW u \in Urb, InternalIoctl(u)
      PROVE  \A w \in Urbr : sub[w] = "done" => sub'[w] = "done"
  BY <1>1 DEF InternalIoctl
<1>2. ASSUME NEW u \in Urb, SubmitUnlink(u)
      PROVE  \A w \in Urbr : sub[w] = "done" => sub'[w] = "done"
  <2>1. sub[UnlinkOf(u)] = "idle"
    BY <1>2 DEF SubmitUnlink, OwnInv, UrbOwned
  <2> QED BY <1>2, <2>1 DEF SubmitUnlink
<1>3. ASSUME NEW w \in Urbr, Submit(w)
      PROVE  \A v \in Urbr : sub[v] = "done" => sub'[v] = "done"
  BY <1>3 DEF Submit, SubmitPending, SubmitReadCancelled, SubmitDirect, SubmitStore,
       SubmitStored, SubmitFailed
<1>4. \/ \E u \in Urb : InternalIoctl(u) \/ SubmitUnlink(u)
      \/ \E w \in Urbr : Submit(w)
      \/ UNCHANGED sub
  BY DEF Next, vars, submitters, CancelUrbr, RemoveCancelledUrbr, CancelUrbrDone,
         Read, ProcessRead, ReadRefused, ReadPartial, ReadPended, ReadTake, ReadStore,
         ReadStorePartial, ReadStored, ReadFail, ReadFailed, PendingReadCancelled,
         IoCancelIrp, Write, WriteDone, AbortPipeEnter, AbortPipeLocked, Unplug,
         Remove, RemoveRead, RemoveReadDone, RemoveUrb, RemoveUrbDone, RemoveDone
<1> QED BY <1>1, <1>2, <1>3, <1>4

\* What is listed has been through submit_urbr.
LEMMA RemovedSubmittedStep ==
  TypeInv /\ TypeInv' /\ OwnInv /\ RemovedSubmitted /\ [Next]_vars => RemovedSubmitted'
<1> SUFFICES ASSUME TypeInv, TypeInv', OwnInv, RemovedSubmitted, [Next]_vars
             PROVE  RemovedSubmitted'
  OBVIOUS
<1> USE UrbrFacts DEF TypeInv, TypeOK
<1>s. \A w \in Urbr : sub[w] = "done" => sub'[w] = "done"
  BY SubmittedKept
<1>f. CASE /\ head_urbr' \subseteq head_urbr
           /\ head_urbr_pending' \subseteq head_urbr_pending
           /\ rem_urbr' \in {rem_urbr, NoUrbr}
  BY <1>f, <1>s DEF RemovedSubmitted
<1>1. ASSUME NEW w \in Urbr, SubmitPending(w) \/ SubmitStored(w) PROVE RemovedSubmitted'
  BY <1>1, <1>s DEF SubmitPending, SubmitStored, Enlist, RemovedSubmitted, remover
<1>2. CASE RemoveUrb
  BY <1>2, <1>s DEF RemoveUrb, Unlist, RemovedSubmitted
<1>3. ASSUME NEW w \in Urbr, SubmitStore(w) PROVE RemovedSubmitted'
  BY <1>3, <1>f DEF SubmitStore, StoreUrbr, AbortPipe, Unlist, remover
<1>4. ASSUME NEW r \in Reads, ReadStore(r) PROVE RemovedSubmitted'
  BY <1>4, <1>f DEF ReadStore, StoreUrbr, AbortPipe, Unlist, remover
<1>5. ASSUME NEW w \in Urbr, SubmitReadCancelled(w) \/ SubmitDirect(w) \/ SubmitFailed(w)
      PROVE  RemovedSubmitted'
  BY <1>5, <1>f DEF SubmitReadCancelled, SubmitDirect, SubmitFailed, remover
<1>6. ASSUME NEW u \in Urb, InternalIoctl(u) \/ CancelUrbr(u) PROVE RemovedSubmitted'
  BY <1>6, <1>f DEF InternalIoctl, CancelUrbr, RemoveCancelledUrbr, SubmitUnlink,
       CancelUrbrDone, Unlist, vpdo, remover
<1>7. ASSUME NEW r \in Reads,
             \/ Read(r) \/ ReadRefused(r) \/ ReadPartial(r) \/ ReadPended(r)
             \/ ReadTake(r) \/ ReadStorePartial(r) \/ ReadStored(r) \/ ReadFail(r)
             \/ ReadFailed(r) \/ PendingReadCancelled(r)
      PROVE  RemovedSubmitted'
  BY <1>7, <1>f DEF Read, ReadRefused, ReadPartial, ReadPended, ReadTake,
       ReadStorePartial, ReadStored, ReadFail, ReadFailed, PendingReadCancelled,
       vpdo, remover
<1>8. CASE \/ \E i \in Irp : IoCancelIrp(i)
           \/ \E s \in 1 .. seq_num : Write(s)
           \/ WriteDone \/ AbortPipeLocked \/ Unplug \/ UNCHANGED vars
           \/ RemoveRead \/ RemoveReadDone \/ RemoveUrbDone \/ RemoveDone
           \/ \E p \in AbortPipes : AbortPipeEnter(p)
  BY <1>8, <1>f DEF IoCancelIrp, Write, WriteDone, AbortPipeLocked, AbortPipe, Unlist,
       Unplug, RemoveRead, RemoveReadDone, RemoveUrbDone, RemoveDone, vars,
       AbortPipeEnter, vpdo, remover
<1> QED
  BY <1>1, <1>2, <1>3, <1>4, <1>5, <1>6, <1>7, <1>8 DEF Next, Submit, ProcessRead, Remove
\* What is pending has no number, so no thread that completes it holds it.
LEMMA PendingOwnedStep ==
  TypeInv /\ OwnInv /\ OrderInv /\ NumInv /\ [Next]_vars => PendingOwned'
<1> SUFFICES ASSUME TypeInv, OwnInv, OrderInv, NumInv, [Next]_vars,
                    NEW u \in Urb, SubmitOf(u) \in head_urbr_pending'
             PROVE  irp'[u] = "owned" /\ can'[u] \in {"idle", "taken"}
  BY DEF PendingOwned
<1> DEFINE W == SubmitOf(u)
<1>t. OwnTypes
  BY DEF TypeInv, TypeOK, OwnTypes
<1>d. u \in Irp /\ u \notin Reads /\ W \in Urbr /\ W # NoUrbr
  BY Distinct, UrbrFacts
<1>p. W \in head_urbr_pending => /\ irp[u] = "owned" /\ can[u] \in {"idle", "taken"}
                                 /\ seq[W] = 0 /\ sub[W] \notin {"idle", "enter"}
  BY <1>d DEF NumInv, PendingOwned, OrderInv, Numbered
<1>h. W \in head_urbr_pending =>
        /\ W # wr_urbr /\ W # rem_urbr /\ sub[W] = "done"
        /\ \A r \in Reads : rd[r] \notin {"idle", "enter"} => rd_urbr[r] # W
  BY <1>p, <1>d, <1>t DEF NumInv, SentNumbered, RemovedSubmitted, OwnTypes
<1> HIDE DEF W
\* It was pending before, and the step leaves its IRP alone.
<1>f. CASE W \in head_urbr_pending /\ irp'[u] = irp[u] /\ can'[u] \in {can[u], "taken"}
  BY <1>f, <1>p
<1>c. ASSUME NEW V, CompleteUncancelled(IrpsOf(V)), W \notin V PROVE irp'[u] = irp[u]
  BY <1>c, <1>d DEF CompleteUncancelled, IrpsOf, W
<1>a. ASSUME NEW p, AbortPipe(p) PROVE W \in head_urbr_pending /\ irp'[u] = irp[u]
  <2>1. PICK V : CompleteUncancelled(IrpsOf(V)) /\ head_urbr_pending' = head_urbr_pending \ V
    BY <1>a DEF AbortPipe, Unlist
  <2> QED BY <2>1, <1>c DEF W
<1>b. ASSUME NEW w, NEW len, StoreUrbr(w, len)
      PROVE  W \in head_urbr_pending /\ irp'[u] = irp[u]
  <2>1. AbortPipe(PipeOf[w[1]]) \/ UNCHANGED <<head_urbr_pending, irps>>
    BY <1>b DEF StoreUrbr
  <2> QED BY <2>1, <1>a DEF irps, W
<1>1. ASSUME NEW v \in Urb, InternalIoctl(v) PROVE W \in head_urbr_pending /\ irp'[u] = irp[u]
  <2>1. W \in head_urbr_pending /\ sub[SubmitOf(v)] = "idle"
    BY <1>1 DEF InternalIoctl, vpdo, W
  <2>2. u # v
    BY <2>1, <1>p DEF W
  <2> QED BY <1>1, <2>1, <2>2, <1>t, <1>d DEF InternalIoctl, OwnTypes
<1>2. ASSUME NEW v \in Urb, RemoveCancelledUrbr(v)
      PROVE  W \in head_urbr_pending /\ irp'[u] = irp[u] /\ can'[u] = can[u]
  BY <1>2, <1>d, <1>t DEF RemoveCancelledUrbr, Unlist, irps, W, OwnTypes
<1>3. ASSUME NEW v \in Urb, SubmitUnlink(v) \/ CancelUrbrDone(v)
      PROVE  W \in head_urbr_pending /\ irp'[u] = irp[u] /\ can'[u] = can[u]
  <2>1. W \in head_urbr_pending /\ can[v] \notin {"idle", "taken"}
    BY <1>3 DEF SubmitUnlink, CancelUrbrDone, vpdo, W
  <2>2. u # v
    BY <2>1, <1>p
  <2> QED BY <1>3, <2>1, <2>2, <1>t, <1>d DEF SubmitUnlink, CancelUrbrDone, Complete, irps,
            OwnTypes
<1>4. ASSUME NEW w \in Urbr, SubmitPending(w)
      PROVE  irp'[u] = "owned" /\ can'[u] \in {"idle", "taken"}
  <2>1. CASE W = w
    <3>1. Submitting(W)
      BY <1>4, <2>1 DEF SubmitPending, Submitting
    <3>2. irp[u] = "owned" /\ can[u] = "idle"
      BY <3>1 DEF OwnInv, UrbOwned, W
    <3> QED BY <1>4, <3>2 DEF SubmitPending
  <2>2. CASE W # w
    BY <1>4, <2>2, <1>f DEF SubmitPending, W
  <2> QED BY <2>1, <2>2
<1>5. ASSUME NEW w \in Urbr, SubmitReadCancelled(w) \/ SubmitFailed(w)
      PROVE  W \in head_urbr_pending /\ irp'[u] = irp[u] /\ can'[u] = can[u]
  <2>1. W \in head_urbr_pending /\ can' = can /\ sub[w] # "done"
    BY <1>5 DEF SubmitReadCancelled, SubmitFailed, W
  <2>2. w # W
    BY <2>1, <1>h
  <2>3. HasIrp(w) => w[1] # u
    BY <2>2, Distinct DEF W
  <2> QED BY <1>5, <2>1, <2>3, <1>d, <1>t DEF SubmitReadCancelled, SubmitFailed, Complete,
            OwnTypes
<1>6. ASSUME NEW w \in Urbr, SubmitStore(w)
      PROVE  W \in head_urbr_pending /\ irp'[u] = irp[u] /\ can'[u] = can[u]
  BY <1>6, <1>b DEF SubmitStore
<1>7. ASSUME NEW w \in Urbr, SubmitStored(w)
      PROVE  W \in head_urbr_pending /\ irp'[u] = irp[u] /\ can'[u] = can[u]
  <2>1. sub_read[w] \in Reads
    BY <1>7, <1>t DEF SubmitStored, OwnTypes, OwnInv, SubReads
  <2> QED BY <1>7, <2>1, <1>d, <1>t DEF SubmitStored, Complete, OwnTypes, W
<1>8. ASSUME NEW w \in Urbr, SubmitDirect(w)
      PROVE  W \in head_urbr_pending /\ irp'[u] = irp[u] /\ can'[u] = can[u]
  BY <1>8 DEF SubmitDirect, W
<1>9. ASSUME NEW r \in Reads,
             \/ Read(r) \/ ReadRefused(r) \/ ReadPartial(r) \/ ReadPended(r) \/ ReadTake(r)
             \/ ReadStorePartial(r) \/ ReadStored(r) \/ ReadFail(r)
      PROVE  W \in head_urbr_pending /\ irp'[u] = irp[u] /\ can'[u] = can[u]
  BY <1>9, <1>d, <1>t DEF Read, ReadRefused, ReadPartial, ReadPended, ReadTake,
       ReadStorePartial, ReadStored, ReadFail, Complete, W, vpdo, irps, OwnTypes
<1>10. ASSUME NEW r \in Reads, PendingReadCancelled(r)
      PROVE  W \in head_urbr_pending /\ irp'[u] = irp[u] /\ can'[u] = can[u]
  BY <1>10, <1>d, <1>t DEF PendingReadCancelled, Complete, W, OwnTypes
<1>11. ASSUME NEW r \in Reads, ReadStore(r)
      PROVE  W \in head_urbr_pending /\ irp'[u] = irp[u] /\ can'[u] = can[u]
  BY <1>11, <1>b DEF ReadStore
<1>12. ASSUME NEW r \in Reads, ReadFailed(r)
      PROVE  W \in head_urbr_pending /\ irp'[u] = irp[u] /\ can'[u] = can[u]
  <2>1. W \in head_urbr_pending /\ can' = can
    BY <1>12 DEF ReadFailed, vpdo, W
  <2>2. u \notin IrpsOf({rd_urbr[r]}) /\ u # r
    BY <1>12, <2>1, <1>h, <1>d DEF ReadFailed, IrpsOf, W
  <2> QED BY <1>12, <2>1, <2>2, <1>d DEF ReadFailed
<1>13. ASSUME NEW i \in Irp, IoCancelIrp(i)
       PROVE  W \in head_urbr_pending /\ irp'[u] = irp[u] /\ can'[u] \in {can[u], "taken"}
  BY <1>13, <1>d, <1>t DEF IoCancelIrp, vpdo, W, OwnTypes
<1>14. ASSUME NEW s \in 1 .. seq_num, Write(s)
       PROVE  W \in head_urbr_pending /\ irp'[u] = irp[u] /\ can'[u] = can[u]
  BY <1>14 DEF Write, Unlist, irps, W
<1>15. CASE WriteDone
  <2>1. W \in head_urbr_pending /\ can' = can /\ CompleteUncancelled(IrpsOf({wr_urbr}))
    BY <1>15 DEF WriteDone, vpdo, W
  <2> QED BY <2>1, <1>h, <1>c, <1>f
<1>16. CASE RemoveUrbDone
  <2>1. W \in head_urbr_pending /\ can' = can /\ CompleteUncancelled(IrpsOf({rem_urbr}))
    BY <1>16 DEF RemoveUrbDone, vpdo, W
  <2> QED BY <2>1, <1>h, <1>c, <1>f
<1>17. CASE AbortPipeLocked
  BY <1>17, <1>a, <1>f DEF AbortPipeLocked
<1>18. CASE RemoveReadDone
  <2>1. rem_irp # u
    BY <1>d, ConstantsAssumption DEF TypeInv, TypeOK
  <2> QED BY <1>18, <2>1, <1>d, <1>f DEF RemoveReadDone, CompleteUncancelled, vpdo, W
<1>19. CASE \/ Unplug \/ RemoveRead \/ RemoveUrb \/ RemoveDone \/ UNCHANGED vars
            \/ \E p \in AbortPipes : AbortPipeEnter(p)
  BY <1>19, <1>f DEF Unplug, RemoveRead, RemoveUrb, RemoveDone, Unlist, vars,
       AbortPipeEnter, vpdo, irps, W
<1>20. can'[u] = can[u] \/ ~(\E v \in Urb : InternalIoctl(v))
  BY DEF InternalIoctl
<1> QED
  BY <1>1, <1>2, <1>3, <1>4, <1>5, <1>6, <1>7, <1>8, <1>9, <1>10, <1>11, <1>12, <1>13,
     <1>14, <1>15, <1>16, <1>17, <1>18, <1>19, <1>20, <1>f
  DEF Next, Submit, ProcessRead, CancelUrbr, Remove

\* What the numbering of URBs rests on holds throughout.
LEMMA NumInvariant == Spec => []NumInv
<1>1. Init => NumInv
  BY Distinct, UrbrFacts DEF Init, NumInv, SentNumbered, RemovedSubmitted, PendingOwned
<1>2. TypeInv /\ TypeInv' /\ OwnInv /\ OrderInv /\ NumInv /\ [Next]_vars => NumInv'
  BY SentNumberedStep, RemovedSubmittedStep, PendingOwnedStep DEF NumInv
<1> QED BY <1>1, <1>2, TypeInvariant, OwnInvariant, OrderInvariant, PTL DEF Spec
\* A step completes URBs: of those it changes, each was held and is done.
Finishes ==
  /\ \A u \in Urb : irp'[u] = irp[u] \/ (irp[u] = "owned" /\ irp'[u] = "done")
  /\ UNCHANGED <<seq, seq_num>>

\* Every step but a submission and the two that give out numbers completes URBs,
\* mostly none.
LEMMA StepFinishes ==
  ASSUME TypeInv, OwnInv, [Next]_vars,
         ~ \E u \in Urb : InternalIoctl(u),
         ~ \E w \in Urbr : SubmitDirect(w),
         ~ \E r \in Reads : ReadTake(r)
  PROVE  Finishes
<1>t. OwnTypes
  BY DEF TypeInv, TypeOK, OwnTypes
<1> USE Distinct, <1>t
<1>s. CASE Settles /\ UNCHANGED <<seq, seq_num>>
  BY <1>s DEF Settles, Finishes, OwnInv, UrbOwned, OwnTypes
<1>r. CASE UNCHANGED <<seq, seq_num>> /\ \A u \in Urb : irp'[u] = irp[u]
  BY <1>r DEF Finishes
<1>b. ASSUME NEW w, NEW len, StoreUrbr(w, len) PROVE Finishes
  <2>1. AbortPipe(PipeOf[w[1]]) \/ UNCHANGED irps
    BY <1>b DEF StoreUrbr
  <2>2. UNCHANGED <<seq, seq_num>>
    BY <1>b DEF StoreUrbr
  <2>3. Settles
    BY <2>1, UncancelledSettles, UnchangedSettles DEF AbortPipe
  <2> QED BY <2>2, <2>3, <1>s
<1>1. ASSUME NEW u \in Urb, RemoveCancelledUrbr(u) \/ SubmitUnlink(u) PROVE Finishes
  BY <1>1, <1>r DEF RemoveCancelledUrbr, SubmitUnlink, vpdo, urbrs, irps
<1>2. ASSUME NEW u \in Urb, CancelUrbrDone(u) PROVE Finishes
  BY <1>2 DEF CancelUrbrDone, Complete, Completed, Finishes, vpdo, OwnInv, UrbOwned, OwnTypes
<1>3. ASSUME NEW w \in Urbr, SubmitPending(w) PROVE Finishes
  BY <1>3, <1>r DEF SubmitPending
<1>4. ASSUME NEW w \in Urbr, SubmitReadCancelled(w) \/ SubmitFailed(w) PROVE Finishes
  <2>1. HasIrp(w) => irp[w[1]] = "owned"
    BY <1>4 DEF SubmitReadCancelled, SubmitFailed, OwnInv, UrbOwned, Submitting
  <2>2. IF HasIrp(w) THEN Complete(w[1]) ELSE UNCHANGED irp
    BY <1>4 DEF SubmitReadCancelled, SubmitFailed
  <2>3. UNCHANGED <<seq, seq_num>>
    BY <1>4 DEF SubmitReadCancelled, SubmitFailed
  <2> QED BY <2>1, <2>2, <2>3 DEF Complete, Completed, Finishes, OwnTypes
<1>5. ASSUME NEW w \in Urbr, SubmitStore(w) PROVE Finishes
  BY <1>5, <1>b DEF SubmitStore
<1>6. ASSUME NEW w \in Urbr, SubmitStored(w) PROVE Finishes
  <2>1. sub_read[w] \in Reads
    BY <1>6 DEF SubmitStored, OwnTypes, OwnInv, SubReads
  <2> QED BY <1>6, <2>1, <1>r DEF SubmitStored, Complete, OwnTypes, urbrs
<1>7. ASSUME NEW r \in Reads, Read(r) \/ ReadRefused(r) \/ ReadPartial(r) \/ ReadPended(r)
      PROVE  Finishes
  BY <1>7, <1>r DEF Read, ReadRefused, ReadPartial, ReadPended, Complete, OwnTypes, vpdo,
       urbrs, irps
<1>8. ASSUME NEW r \in Reads,
             \/ ReadStorePartial(r) \/ ReadStored(r) \/ ReadFail(r) \/ PendingReadCancelled(r)
      PROVE  Finishes
  BY <1>8, <1>r DEF ReadStorePartial, ReadStored, ReadFail, PendingReadCancelled, Complete,
       OwnTypes, urbrs, irps
<1>9. ASSUME NEW r \in Reads, ReadStore(r) PROVE Finishes
  BY <1>9, <1>b DEF ReadStore
<1>10. ASSUME NEW r \in Reads, ReadFailed(r) PROVE Finishes
  BY <1>10 DEF ReadFailed, Completed, Finishes, vpdo, OwnInv, UrbOwned, OwnTypes
<1>11. CASE \/ \E i \in Irp : IoCancelIrp(i)
            \/ \E s \in 1 .. seq_num : Write(s)
            \/ \E p \in AbortPipes : AbortPipeEnter(p)
            \/ Unplug \/ RemoveRead \/ RemoveUrb \/ RemoveDone \/ UNCHANGED vars
  BY <1>11, <1>r DEF IoCancelIrp, Write, AbortPipeEnter, Unplug, RemoveRead, RemoveUrb,
       RemoveDone, vars, vpdo, urbrs, irps
<1>12. CASE WriteDone \/ AbortPipeLocked \/ RemoveReadDone \/ RemoveUrbDone
  <2>1. Settles
    BY <1>12, UncancelledSettles
    DEF WriteDone, AbortPipeLocked, AbortPipe, RemoveReadDone, RemoveUrbDone
  <2>2. UNCHANGED <<seq, seq_num>>
    BY <1>12 DEF WriteDone, AbortPipeLocked, RemoveReadDone, RemoveUrbDone, vpdo, urbrs
  <2> QED BY <2>1, <2>2, <1>s
<1> QED
  BY <1>1, <1>2, <1>3, <1>4, <1>5, <1>6, <1>7, <1>8, <1>9, <1>10, <1>11, <1>12
  DEF Next, Submit, ProcessRead, CancelUrbr, Remove

\* The refinement mapping of ServiceSpec, named.
LifeOf == [u \in Urb |-> IF irp[u] = "owned" THEN "held" ELSE irp[u]]
NumOf == [u \in Urb |-> seq[SubmitOf(u)]]

\* A step that gives a command the next number numbers its URB, if it has one, for
\* the first time, or is a command of the driver's own.
LEMMA NumberImplements ==
  ASSUME TypeInv, NEW w \in Urbr, NextSeqnum(w), UNCHANGED irp,
         HasIrp(w) => irp[w[1]] = "owned" /\ seq[w] = 0
  PROVE  (\E u \in Urb : Service!Number(u)) \/ Service!NumberOwn
<1> USE Distinct DEF TypeInv, TypeOK
<1>1. LifeOf' = LifeOf
  BY DEF LifeOf
<1>2. CASE HasIrp(w)
  <2> DEFINE x == w[1]
  <2>1. x \in Urb /\ w = SubmitOf(x)
    BY <1>2
  <2>2. NumOf' = [NumOf EXCEPT ![x] = seq_num + 1]
    BY ZenonT(60), <2>1 DEF NumOf, NextSeqnum
  <2>3. LifeOf[x] = "held" /\ NumOf[x] = 0
    BY <1>2, <2>1 DEF LifeOf, NumOf
  <2>4. Service!Number(x)
    BY <1>1, <2>1, <2>2, <2>3 DEF Service!Number, LifeOf, NumOf, NextSeqnum
  <2> QED BY <2>1, <2>4
<1>3. CASE ~HasIrp(w)
  <2>1. NumOf' = NumOf
    BY <1>3 DEF NumOf, NextSeqnum
  <2> QED BY <1>1, <2>1 DEF Service!NumberOwn, LifeOf, NumOf, NextSeqnum
<1> QED BY <1>2, <1>3

\* Every step of the queue is a step of UrbService or changes nothing it shows.
LEMMA StepImplements ==
  TypeInv /\ OwnInv /\ OrderInv /\ NumInv /\ [Next]_vars => [Service!Next]_(Service!vars)
<1> SUFFICES ASSUME TypeInv, OwnInv, OrderInv, NumInv, [Next]_vars PROVE Service!Next
  OBVIOUS
<1> USE Distinct
<1>1. ASSUME NEW u \in Urb, InternalIoctl(u) PROVE Service!Next
  <2>1. irp[u] = "idle"
    BY <1>1 DEF InternalIoctl, OwnInv, UrbOwned
  <2>2. PICK i \in {"owned", "done"} : irp' = [irp EXCEPT ![u] = i]
    BY <1>1 DEF InternalIoctl
  <2> DEFINE l == IF i = "owned" THEN "held" ELSE "done"
  <2>3. l \in {"held", "done"}
    OBVIOUS
  <2>4. LifeOf' = [LifeOf EXCEPT ![u] = l]
    BY <2>2 DEF LifeOf, TypeInv, TypeOK
  <2>5. LifeOf[u] = "idle"
    BY <2>1 DEF LifeOf
  <2>6. seq' = seq /\ seq_num' = seq_num
    BY <1>1 DEF InternalIoctl, vpdo
  <2> HIDE DEF l
  <2>7. Service!Submit(u)
    BY <2>3, <2>4, <2>5, <2>6 DEF Service!Submit, LifeOf
  <2> QED BY <2>7 DEF Service!Next
<1>2. ASSUME NEW w \in Urbr, SubmitDirect(w) PROVE Service!Next
  <2>1. NextSeqnum(w) /\ UNCHANGED irp
    BY <1>2 DEF SubmitDirect
  <2>2. HasIrp(w) => irp[w[1]] = "owned" /\ seq[w] = 0
    BY <1>2 DEF SubmitDirect, OwnInv, UrbOwned, Submitting, OrderInv, Numbered
  <2> QED BY <2>1, <2>2, NumberImplements DEF Service!Next
<1>3. ASSUME NEW r \in Reads, ReadTake(r) PROVE Service!Next
  <2>1. PICK w \in head_urbr_pending : NextSeqnum(w)
    BY <1>3 DEF ReadTake
  <2>2. w \in Urbr /\ UNCHANGED irp
    BY <1>3 DEF ReadTake, irps, TypeInv, TypeOK
  <2>3. HasIrp(w) => irp[w[1]] = "owned" /\ seq[w] = 0
    BY <2>2 DEF NumInv, PendingOwned, OrderInv, Numbered
  <2> QED BY <2>1, <2>2, <2>3, NumberImplements DEF Service!Next
<1>4. CASE Finishes
  <2> DEFINE S == {u \in Urb : irp[u] # irp'[u]}
  <2>1. \A u \in S : LifeOf[u] = "held"
    BY <1>4 DEF Finishes, LifeOf
  <2>2. LifeOf' = [u \in Urb |-> IF u \in S THEN "done" ELSE LifeOf[u]]
    BY <1>4 DEF Finishes, LifeOf
  <2>3. NumOf' = NumOf /\ seq_num' = seq_num
    BY <1>4 DEF Finishes, NumOf
  <2>4. PICK T \in SUBSET Urb : T = S
    OBVIOUS
  <2>5. Service!Finish(T)
    BY <2>1, <2>2, <2>3, <2>4 DEF Service!Finish, LifeOf, NumOf
  <2> QED BY <2>5 DEF Service!Next
<1> QED BY <1>1, <1>2, <1>3, <1>4, StepFinishes

\* The queue implements the abstract service: for any set of URBs, reads and pipes,
\* every step of the driver submits, numbers or completes as UrbService allows.
THEOREM ImplementsService == Spec => ServiceSpec
<1>1. Init => Service!Init
  <2> SUFFICES ASSUME Init PROVE Service!Init
    OBVIOUS
  <2>1. LifeOf = [u \in Urb |-> "idle"]
    BY Distinct DEF Init, LifeOf
  <2>2. NumOf = [u \in Urb |-> 0]
    BY Distinct DEF Init, NumOf
  <2> QED BY <2>1, <2>2 DEF Service!Init, LifeOf, NumOf, Init
<1> QED BY <1>1, StepImplements, TypeInvariant, OwnInvariant, OrderInvariant, NumInvariant,
          PTL DEF Spec, ServiceSpec, Service!Spec
=============================================================================
