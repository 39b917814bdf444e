--------------------------- MODULE StubRemoveLock ---------------------------
(***************************************************************************)
(* The lock that keeps an exported device from being removed under a       *)
(* request, in the driver driver/stub: stub_dev.c, and its users           *)
(* stub_power.c and stub_pnp.c.                                            *)
(*                                                                         *)
(* remove_lock.count is one for the device itself and one for every        *)
(* request that holds the lock.  Removal forbids new holders, gives up its *)
(* own share and that of the device, and waits for the event that whoever  *)
(* brings the count to zero sets.  Nothing here is under a spin lock: one  *)
(* step is one interlocked operation, one access to remove_pending or to   *)
(* the event, or the use of the device between them.                       *)
(*                                                                         *)
(* is_started is written by these handlers and read by none; it is left    *)
(* out, and so is the name of the device interface.                        *)
(***************************************************************************)
EXTENDS Naturals, FiniteSets

CONSTANTS
  Req,      \* requests sent to the device, other than its removal
  Remover,  \* the request IRP_MN_REMOVE_DEVICE
  Kinds     \* what the requests may be, a subset of AllKinds

(***************************************************************************)
(* power: IRP_MJ_POWER, passed down under the lock                         *)
(* start: IRP_MN_START_DEVICE, unlocked when the lower driver is done      *)
(* pnp:   another PnP request, passed down after the lock was released     *)
(* io:    read, write, control and the USB transfers they start: no lock   *)
(***************************************************************************)
AllKinds == {"power", "start", "pnp", "io"}

ASSUME ConstantsAssumption ==
  /\ IsFiniteSet(Req)
  /\ Remover \notin Req
  /\ Kinds \subseteq AllKinds

VARIABLES
  count, remove_pending, event,  \* devstub->remove_lock
  kind,     \* what each request is
  pc,       \* how far it is
  rem,      \* how far the removal is
  setting   \* requests that brought count to zero and are about to set the event

lock == <<count, remove_pending, event>>
vars == <<lock, kind, pc, rem, setting>>

TypeOK ==
  /\ count \in Nat
  /\ remove_pending \in BOOLEAN
  /\ event \in BOOLEAN
  /\ kind \in [Req -> AllKinds]
  /\ pc \in [Req -> {"idle", "locking", "refused", "locked", "passing", "out",
                     "done"}]
  /\ rem \in {"idle", "locked", "pending", "once", "waiting", "closed", "gone"}
  /\ setting \subseteq Req \cup {Remover}

\* init_dev_removal_lock; the lock that stub_add_device takes it releases again.
Init ==
  /\ count = 1
  /\ remove_pending = FALSE
  /\ event = FALSE
  /\ kind \in [Req -> Kinds]
  /\ pc = [r \in Req |-> "idle"]
  /\ rem = "idle"
  /\ setting = {}
-----------------------------------------------------------------------------
(* The lock: stub_dev.c                                                     *)

\* unlock_dev_removal, the decrement
UnlockDevRemoval(t) ==
  /\ count' = count - 1
  /\ setting' = IF count = 1 THEN setting \cup {t} ELSE setting

\* KeSetEvent
SetEvent(t) ==
  /\ t \in setting
  /\ event' = TRUE
  /\ setting' = setting \ {t}
  /\ UNCHANGED <<count, remove_pending, kind, pc, rem>>

\* A PnP start and the removal do not overlap: the PnP manager sends one at a time.
Starting(r) == kind[r] = "start" /\ pc[r] \notin {"idle", "done"}

\* lock_dev_removal, the increment
LockDevRemoval(r) ==
  /\ pc[r] = "idle" /\ kind[r] # "io"
  /\ rem # "gone"
  /\ kind[r] = "start" => rem = "idle"
  /\ count' = count + 1
  /\ pc' = [pc EXCEPT ![r] = "locking"]
  /\ UNCHANGED <<remove_pending, event, kind, rem, setting>>

\* Mutant: takes the lock even while the device is being removed.
MutLockTested(r) == "locked"

\* What lock_dev_removal makes of remove_pending.
LockTested(r) == IF remove_pending THEN "refused" ELSE "locked"

LockDevRemovalTest(r) ==
  /\ pc[r] = "locking"
  /\ pc' = [pc EXCEPT ![r] = LockTested(r)]
  /\ UNCHANGED <<lock, kind, rem, setting>>

\* STATUS_DELETE_PENDING: the request gives its share back and fails.
LockDevRemovalRefused(r) ==
  /\ pc[r] = "refused"
  /\ UnlockDevRemoval(r)
  /\ pc' = [pc EXCEPT ![r] = "done"]
  /\ UNCHANGED <<remove_pending, event, kind, rem>>
-----------------------------------------------------------------------------
(* Its users: stub_power.c, stub_pnp.c                                      *)

\* stub_dispatch_power and on_start_complete release the lock last; the other
\* PnP requests release it and then call pass_irp_down.
Unlock(r) ==
  /\ pc[r] = "locked"
  /\ UnlockDevRemoval(r)
  /\ pc' = [pc EXCEPT ![r] = IF kind[r] = "pnp" THEN "passing" ELSE "done"]
  /\ UNCHANGED <<remove_pending, event, kind, rem>>

\* pass_irp_down, which uses devstub->next_stack_dev
PassIrpDown(r) ==
  /\ pc[r] = "passing" /\ r \notin setting
  /\ pc' = [pc EXCEPT ![r] = "done"]
  /\ UNCHANGED <<lock, kind, rem, setting>>

\* stub_dispatch_read, _write and _ioctl
Io(r) ==
  /\ pc[r] = "idle" /\ kind[r] = "io" /\ rem = "idle"
  /\ pc' = [pc EXCEPT ![r] = "out"]
  /\ UNCHANGED <<lock, kind, rem, setting>>

IoDone(r) ==
  /\ pc[r] = "out"
  /\ pc' = [pc EXCEPT ![r] = "done"]
  /\ UNCHANGED <<lock, kind, rem, setting>>

Request(r) ==
  \/ LockDevRemoval(r) \/ LockDevRemovalTest(r) \/ LockDevRemovalRefused(r)
  \/ Unlock(r) \/ PassIrpDown(r) \/ Io(r) \/ IoDone(r)

\* IRP_MN_REMOVE_DEVICE: lock_dev_removal, which nobody but itself could refuse
RemoveLock ==
  /\ rem = "idle"
  /\ \A r \in Req : ~Starting(r)
  /\ count' = count + 1
  /\ rem' = "locked"
  /\ UNCHANGED <<remove_pending, event, kind, pc, setting>>

\* unlock_wait_dev_removal: remove_pending = TRUE
RemovePending ==
  /\ rem = "locked"
  /\ remove_pending' = TRUE
  /\ rem' = "pending"
  /\ UNCHANGED <<count, event, kind, pc, setting>>

\* Mutant: gives up only the share that the removal itself has taken.
MutRemoveUnlock ==
  /\ \/ /\ rem = "pending"
        /\ UnlockDevRemoval(Remover)
        /\ rem' = "once"
     \/ /\ rem = "once" /\ Remover \notin setting
        /\ UNCHANGED <<count, setting>>
        /\ rem' = "waiting"
  /\ UNCHANGED <<remove_pending, event, kind, pc>>

\* unlock_dev_removal, twice
RemoveUnlock ==
  /\ \/ rem = "pending" /\ rem' = "once"
     \/ rem = "once" /\ Remover \notin setting /\ rem' = "waiting"
  /\ UnlockDevRemoval(Remover)
  /\ UNCHANGED <<remove_pending, event, kind, pc>>

\* KeWaitForSingleObject, then USBD_CloseHandle
RemoveWait ==
  /\ rem = "waiting" /\ Remover \notin setting
  /\ event
  /\ rem' = "closed"
  /\ UNCHANGED <<lock, kind, pc, setting>>

\* The removal has been passed down: free_devconf, IoDetachDevice, IoDeleteDevice.
RemoveDone ==
  /\ rem = "closed"
  /\ rem' = "gone"
  /\ UNCHANGED <<lock, kind, pc, setting>>

Remove == RemovePending \/ RemoveUnlock \/ RemoveWait \/ RemoveDone

Next ==
  \/ \E r \in Req : Request(r)
  \/ \E t \in Req \cup {Remover} : SetEvent(t)
  \/ RemoveLock
  \/ Remove

Spec == Init /\ [][Next]_vars

\* A thread inside the driver goes on, and the lower driver completes a start.
\* That a request or the removal is sent at all is not assumed.
Fairness ==
  /\ \A r \in Req : WF_vars(Request(r) /\ pc[r] # "idle")
  /\ \A t \in Req \cup {Remover} : WF_vars(SetEvent(t))
  /\ WF_vars(Remove)

FairSpec == Spec /\ Fairness
-----------------------------------------------------------------------------
(* Properties                                                               *)

\* A request that lock_dev_removal let through has given its share back before the
\* USBD handle is closed and the device object deleted: the increment comes before
\* the test of remove_pending, and the event is set only when no share is left.
\* What a request does without a share is WaitedForAll's: I/O takes none, and a PnP
\* request is passed on after its unlock (stub_pnp.c:115-116).
Protected ==
  rem \in {"closed", "gone"} => \A r \in Req : pc[r] # "locked"

\* The removal does not hang: whoever brings the count to zero, be it a request
\* that was let through, one that was refused or the removal itself, sets the
\* event that the removal waits for.
RemovalEnds == rem = "locked" ~> rem = "gone"

\* "wait until all outstanding requests are finished" (stub_pnp.c:84): once the
\* removal has waited, no request is still under way in the driver.
WaitedForAll ==
  rem \in {"closed", "gone"} =>
    \A r \in Req : pc[r] \notin {"locked", "passing", "out"}
=============================================================================
