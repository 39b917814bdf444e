------------------------ MODULE StubRemoveLockProofs ------------------------
(***************************************************************************)
(* Proofs about StubRemoveLock, for any number of requests.                *)
(*                                                                         *)
(* Protected is not inductive: it rests on what the event means (Emptied), *)
(* which rests on count being the number of shares (Shares).               *)
(***************************************************************************)
EXTENDS StubRemoveLock, FiniteSetTheorems, TLAPS

\* Requests that have a share of the lock, and the shares of the device and of
\* its removal.
Holders == {r \in Req : pc[r] \in {"locking", "refused", "locked"}}

Base ==
  IF rem \in {"idle", "once"} THEN 1
  ELSE IF rem \in {"locked", "pending"} THEN 2
  ELSE 0

\* remove_lock.count counts the shares.
Shares == count = Cardinality(Holders) + Base

PendingSet == remove_pending <=> rem \notin {"idle", "locked"}

\* Once the event is set, or about to be, nobody holds the lock again.
Emptied ==
  event \/ setting # {} =>
    /\ rem \in {"waiting", "closed", "gone"}
    /\ \A r \in Req : pc[r] # "locked"

Waited == rem \in {"closed", "gone"} => event

LockInv == TypeOK /\ Shares /\ PendingSet /\ Emptied /\ Waited

\* The requests with a share are finitely many.
LEMMA HoldersFinite ==
  /\ IsFiniteSet(Holders)
  /\ Cardinality(Holders) \in Nat
<1>1. Holders \subseteq Req
  BY DEF Holders
<1>2. IsFiniteSet(Req)
  BY ConstantsAssumption
<1>3. IsFiniteSet(Holders)
  BY <1>1, <1>2, FS_Subset
<1> QED
  BY <1>3, FS_CardinalityType

\* A request that has a share is counted; if it is the only share of all, the
\* removal has given up its own two and no other request has any.
LEMMA LastShare ==
  ASSUME LockInv, NEW r \in Holders
  PROVE  /\ count # 0
         /\ count = 1 => /\ rem \in {"waiting", "closed", "gone"}
                         /\ Holders = {r}
<1> DEFINE C == Cardinality(Holders)
<1>1. C \in Nat /\ IsFiniteSet(Holders)
  BY HoldersFinite
<1>2. /\ IsFiniteSet(Holders \ {r})
      /\ Cardinality(Holders \ {r}) = C - 1
      /\ Cardinality(Holders \ {r}) \in Nat
  <2>1. /\ IsFiniteSet(Holders \ {r})
        /\ Cardinality(Holders \ {r}) = IF r \in Holders THEN C - 1 ELSE C
    BY <1>1, FS_RemoveElement
  <2>2. Cardinality(Holders \ {r}) \in Nat
    BY <2>1, FS_CardinalityType
  <2> QED
    BY <2>1, <2>2
<1>3. C # 0
  BY <1>1, <1>2
<1>4. count = C + Base /\ Base \in {0, 1, 2}
  BY DEF LockInv, Shares, Base, TypeOK
<1>5. count # 0
  BY <1>1, <1>3, <1>4
<1>6. ASSUME count = 1
      PROVE  rem \in {"waiting", "closed", "gone"} /\ Holders = {r}
  <2>1. Base = 0 /\ C = 1
    BY <1>1, <1>3, <1>4, <1>6
  <2>2. rem \in {"waiting", "closed", "gone"}
    BY <2>1 DEF LockInv, TypeOK, Base
  <2>3. Cardinality(Holders \ {r}) = 0
    BY <2>1, <1>2
  <2>4. Holders \ {r} = {}
    BY <2>3, <1>2, FS_EmptySet
  <2> QED
    BY <2>2, <2>4
<1> QED
  BY <1>5, <1>6

\* A request that leaves the holders takes one share with it.
LEMMA ShareGivenUp ==
  ASSUME LockInv, NEW r \in Holders, UnlockDevRemoval(r), rem' = rem,
         Holders' = Holders \ {r}
  PROVE  /\ Shares'
         /\ count' \in Nat
<1>1. Cardinality(Holders \ {r}) = Cardinality(Holders) - 1
  BY HoldersFinite, FS_RemoveElement
<1>2. Cardinality(Holders) \in Nat
  BY HoldersFinite
<1>3. count # 0 /\ count \in Nat
  BY LastShare DEF LockInv, TypeOK
<1>4. count = Cardinality(Holders) + Base /\ Base \in {0, 1, 2}
  BY DEF LockInv, Shares, Base, TypeOK
<1>5. Base' = Base
  BY DEF Base
<1>6. count' = count - 1
  BY DEF UnlockDevRemoval
<1>7. count' = Cardinality(Holders') + Base'
  BY <1>1, <1>2, <1>3, <1>4, <1>5, <1>6
<1> QED
  BY <1>3, <1>6, <1>7 DEF Shares

\* A request that leaves the holders sets the event only as the last of them.
LEMMA EmptiedKept ==
  ASSUME LockInv, NEW r \in Holders, NEW s \in {"done", "passing"},
         UnlockDevRemoval(r), pc' = [pc EXCEPT ![r] = s],
         UNCHANGED <<rem, event>>
  PROVE  Emptied'
<1>1. CASE count = 1
  <2>1. rem \in {"waiting", "closed", "gone"} /\ Holders = {r}
    BY <1>1, LastShare
  <2>2. \A q \in Req : q # r => pc[q] # "locked"
    BY <2>1 DEF Holders
  <2> QED
    BY <2>1, <2>2 DEF Emptied, LockInv, TypeOK
<1>2. CASE count # 1
  <2>1. setting' = setting
    BY <1>2 DEF UnlockDevRemoval
  <2> QED
    BY <2>1 DEF Emptied, LockInv, TypeOK
<1> QED
  BY <1>1, <1>2

\* Every initial state satisfies the invariant.
LEMMA InitLockInv == Init => LockInv
<1> SUFFICES ASSUME Init PROVE LockInv
  OBVIOUS
<1>1. TypeOK
  BY ConstantsAssumption DEF Init, TypeOK, AllKinds
<1>2. Holders = {}
  BY DEF Init, Holders
<1>3. Shares
  BY <1>2, FS_EmptySet DEF Init, Shares, Base
<1>4. PendingSet /\ Emptied /\ Waited
  BY DEF Init, PendingSet, Emptied, Waited
<1> QED
  BY <1>1, <1>3, <1>4 DEF LockInv

\* Every step keeps the invariant.
LEMMA NextLockInv == LockInv /\ [Next]_vars => LockInv'
<1> SUFFICES ASSUME LockInv, [Next]_vars PROVE LockInv'
  OBVIOUS
<1> USE DEF LockInv
<1>1. ASSUME NEW r \in Req, LockDevRemoval(r) PROVE LockInv'
  <2> USE <1>1 DEF LockDevRemoval
  <2>1. TypeOK'
    BY DEF TypeOK
  <2>2. Holders' = Holders \cup {r} /\ r \notin Holders
    BY DEF Holders, TypeOK
  <2>3. Cardinality(Holders') = Cardinality(Holders) + 1
    BY <2>2, HoldersFinite, FS_AddElement
  <2>4. Base' = Base /\ Base \in {0, 1, 2}
    BY DEF Base, TypeOK
  <2>5. Shares'
    BY <2>3, <2>4, HoldersFinite DEF Shares
  <2>6. PendingSet' /\ Emptied' /\ Waited'
    BY DEF PendingSet, Emptied, Waited, TypeOK
  <2> QED
    BY <2>1, <2>5, <2>6
<1>2. ASSUME NEW r \in Req, LockDevRemovalTest(r) PROVE LockInv'
  <2> USE <1>2 DEF LockDevRemovalTest, LockTested, lock
  <2>1. TypeOK'
    BY DEF TypeOK
  <2>2. Holders' = Holders /\ Base' = Base
    BY DEF Holders, Base, TypeOK
  <2>3. Shares'
    BY <2>2 DEF Shares
  <2>4. PendingSet' /\ Waited'
    BY DEF PendingSet, Waited
  <2>5. Emptied'
    BY DEF Emptied, PendingSet, TypeOK
  <2> QED
    BY <2>1, <2>3, <2>4, <2>5
<1>3. ASSUME NEW r \in Req, LockDevRemovalRefused(r) PROVE LockInv'
  <2> USE <1>3 DEF LockDevRemovalRefused
  <2>1. r \in Holders
    BY DEF Holders
  <2>2. Holders' = Holders \ {r}
    BY DEF Holders, TypeOK
  <2>3. Shares' /\ count' \in Nat
    BY <2>1, <2>2, ShareGivenUp
  <2>4. TypeOK'
    BY <2>3 DEF TypeOK, UnlockDevRemoval
  <2>5. PendingSet' /\ Waited'
    BY DEF PendingSet, Waited
  <2>6. Emptied'
    BY <2>1, EmptiedKept
  <2> QED
    BY <2>3, <2>4, <2>5, <2>6
<1>4. ASSUME NEW r \in Req, Unlock(r) PROVE LockInv'
  <2> USE <1>4 DEF Unlock
  <2> DEFINE s == IF kind[r] = "pnp" THEN "passing" ELSE "done"
  <2>1. r \in Holders
    BY DEF Holders
  <2>2. Holders' = Holders \ {r}
    BY DEF Holders, TypeOK
  <2>3. Shares' /\ count' \in Nat
    BY <2>1, <2>2, ShareGivenUp
  <2>4. TypeOK'
    BY <2>3 DEF TypeOK, UnlockDevRemoval
  <2>5. PendingSet' /\ Waited'
    BY DEF PendingSet, Waited
  <2>6. s \in {"done", "passing"} /\ pc' = [pc EXCEPT ![r] = s]
    OBVIOUS
  <2> HIDE DEF s
  <2>7. Emptied'
    BY <2>1, <2>6, EmptiedKept
  <2> QED
    BY <2>3, <2>4, <2>5, <2>7
<1>5. ASSUME NEW r \in Req, PassIrpDown(r) \/ Io(r) \/ IoDone(r) PROVE LockInv'
  <2> USE <1>5 DEF PassIrpDown, Io, IoDone, lock
  <2>1. TypeOK'
    BY DEF TypeOK
  <2>2. Holders' = Holders /\ Base' = Base
    BY DEF Holders, Base, TypeOK
  <2>3. Shares'
    BY <2>2 DEF Shares
  <2>4. PendingSet' /\ Emptied' /\ Waited'
    BY DEF PendingSet, Emptied, Waited, TypeOK
  <2> QED
    BY <2>1, <2>3, <2>4
<1>6. ASSUME NEW t \in Req \cup {Remover}, SetEvent(t) PROVE LockInv'
  <2> USE <1>6 DEF SetEvent
  <2>1. TypeOK'
    BY DEF TypeOK
  <2>2. Holders' = Holders /\ Base' = Base
    BY DEF Holders, Base
  <2>3. Shares'
    BY <2>2 DEF Shares
  <2>4. PendingSet' /\ Emptied' /\ Waited'
    BY DEF PendingSet, Emptied, Waited
  <2> QED
    BY <2>1, <2>3, <2>4
<1>7. ASSUME RemoveLock \/ RemovePending PROVE LockInv'
  <2> USE <1>7 DEF RemoveLock, RemovePending
  <2>1. TypeOK'
    <3>1. remove_pending' \in BOOLEAN
      BY Zenon DEF TypeOK
    <3> QED
      BY <3>1 DEF TypeOK
  <2>2. Holders' = Holders /\ Cardinality(Holders) \in Nat
    BY HoldersFinite DEF Holders
  <2>3. \/ count' = count + 1 /\ Base = 1 /\ Base' = 2
        \/ count' = count /\ Base = 2 /\ Base' = 2
    BY DEF Base
  <2>4. Shares'
    BY <2>2, <2>3 DEF Shares
  <2>5. PendingSet' /\ Emptied' /\ Waited'
    BY DEF PendingSet, Emptied, Waited
  <2> QED
    BY <2>1, <2>4, <2>5
<1>8. ASSUME RemoveUnlock PROVE LockInv'
  <2> USE <1>8 DEF RemoveUnlock, UnlockDevRemoval
  <2>1. Holders' = Holders /\ Cardinality(Holders) \in Nat
    BY HoldersFinite DEF Holders
  <2>2. /\ Base \in {1, 2} /\ Base' = Base - 1
        /\ Base = 1 => rem = "once"
    BY DEF Base
  <2>3. Shares' /\ count' \in Nat /\ count = Cardinality(Holders) + Base
    BY <2>1, <2>2 DEF Shares
  <2>4. TypeOK'
    BY <2>3 DEF TypeOK
  <2>5. PendingSet' /\ Waited'
    BY DEF PendingSet, Waited
  <2>6. Emptied'
    <3>1. CASE count = 1
      <4>1. rem = "once" /\ Cardinality(Holders) = 0
        BY <3>1, <2>1, <2>2, <2>3
      <4>2. Holders = {}
        BY <4>1, HoldersFinite, FS_EmptySet
      <4> QED
        BY <4>1, <4>2 DEF Emptied, Holders
    <3>2. CASE count # 1
      BY <3>2 DEF Emptied
    <3> QED
      BY <3>1, <3>2
  <2> QED
    BY <2>3, <2>4, <2>5, <2>6
<1>9. ASSUME RemoveWait \/ RemoveDone PROVE LockInv'
  <2> USE <1>9 DEF RemoveWait, RemoveDone, lock
  <2>1. TypeOK'
    BY DEF TypeOK
  <2>2. Holders' = Holders /\ Base' = Base
    BY DEF Holders, Base
  <2>3. Shares'
    BY <2>2 DEF Shares
  <2>4. PendingSet' /\ Emptied' /\ Waited'
    BY DEF PendingSet, Emptied, Waited
  <2> QED
    BY <2>1, <2>3, <2>4
<1>10. CASE UNCHANGED vars
  <2> USE <1>10 DEF vars, lock
  <2>1. TypeOK'
    BY DEF TypeOK
  <2>2. Holders' = Holders /\ Base' = Base
    BY DEF Holders, Base
  <2> QED
    BY <2>1, <2>2 DEF Shares, PendingSet, Emptied, Waited
<1> QED
  BY <1>1, <1>2, <1>3, <1>4, <1>5, <1>6, <1>7, <1>8, <1>9, <1>10
  DEF Next, Request, Remove

\* The invariant holds in every reachable state.
THEOREM LockInvariant == Spec => []LockInv
<1> QED
  BY InitLockInv, NextLockInv, PTL DEF Spec

\* However many requests race with it, the removal closes and deletes the
\* device only after every request that lock_dev_removal let through has
\* released the lock, and the count never falls below zero.
THEOREM RemovalWaitsForHolders == Spec => [](Protected /\ TypeOK)
<1>1. LockInv => Protected /\ TypeOK
  BY DEF LockInv, Waited, Emptied, Protected
<1> QED
  BY <1>1, LockInvariant, PTL
=============================================================================
