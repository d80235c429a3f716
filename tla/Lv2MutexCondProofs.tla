------------------------- MODULE Lv2MutexCondProofs -------------------------
(***************************************************************************)
(* Theorems about Lv2MutexCond for a guest that keeps out of the unguarded *)
(* windows of the destroy calls (RacyTeardown = FALSE), and for every set  *)
(* of threads and every number of mutexes and conds.                       *)
(***************************************************************************)
EXTENDS Lv2MutexCond, FiniteSetTheorems, TLAPS

(* Where a thread relies on its objects, they are live. *)
Pinned ==
    \A t \in Threads :
        /\ pc[t] \in LockPcs \cup {"cnew", "reacquire", "restore"} => mActive[mtx[t]]
        /\ pc[t] \in SigPcs \cup {"commit", "asleep", "awake"} => cActive[cnd[t]]
        /\ pc[t] \in {"commit", "asleep", "awake"} => cMutex[cnd[t]] = mtx[t]

(* A waiter has levels to give back, does not hold the CS while it sleeps, and
   while it holds it with the ownership cleared nobody else books a level. *)
Released ==
    \A t \in Threads :
        /\ pc[t] \in WaitPcs => saved[t] > 0
        /\ pc[t] \in {"asleep", "awake", "reacquire"} => csOwner[mtx[t]] # t
        /\ pc[t] \in {"commit", "restore"} => lockCount[mtx[t]] = 0

Counted == \A c \in Conds : cActive[c] => committed[c] = Cardinality(WaitersOf(c))

CsInv == Pairing /\ HoldersHold /\ Released

IInv == TypeOK /\ CsInv /\ Pinned /\ Counted /\ CondsFirst

CondsOf(m) == {c \in Conds : cActive[c] /\ cMutex[c] = m}

LEMMA Finite ==
  /\ \A c : IsFiniteSet(WaitersOf(c)) /\ Cardinality(WaitersOf(c)) \in Nat
  /\ \A m : IsFiniteSet(CondsOf(m)) /\ Cardinality(CondsOf(m)) \in Nat
<1>1. \A c : WaitersOf(c) \in SUBSET Threads
  BY DEF WaitersOf
<1>2. \A m : CondsOf(m) \in SUBSET Conds
  BY DEF CondsOf
<1>3. IsFiniteSet(Conds)
  BY SizesAssumption, FS_Interval DEF Conds
<1> QED BY <1>1, <1>2, <1>3, ThreadsAssumption, FS_Subset, FS_CardinalityType

LEMMA InitIInv == Init => IInv
<1> SUFFICES ASSUME Init PROVE IInv
  OBVIOUS
<1>1. TypeOK
  BY SizesAssumption DEF Init, TypeOK, PcValues, Kinds, Mutexes, Conds
<1>2. CsInv /\ Pinned
  BY DEF Init, CsInv, Pairing, HoldersHold, Released, Pinned, LockPcs, WaitPcs, SigPcs
<1>3. Counted
  BY DEF Init, Counted
<1>4. ASSUME NEW m \in Mutexes PROVE ~mActive[m]
  BY DEF Init
<1>5. CondsFirst
  BY <1>4 DEF Init, CondsFirst
<1> QED BY <1>1, <1>2, <1>3, <1>5 DEF IInv

LEMMA TypeCsEnter ==
  ASSUME TypeOK, NEW t \in Threads, NEW m \in Mutexes, NEW n \in Nat, CsEnter(t, m, n)
  PROVE  csOwner' \in [Mutexes -> Threads \cup {None}] /\ csCount' \in [Mutexes -> Nat]
  BY DEF TypeOK, CsEnter

LEMMA TypeCsLeave ==
  ASSUME TypeOK, NEW t \in Threads, NEW m \in Mutexes, NEW n \in Nat, CsLeave(t, m, n),
         csOwner[m] = t => csCount[m] >= n
  PROVE  csOwner' \in [Mutexes -> Threads \cup {None}] /\ csCount' \in [Mutexes -> Nat]
<1>1. CASE csOwner[m] # t
  BY <1>1 DEF TypeOK, CsLeave, csVars
<1>2. CASE csOwner[m] = t
  BY <1>2 DEF TypeOK, CsLeave
<1> QED BY <1>1, <1>2

-----------------------------------------------------------------------------
(* Frames: steps that do not concern the conds *)

Sleeping == {"asleep", "awake"}

\* A thread that is no waiter before or after keeps the sets of waiters.
LEMMA WaitersSame ==
  ASSUME TypeOK, NEW t \in Threads, NEW n,
         pc[t] \notin Sleeping, n \notin Sleeping,
         pc' = [pc EXCEPT ![t] = n],
         \A u \in Threads \ {t} : cnd'[u] = cnd[u]
  PROVE  \A c : WaitersOf(c)' = WaitersOf(c)
  BY DEF WaitersOf, TypeOK, Sleeping

LEMMA CondFrame ==
  ASSUME IInv, NEW t \in Threads, NEW n,
         pc[t] \notin Sleeping, n \notin Sleeping,
         pc' = [pc EXCEPT ![t] = n],
         \A u \in Threads \ {t} : cnd'[u] = cnd[u],
         UNCHANGED <<cActive, cMutex, committed, mActive, condCount>>
  PROVE  Counted' /\ CondsFirst'
<1> USE DEF IInv
<1>1. \A c : WaitersOf(c)' = WaitersOf(c)
  BY WaitersSame
<1>2. Counted'
  BY <1>1 DEF Counted
<1>3. \A m : {c \in Conds : cActive[c] /\ cMutex[c] = m}' = {c \in Conds : cActive[c] /\ cMutex[c] = m}
  OBVIOUS
<1>4. CondsFirst'
  BY <1>3 DEF CondsFirst
<1> QED BY <1>2, <1>4

-----------------------------------------------------------------------------
(* The mutex calls *)

\* Calls that only pass their checks.
LEMMA BeginStep ==
  ASSUME IInv, NEW t \in Threads, NEW m \in Mutexes, NEW n \in {"lock", "try", "cnew"},
         Begin(t, m, n), UNCHANGED <<cnd, saved, mutexVars, csVars, condVars>>,
         kind' \in [Threads -> Kinds]
  PROVE  IInv'
<1> USE DEF IInv
<1>1. /\ pc[t] = "idle" /\ mActive[m] /\ pc' = [pc EXCEPT ![t] = n] /\ mtx' = [mtx EXCEPT ![t] = m]
      /\ UNCHANGED <<cnd, saved, mActive, recursive, ownerTid, lockCount, condCount, csOwner, csCount,
                     cActive, cMutex, committed, pending, tids, owed>>
  BY DEF Begin, mutexVars, csVars, condVars
<1>2. TypeOK'
  BY <1>1 DEF TypeOK, PcValues, LockPcs
<1>3. Counted' /\ CondsFirst'
  BY <1>1, CondFrame DEF Sleeping
<1>4. Pinned'
  BY <1>1 DEF Pinned, TypeOK, LockPcs, SigPcs
<1>5. HoldersHold' /\ Released'
  BY <1>1 DEF CsInv, HoldersHold, Released, TypeOK, WaitPcs
<1>6. ASSUME NEW u \in Threads, NEW k \in Mutexes
      PROVE  (IF mtx[u] = k THEN Unbooked(u) ELSE 0)' = (IF mtx[u] = k THEN Unbooked(u) ELSE 0)
  BY <1>1 DEF Unbooked, TypeOK
<1>7. Pairing'
  BY <1>1, <1>6 DEF CsInv, Pairing, TypeOK
<1> QED BY <1>2, <1>3, <1>4, <1>5, <1>7 DEF CsInv

LEMMA LockEnterStep ==
  ASSUME IInv, NEW t \in Threads, LockEnter(t)
  PROVE  IInv'
<1> USE DEF IInv
<1> PICK m \in Mutexes : m = mtx[t]
  BY DEF TypeOK
<1>1. /\ pc[t] \in {"lock", "try"} /\ pc' = [pc EXCEPT ![t] = "publish"]
      /\ csOwner[m] \in {None, t}
      /\ csOwner' = [csOwner EXCEPT ![m] = t] /\ csCount' = [csCount EXCEPT ![m] = @ + 1]
      /\ UNCHANGED <<mtx, cnd, saved, kind, mActive, recursive, ownerTid, lockCount, condCount,
                     cActive, cMutex, committed, pending, tids, owed>>
  BY DEF LockEnter, CsEnter, CsFreeFor, Goto, mutexVars, condVars
<1>2. TypeOK'
  BY <1>1 DEF TypeOK, PcValues, LockPcs
<1>3. Counted' /\ CondsFirst'
  BY <1>1, CondFrame DEF Sleeping
<1>4. Pinned'
  BY <1>1 DEF Pinned, TypeOK, LockPcs, SigPcs
<1>5. HoldersHold' /\ Released'
  BY <1>1, ThreadsAssumption DEF CsInv, HoldersHold, Released, TypeOK, WaitPcs
<1>6. Pairing'
  <2>1. \A u \in Threads \ {t} : Unbooked(u)' = Unbooked(u)
    BY <1>1 DEF Unbooked, TypeOK
  <2>2. Unbooked(t) = 0 /\ Unbooked(t)' = 1
    BY <1>1 DEF Unbooked, TypeOK
  <2>3. \A u \in Threads \ {t} : csOwner[m] # u
    BY <1>1, ThreadsAssumption
  <2> QED BY <1>1, <2>1, <2>2, <2>3, ThreadsAssumption DEF CsInv, Pairing, TypeOK
<1> QED BY <1>2, <1>3, <1>4, <1>5, <1>6 DEF CsInv

LEMMA LockGiveUpStep ==
  ASSUME IInv, NEW t \in Threads, LockGiveUp(t)
  PROVE  IInv'
<1> USE DEF IInv
<1>1. /\ pc[t] \in {"lock", "try"} /\ pc' = [pc EXCEPT ![t] = "idle"]
      /\ UNCHANGED <<mtx, cnd, saved, kind, mActive, recursive, ownerTid, lockCount, condCount,
                     csOwner, csCount, cActive, cMutex, committed, pending, tids, owed>>
  BY DEF LockGiveUp, Return, mutexVars, csVars, condVars
<1>2. TypeOK' /\ Pinned'
  BY <1>1 DEF TypeOK, PcValues, Pinned, LockPcs, SigPcs
<1>3. Counted' /\ CondsFirst'
  BY <1>1, CondFrame DEF Sleeping
<1>4. HoldersHold' /\ Released'
  BY <1>1 DEF CsInv, HoldersHold, Released, TypeOK, WaitPcs
<1>5. \A u \in Threads : Unbooked(u)' = Unbooked(u)
  BY <1>1 DEF Unbooked, TypeOK
<1>6. Pairing'
  BY <1>1, <1>5 DEF CsInv, Pairing, TypeOK
<1> QED BY <1>2, <1>3, <1>4, <1>6 DEF CsInv

LEMMA LockPublishStep ==
  ASSUME IInv, NEW t \in Threads, LockPublish(t)
  PROVE  IInv'
<1> USE DEF IInv
<1> PICK m \in Mutexes : m = mtx[t]
  BY DEF TypeOK
<1>1. /\ pc[t] = "publish" /\ pc' = [pc EXCEPT ![t] = "idle"]
      /\ ownerTid' = [ownerTid EXCEPT ![m] = t] /\ lockCount' = [lockCount EXCEPT ![m] = @ + 1]
      /\ UNCHANGED <<mtx, cnd, saved, kind, mActive, recursive, condCount, csOwner, csCount,
                     cActive, cMutex, committed, pending, tids, owed>>
  BY DEF LockPublish, Return, csVars, condVars
<1>2. TypeOK' /\ Pinned'
  BY <1>1 DEF TypeOK, PcValues, Pinned, LockPcs, SigPcs
<1>3. Counted' /\ CondsFirst'
  BY <1>1, CondFrame DEF Sleeping
<1>4. HoldersHold' /\ Released'
  BY <1>1 DEF CsInv, HoldersHold, Released, TypeOK, WaitPcs
<1>5. csOwner[m] = t
  BY <1>1 DEF CsInv, HoldersHold
<1>6. Pairing'
  <2>1. \A u \in Threads \ {t} : Unbooked(u)' = Unbooked(u)
    BY <1>1 DEF Unbooked, TypeOK
  <2>2. Unbooked(t) = 1 /\ Unbooked(t)' = 0
    BY <1>1 DEF Unbooked, TypeOK
  <2> QED BY <1>1, <1>5, <2>1, <2>2, ThreadsAssumption DEF CsInv, Pairing, TypeOK
<1> QED BY <1>2, <1>3, <1>4, <1>6 DEF CsInv

\* The caller owns the mutex and is idle, so it holds the CS and no level is unbooked.
LEMMA IdleOwner ==
  ASSUME IInv, NEW t \in Threads, NEW m \in Mutexes, pc[t] = "idle", ownerTid[m] = t
  PROVE  csOwner[m] = t /\ lockCount[m] > 0 /\ csCount[m] = lockCount[m]
<1>1. Unbooked(t) = 0
  BY DEF Unbooked
<1> QED BY <1>1, ThreadsAssumption DEF IInv, CsInv, Pairing, TypeOK

LEMMA UnlockCallStep ==
  ASSUME IInv, NEW t \in Threads, NEW m \in Mutexes, UnlockCall(t, m)
  PROVE  IInv'
<1> USE DEF IInv
<1>1. /\ pc[t] = "idle" /\ mActive[m] /\ ownerTid[m] = t
      /\ pc' = [pc EXCEPT ![t] = "leave"] /\ mtx' = [mtx EXCEPT ![t] = m]
      /\ lockCount' = [lockCount EXCEPT ![m] = @ - 1]
      /\ ownerTid' = [ownerTid EXCEPT ![m] = IF lockCount[m] = 1 THEN None ELSE @]
      /\ UNCHANGED <<cnd, saved, kind, mActive, recursive, condCount, csOwner, csCount,
                     cActive, cMutex, committed, pending, tids, owed>>
  BY DEF UnlockCall, OwnerAfterUnlock, Begin, csVars, condVars
<1>2. csOwner[m] = t /\ lockCount[m] > 0 /\ csCount[m] = lockCount[m]
  BY <1>1, IdleOwner
<1>3. TypeOK' /\ Pinned'
  BY <1>1, <1>2 DEF TypeOK, PcValues, Pinned, LockPcs, SigPcs
<1>4. Counted' /\ CondsFirst'
  BY <1>1, CondFrame DEF Sleeping
<1>5. HoldersHold' /\ Released'
  BY <1>1, <1>2 DEF CsInv, HoldersHold, Released, TypeOK, WaitPcs
<1>6. Pairing'
  <2>1. \A u \in Threads \ {t} : Unbooked(u)' = Unbooked(u) /\ mtx'[u] = mtx[u]
    BY <1>1 DEF Unbooked, TypeOK
  <2>2. Unbooked(t) = 0 /\ Unbooked(t)' = 1 /\ mtx'[t] = m
    BY <1>1 DEF Unbooked, TypeOK
  <2> QED BY <1>1, <1>2, <2>1, <2>2, ThreadsAssumption DEF CsInv, Pairing, TypeOK
<1> QED BY <1>3, <1>4, <1>5, <1>6 DEF CsInv

LEMMA UnlockLeaveStep ==
  ASSUME IInv, NEW t \in Threads, UnlockLeave(t)
  PROVE  IInv'
<1> USE DEF IInv
<1> PICK m \in Mutexes : m = mtx[t]
  BY DEF TypeOK
<1>0. pc[t] = "leave" /\ csOwner[m] = t
  BY DEF UnlockLeave, CsInv, HoldersHold
<1>1. /\ pc' = [pc EXCEPT ![t] = "idle"]
      /\ csCount' = [csCount EXCEPT ![m] = @ - 1]
      /\ csOwner' = [csOwner EXCEPT ![m] = IF csCount[m] = 1 THEN None ELSE @]
      /\ UNCHANGED <<mtx, cnd, saved, kind, mActive, recursive, ownerTid, lockCount, condCount,
                     cActive, cMutex, committed, pending, tids, owed>>
  BY <1>0 DEF UnlockLeave, CsLeave, Return, mutexVars, condVars
<1>2. /\ Unbooked(t) = 1 /\ Unbooked(t)' = 0
      /\ \A u \in Threads \ {t} : Unbooked(u)' = Unbooked(u)
  BY <1>0, <1>1 DEF Unbooked, TypeOK
<1>3. csCount[m] = lockCount[m] + 1
  BY <1>0, <1>2, ThreadsAssumption DEF CsInv, Pairing, TypeOK
<1>4. TypeOK' /\ Pinned'
  BY <1>0, <1>1, <1>3 DEF TypeOK, PcValues, Pinned, LockPcs, SigPcs
<1>5. Counted' /\ CondsFirst'
  BY <1>0, <1>1, CondFrame DEF Sleeping
<1>6. HoldersHold' /\ Released'
  BY <1>0, <1>1, ThreadsAssumption DEF CsInv, HoldersHold, Released, TypeOK, WaitPcs
<1>7. Pairing'
  BY <1>0, <1>1, <1>2, <1>3, ThreadsAssumption DEF CsInv, Pairing, TypeOK
<1> QED BY <1>4, <1>5, <1>6, <1>7 DEF CsInv

LEMMA MutexCreateStep ==
  ASSUME IInv, NEW t \in Threads, NEW m \in Mutexes, NEW rec \in BOOLEAN, MutexCreate(t, m, rec)
  PROVE  IInv'
<1> USE DEF IInv
<1>1. /\ ~mActive[m] /\ mActive' = [mActive EXCEPT ![m] = TRUE]
      /\ recursive' = [recursive EXCEPT ![m] = rec]
      /\ ownerTid' = [ownerTid EXCEPT ![m] = None] /\ lockCount' = [lockCount EXCEPT ![m] = 0]
      /\ condCount' = [condCount EXCEPT ![m] = 0]
      /\ csOwner' = [csOwner EXCEPT ![m] = None] /\ csCount' = [csCount EXCEPT ![m] = 0]
      /\ UNCHANGED <<pc, mtx, cnd, saved, kind, cActive, cMutex, committed, pending, tids, owed>>
  BY DEF MutexCreate, condVars, callVars
<1>2. TypeOK'
  <2>1. recursive' \in [Mutexes -> BOOLEAN] /\ mActive' \in [Mutexes -> BOOLEAN]
    BY <1>1, Zenon DEF TypeOK
  <2> QED BY <1>1, <2>1 DEF TypeOK
<1>3. Pinned'
  BY <1>1 DEF Pinned, TypeOK
<1>4. Counted'
  BY <1>1 DEF Counted, WaitersOf
<1>5. HoldersHold' /\ Released'
  BY <1>1, ThreadsAssumption DEF CsInv, HoldersHold, Released, TypeOK, Pinned, LockPcs, WaitPcs, CondsFirst
<1>6. Pairing'
  BY <1>1 DEF CsInv, Pairing, TypeOK, Unbooked
<1>7. CondsFirst'
  <2>0. \A k \in Mutexes : mActive[k] => condCount[k] = Cardinality(CondsOf(k))
    BY DEF CondsFirst, CondsOf
  <2>1. CondsOf(m) = {} /\ \A k : CondsOf(k)' = CondsOf(k)
    BY <1>1 DEF CondsFirst, CondsOf
  <2>2. ASSUME NEW k \in Mutexes, mActive'[k] PROVE condCount'[k] = Cardinality(CondsOf(k)')
    BY <1>1, <2>0, <2>1, <2>2, FS_EmptySet DEF TypeOK
  <2>3. \A d \in Conds : cActive'[d] => mActive'[cMutex'[d]]
    BY <1>1 DEF CondsFirst, TypeOK
  <2> QED BY <2>2, <2>3 DEF CondsFirst, CondsOf
<1> QED BY <1>2, <1>3, <1>4, <1>5, <1>6, <1>7 DEF CsInv

\* The guards of destroy leave nobody who holds the CS and no cond on the mutex.
LEMMA Abandoned ==
  ASSUME IInv, RacyTeardown = FALSE, NEW t \in Threads, NEW m \in Mutexes, MutexDestroy(t, m)
  PROVE  /\ csOwner[m] = None /\ csCount[m] = 0 /\ lockCount[m] = 0
         /\ \A c \in Conds : cActive[c] => cMutex[c] # m
<1> USE DEF IInv
<1>1. mActive[m] /\ ownerTid[m] = None /\ condCount[m] <= 0 /\ ExposedOn(m) = {}
  BY DEF MutexDestroy, Destroyable
<1>2. CondsOf(m) = {}
  <2>1. condCount[m] = Cardinality(CondsOf(m))
    BY <1>1 DEF CondsFirst, CondsOf
  <2> QED BY <1>1, <2>1, Finite, FS_EmptySet
<1>3. \A c \in Conds : cActive[c] => cMutex[c] # m
  BY <1>2 DEF CondsOf
<1>4. csOwner[m] = None
  <2> SUFFICES ASSUME csOwner[m] # None PROVE FALSE
    OBVIOUS
  <2> PICK h \in Threads : h = csOwner[m]
    BY DEF TypeOK
  <2>1. csCount[m] > 0 /\ csCount[m] = lockCount[m] + (IF mtx[h] = m THEN Unbooked(h) ELSE 0) /\ lockCount[m] = 0
    BY <1>1, ThreadsAssumption DEF CsInv, Pairing, TypeOK
  <2>0. Unbooked(h) \in Nat
    BY DEF Unbooked, TypeOK
  <2>2. mtx[h] = m /\ Unbooked(h) > 0
    BY <2>0, <2>1 DEF TypeOK
  <2>3. pc[h] \in {"publish", "leave", "commit", "restore"}
    BY <2>2 DEF Unbooked
  <2>4. pc[h] # "commit"
    BY <1>3, <2>2 DEF Pinned, TypeOK
  <2> QED BY <1>1, <2>2, <2>3, <2>4 DEF ExposedOn, LockPcs
<1> QED BY <1>3, <1>4 DEF CsInv, Pairing

LEMMA MutexDestroyStep ==
  ASSUME IInv, RacyTeardown = FALSE, NEW t \in Threads, NEW m \in Mutexes, MutexDestroy(t, m)
  PROVE  IInv'
<1> USE DEF IInv
<1>1. /\ mActive[m] /\ ownerTid[m] = None /\ ExposedOn(m) = {}
      /\ mActive' = [mActive EXCEPT ![m] = FALSE]
      /\ csOwner' = [csOwner EXCEPT ![m] = None] /\ csCount' = [csCount EXCEPT ![m] = 0]
      /\ UNCHANGED <<recursive, ownerTid, lockCount, condCount, pc, mtx, cnd, saved, kind,
                     cActive, cMutex, committed, pending, tids, owed>>
  BY DEF MutexDestroy, Destroyable, condVars, callVars
<1>2. /\ csOwner[m] = None /\ csCount[m] = 0 /\ lockCount[m] = 0
      /\ \A c \in Conds : cActive[c] => cMutex[c] # m
  BY Abandoned
<1>3. csOwner' = csOwner /\ csCount' = csCount
  BY <1>1, <1>2 DEF TypeOK
<1>4. TypeOK' /\ Pinned'
  BY <1>1, <1>2, <1>3 DEF TypeOK, Pinned, ExposedOn, LockPcs
<1>5. Counted'
  BY <1>1 DEF Counted, WaitersOf
<1>6. HoldersHold' /\ Released' /\ Pairing'
  BY <1>1, <1>3 DEF CsInv, HoldersHold, Released, Pairing, Unbooked
<1>7. CondsFirst'
  BY <1>1, <1>2 DEF CondsFirst, TypeOK
<1> QED BY <1>4, <1>5, <1>6, <1>7 DEF CsInv

-----------------------------------------------------------------------------
(* cond create and destroy *)

\* Frame for steps that leave the CS, its bookkeeping and the waits alone.
LEMMA CsFrame ==
  ASSUME IInv, NEW t \in Threads, NEW n \in {"idle"} \cup SigPcs, pc[t] \in {"idle", "cnew"} \cup SigPcs,
         pc' = [pc EXCEPT ![t] = n],
         UNCHANGED <<mtx, saved, ownerTid, lockCount, csOwner, csCount>>
  PROVE  CsInv'
<1> USE DEF IInv
<1>1. HoldersHold' /\ Released'
  BY DEF CsInv, HoldersHold, Released, TypeOK, WaitPcs, SigPcs
<1>2. \A u \in Threads : Unbooked(u)' = Unbooked(u)
  BY DEF Unbooked, TypeOK, SigPcs
<1>3. Pairing'
  BY <1>2 DEF CsInv, Pairing, TypeOK
<1> QED BY <1>1, <1>3 DEF CsInv

LEMMA CondCreateStep ==
  ASSUME IInv, NEW t \in Threads, NEW c \in Conds, CondCreate(t, c)
  PROVE  IInv'
<1> USE DEF IInv
<1> PICK m \in Mutexes : m = mtx[t]
  BY DEF TypeOK
<1>1. /\ pc[t] = "cnew" /\ ~cActive[c] /\ pc' = [pc EXCEPT ![t] = "idle"]
      /\ cActive' = [cActive EXCEPT ![c] = TRUE] /\ cMutex' = [cMutex EXCEPT ![c] = m]
      /\ committed' = [committed EXCEPT ![c] = 0] /\ pending' = [pending EXCEPT ![c] = 0]
      /\ tids' = [tids EXCEPT ![c] = {}]
      /\ condCount' = [condCount EXCEPT ![m] = @ + 1]
      /\ UNCHANGED <<mtx, cnd, saved, kind, mActive, recursive, ownerTid, lockCount, csOwner, csCount, owed>>
  BY DEF CondCreate, Return, csVars
<1>2. TypeOK'
  BY <1>1 DEF TypeOK, PcValues
<1>3. CsInv'
  BY <1>1, CsFrame
<1>4. Pinned'
  BY <1>1 DEF Pinned, TypeOK, LockPcs, SigPcs
<1>5. Counted'
  <2>1. \A d : WaitersOf(d)' = WaitersOf(d)
    BY <1>1, WaitersSame DEF Sleeping
  <2>2. WaitersOf(c) = {}
    BY <1>1 DEF WaitersOf, Pinned
  <2> QED BY <1>1, <2>1, <2>2, FS_EmptySet DEF Counted, TypeOK
<1>6. CondsFirst'
  <2>1. mActive[m]
    BY <1>1 DEF Pinned
  <2>2. CondsOf(m)' = CondsOf(m) \cup {c} /\ c \notin CondsOf(m)
    BY <1>1 DEF CondsOf, TypeOK
  <2>3. \A k \in Mutexes \ {m} : CondsOf(k)' = CondsOf(k)
    BY <1>1 DEF CondsOf, TypeOK
  <2>4. Cardinality(CondsOf(m) \cup {c}) = Cardinality(CondsOf(m)) + 1
    BY <2>2, Finite, FS_AddElement
  <2>0. \A k \in Mutexes : mActive[k] => condCount[k] = Cardinality(CondsOf(k))
    BY DEF CondsFirst, CondsOf
  <2>5. ASSUME NEW k \in Mutexes, mActive'[k] PROVE condCount'[k] = Cardinality(CondsOf(k)')
    <3>1. CASE k = m
      BY <1>1, <2>0, <2>1, <2>2, <2>4, <3>1 DEF TypeOK
    <3>2. CASE k # m
      BY <1>1, <2>0, <2>3, <2>5, <3>2 DEF TypeOK
    <3> QED BY <3>1, <3>2
  <2>6. \A d \in Conds : cActive'[d] => mActive'[cMutex'[d]]
    BY <1>1, <2>1 DEF CondsFirst, TypeOK
  <2> QED BY <2>5, <2>6 DEF CondsFirst, CondsOf
<1> QED BY <1>2, <1>3, <1>4, <1>5, <1>6

LEMMA CondDestroyStep ==
  ASSUME IInv, RacyTeardown = FALSE, NEW t \in Threads, NEW c \in Conds, CondDestroy(t, c)
  PROVE  IInv'
<1> USE DEF IInv
<1> PICK m \in Mutexes : m = cMutex[c]
  BY DEF TypeOK
<1>1. /\ cActive[c] /\ committed[c] <= 0 /\ ExposedOnCond(c) = {}
      /\ cActive' = [cActive EXCEPT ![c] = FALSE]
      /\ condCount' = [condCount EXCEPT ![m] = IF mActive[m] /\ @ > 0 THEN @ - 1 ELSE @]
      /\ UNCHANGED <<mActive, recursive, ownerTid, lockCount, csOwner, csCount, cMutex, committed,
                     pending, tids, owed, pc, mtx, cnd, saved, kind>>
  BY DEF CondDestroy, NoWaiter, csVars, callVars
<1>2. WaitersOf(c) = {}
  BY <1>1, Finite, FS_EmptySet DEF Counted
<1>3. TypeOK'
  BY <1>1 DEF TypeOK
<1>4. CsInv'
  BY <1>1 DEF CsInv, HoldersHold, Released, Pairing, Unbooked
<1>5. Pinned'
  BY <1>1, <1>2 DEF Pinned, TypeOK, WaitersOf, ExposedOnCond
<1>6. Counted'
  BY <1>1 DEF Counted, TypeOK, WaitersOf
<1>7. CondsFirst'
  <2>0. \A k \in Mutexes : mActive[k] => condCount[k] = Cardinality(CondsOf(k))
    BY DEF CondsFirst, CondsOf
  <2>1. mActive[m]
    BY <1>1 DEF CondsFirst
  <2>2. CondsOf(m)' = CondsOf(m) \ {c} /\ c \in CondsOf(m)
    BY <1>1 DEF CondsOf, TypeOK
  <2>3. \A k \in Mutexes \ {m} : CondsOf(k)' = CondsOf(k)
    BY <1>1 DEF CondsOf, TypeOK
  <2>4. Cardinality(CondsOf(m) \ {c}) = Cardinality(CondsOf(m)) - 1 /\ Cardinality(CondsOf(m)) > 0
    <3>1. IsFiniteSet(CondsOf(m)) /\ Cardinality(CondsOf(m)) \in Nat
      BY Finite
    <3> QED BY <2>2, <3>1, FS_RemoveElement, FS_EmptySet
  <2>5. ASSUME NEW k \in Mutexes, mActive'[k] PROVE condCount'[k] = Cardinality(CondsOf(k)')
    <3>1. CASE k = m
      BY <1>1, <2>0, <2>1, <2>2, <2>4, <3>1 DEF TypeOK
    <3>2. CASE k # m
      BY <1>1, <2>0, <2>3, <2>5, <3>2 DEF TypeOK
    <3> QED BY <3>1, <3>2
  <2>6. \A d \in Conds : cActive'[d] => mActive'[cMutex'[d]]
    BY <1>1 DEF CondsFirst, TypeOK
  <2> QED BY <2>5, <2>6 DEF CondsFirst, CondsOf
<1> QED BY <1>3, <1>4, <1>5, <1>6, <1>7

-----------------------------------------------------------------------------
(* sys_cond_wait *)

LEMMA WaitCallStep ==
  ASSUME IInv, NEW t \in Threads, NEW c \in Conds, NEW k \in Kinds, WaitCall(t, c, k)
  PROVE  IInv'
<1> USE DEF IInv
<1> PICK m \in Mutexes : m = cMutex[c]
  BY DEF TypeOK
<1>1. /\ pc[t] = "idle" /\ cActive[c] /\ mActive[m] /\ ownerTid[m] = t
      /\ pc' = [pc EXCEPT ![t] = "commit"] /\ mtx' = [mtx EXCEPT ![t] = m]
      /\ cnd' = [cnd EXCEPT ![t] = c] /\ saved' = [saved EXCEPT ![t] = lockCount[m]]
      /\ kind' = [kind EXCEPT ![t] = k]
      /\ ownerTid' = [ownerTid EXCEPT ![m] = None] /\ lockCount' = [lockCount EXCEPT ![m] = 0]
      /\ UNCHANGED <<mActive, recursive, condCount, csOwner, csCount, cActive, cMutex, committed,
                     pending, tids, owed>>
  BY DEF WaitCall, csVars, condVars
<1>2. csOwner[m] = t /\ lockCount[m] > 0 /\ csCount[m] = lockCount[m]
  BY <1>1, IdleOwner
<1>3. TypeOK'
  BY <1>1 DEF TypeOK, PcValues, WaitPcs
<1>4. Counted' /\ CondsFirst'
  BY <1>1, CondFrame DEF Sleeping, TypeOK
<1>5. Pinned'
  BY <1>1 DEF Pinned, TypeOK, LockPcs, SigPcs
<1>6. HoldersHold' /\ Released'
  BY <1>1, <1>2 DEF CsInv, HoldersHold, Released, TypeOK, WaitPcs
<1>7. Pairing'
  <2>1. \A u \in Threads \ {t} : Unbooked(u)' = Unbooked(u) /\ mtx'[u] = mtx[u]
    BY <1>1 DEF Unbooked, TypeOK
  <2>2. Unbooked(t) = 0 /\ Unbooked(t)' = lockCount[m] /\ mtx'[t] = m
    BY <1>1 DEF Unbooked, TypeOK
  <2> QED BY <1>1, <1>2, <2>1, <2>2, ThreadsAssumption DEF CsInv, Pairing, TypeOK
<1> QED BY <1>3, <1>4, <1>5, <1>6, <1>7 DEF CsInv

\* All levels of the CS go: the saved count is the CS's count.
LEMMA CommitLeaves ==
  ASSUME IInv, NEW t \in Threads, NEW m \in Mutexes, m = mtx[t], WaitCommit(t)
  PROVE  /\ pc[t] = "commit" /\ csOwner[m] = t /\ lockCount[m] = 0 /\ ownerTid[m] = None
         /\ csOwner' = [csOwner EXCEPT ![m] = None] /\ csCount' = [csCount EXCEPT ![m] = 0]
<1> USE DEF IInv
<1>1. pc[t] = "commit" /\ CsLeave(t, m, saved[t])
  BY DEF WaitCommit
<1>2. csOwner[m] = t /\ Unbooked(t) = saved[t] /\ saved[t] > 0 /\ saved[t] \in Nat
  BY <1>1 DEF CsInv, HoldersHold, Released, Unbooked, WaitPcs, TypeOK
<1>3. csCount[m] = lockCount[m] + saved[t] /\ ownerTid[m] = (IF lockCount[m] > 0 THEN t ELSE None)
  BY <1>2, ThreadsAssumption DEF CsInv, Pairing
<1>4. lockCount[m] = 0
  BY <1>1 DEF CsInv, Released
<1> QED BY <1>1, <1>2, <1>3, <1>4 DEF CsLeave, TypeOK

\* Conds and mutexes stay: the invariant that relates them is untouched.
LEMMA CondsFirstFrame ==
  ASSUME IInv, UNCHANGED <<cActive, cMutex, mActive, condCount>>
  PROVE  CondsFirst'
<1>1. \A m : CondsOf(m)' = CondsOf(m)
  BY DEF CondsOf
<1> QED BY <1>1 DEF IInv, CondsFirst, CondsOf

LEMMA WaitCommitStep ==
  ASSUME IInv, NEW t \in Threads, WaitCommit(t)
  PROVE  IInv'
<1> USE DEF IInv
<1> PICK m \in Mutexes, c \in Conds : m = mtx[t] /\ c = cnd[t]
  BY DEF TypeOK
<1>1. /\ pc[t] = "commit" /\ csOwner[m] = t /\ lockCount[m] = 0 /\ ownerTid[m] = None
      /\ csOwner' = [csOwner EXCEPT ![m] = None] /\ csCount' = [csCount EXCEPT ![m] = 0]
  BY CommitLeaves
<1>2. PICK n \in {"reacquire", "awake", "asleep"} :
         /\ pc' = [pc EXCEPT ![t] = n]
         /\ committed' = [committed EXCEPT ![c] = IF n = "reacquire" THEN @ ELSE @ + 1]
         /\ pending' = [pending EXCEPT ![c] = IF pending[c] # 0 THEN @ - 1 ELSE @]
         /\ tids' = [tids EXCEPT ![c] = IF pending[c] # 0 THEN @ ELSE TidsWith(c, t)]
         /\ UNCHANGED <<mtx, cnd, saved, kind, mActive, recursive, ownerTid, lockCount, condCount,
                        cActive, cMutex, owed>>
  BY Zenon DEF WaitCommit, Goto, mutexVars
<1>3. TypeOK'
  <2>1. TidsWith(c, t) \in SUBSET Threads
    BY DEF TidsWith, TypeOK
  <2> QED BY <1>1, <1>2, <2>1 DEF TypeOK, PcValues, WaitPcs
<1>4. cActive[c] /\ cMutex[c] = m /\ mActive[m]
  BY <1>1 DEF Pinned, CondsFirst
<1>5. Pinned'
  BY <1>1, <1>2, <1>4 DEF Pinned, TypeOK, LockPcs, SigPcs
<1>6. HoldersHold' /\ Released'
  BY <1>1, <1>2, ThreadsAssumption DEF CsInv, HoldersHold, Released, TypeOK, WaitPcs
<1>7. Pairing'
  <2>1. \A u \in Threads \ {t} : Unbooked(u)' = Unbooked(u)
    BY <1>2 DEF Unbooked, TypeOK
  <2> QED BY <1>1, <1>2, <2>1, ThreadsAssumption DEF CsInv, Pairing, TypeOK
<1>8. CondsFirst'
  BY <1>2, CondsFirstFrame
<1>9. Counted'
  <2>1. \A d \in Conds \ {c} : WaitersOf(d)' = WaitersOf(d)
    BY <1>2 DEF WaitersOf, TypeOK
  <2>2. CASE n = "reacquire"
    <3>1. WaitersOf(c)' = WaitersOf(c)
      BY <1>1, <1>2, <2>2 DEF WaitersOf, TypeOK
    <3> QED BY <1>2, <2>1, <2>2, <3>1 DEF Counted, TypeOK
  <2>3. CASE n # "reacquire"
    <3>1. WaitersOf(c)' = WaitersOf(c) \cup {t} /\ t \notin WaitersOf(c)
      BY <1>1, <1>2, <2>3 DEF WaitersOf, TypeOK
    <3>2. Cardinality(WaitersOf(c) \cup {t}) = Cardinality(WaitersOf(c)) + 1
      BY <3>1, Finite, FS_AddElement
    <3> QED BY <1>2, <2>1, <2>3, <3>1, <3>2 DEF Counted, TypeOK
  <2> QED BY <2>2, <2>3
<1> QED BY <1>3, <1>5, <1>6, <1>7, <1>8, <1>9 DEF CsInv

\* A waiter that stays a waiter.
LEMMA SleepStep ==
  ASSUME IInv, NEW t \in Threads, WaitCvReturns(t) \/ WaitResleep(t)
  PROVE  IInv'
<1> USE DEF IInv
<1>1. PICK n \in Sleeping :
         /\ pc[t] \in Sleeping /\ pc' = [pc EXCEPT ![t] = n]
         /\ UNCHANGED <<mtx, cnd, saved, kind, mActive, recursive, ownerTid, lockCount, condCount,
                        csOwner, csCount, cActive, cMutex, committed, pending, tids, owed>>
  BY Zenon DEF WaitCvReturns, WaitResleep, Goto, mutexVars, csVars, condVars, Sleeping
<1>2. TypeOK' /\ Pinned'
  BY <1>1 DEF TypeOK, PcValues, WaitPcs, Pinned, LockPcs, SigPcs, Sleeping
<1>3. HoldersHold' /\ Released'
  BY <1>1 DEF CsInv, HoldersHold, Released, TypeOK, WaitPcs, Sleeping
<1>4. Pairing'
  <2>1. \A u \in Threads : Unbooked(u)' = Unbooked(u)
    BY <1>1 DEF Unbooked, TypeOK, Sleeping
  <2> QED BY <1>1, <2>1 DEF CsInv, Pairing, TypeOK
<1>5. \A c : WaitersOf(c)' = WaitersOf(c)
  BY <1>1 DEF WaitersOf, TypeOK, Sleeping
<1>6. Counted' /\ CondsFirst'
  BY <1>1, <1>5, CondsFirstFrame DEF Counted
<1> QED BY <1>2, <1>3, <1>4, <1>6 DEF CsInv

LEMMA WaitEndsStep ==
  ASSUME IInv, NEW t \in Threads, NEW k \in {0, 1}, pc[t] = "awake", WaitEnds(t, k)
  PROVE  IInv'
<1> USE DEF IInv
<1> PICK c \in Conds : c = cnd[t]
  BY DEF TypeOK
<1>1. /\ pc' = [pc EXCEPT ![t] = "reacquire"]
      /\ pending' = [pending EXCEPT ![c] = @ - k]
      /\ committed' = [committed EXCEPT ![c] = @ - 1]
      /\ tids' = [tids EXCEPT ![c] = @ \ {t}] /\ owed' = owed \ {t}
      /\ UNCHANGED <<mtx, cnd, saved, kind, mActive, recursive, ownerTid, lockCount, condCount,
                     csOwner, csCount, cActive, cMutex>>
  BY DEF WaitEnds, Goto, mutexVars, csVars
<1>2. TypeOK'
  BY <1>1 DEF TypeOK, PcValues, WaitPcs
<1>3. Pinned'
  BY <1>1 DEF Pinned, TypeOK, LockPcs, SigPcs, CondsFirst
<1>4. HoldersHold' /\ Released'
  BY <1>1 DEF CsInv, HoldersHold, Released, TypeOK, WaitPcs
<1>5. Pairing'
  <2>1. \A u \in Threads : Unbooked(u)' = Unbooked(u)
    BY <1>1 DEF Unbooked, TypeOK
  <2> QED BY <1>1, <2>1 DEF CsInv, Pairing, TypeOK
<1>6. Counted'
  <2>1. \A d \in Conds \ {c} : WaitersOf(d)' = WaitersOf(d)
    BY <1>1 DEF WaitersOf, TypeOK
  <2>2. WaitersOf(c)' = WaitersOf(c) \ {t} /\ t \in WaitersOf(c)
    BY <1>1 DEF WaitersOf, TypeOK
  <2>3. Cardinality(WaitersOf(c) \ {t}) = Cardinality(WaitersOf(c)) - 1
    BY <2>2, Finite, FS_RemoveElement
  <2> QED BY <1>1, <2>1, <2>2, <2>3 DEF Counted, TypeOK
<1>7. CondsFirst'
  BY <1>1, CondsFirstFrame
<1> QED BY <1>2, <1>3, <1>4, <1>5, <1>6, <1>7 DEF CsInv

LEMMA WaitReacquireStep ==
  ASSUME IInv, NEW t \in Threads, WaitReacquire(t)
  PROVE  IInv'
<1> USE DEF IInv
<1> PICK m \in Mutexes : m = mtx[t]
  BY DEF TypeOK
<1>0. pc[t] = "reacquire" /\ csOwner[m] = None /\ saved[t] > 0
  BY DEF WaitReacquire, CsEnter, CsFreeFor, CsInv, Released, WaitPcs
<1>1. /\ pc' = [pc EXCEPT ![t] = "restore"]
      /\ csOwner' = [csOwner EXCEPT ![m] = t] /\ csCount' = [csCount EXCEPT ![m] = @ + saved[t]]
      /\ UNCHANGED <<mtx, cnd, saved, kind, mActive, recursive, ownerTid, lockCount, condCount,
                     cActive, cMutex, committed, pending, tids, owed>>
  BY DEF WaitReacquire, LevelsBack, CsEnter, Goto, mutexVars, condVars
<1>2. csCount[m] = 0 /\ lockCount[m] = 0 /\ ownerTid[m] = None
  BY <1>0 DEF CsInv, Pairing
<1>3. TypeOK' /\ Pinned'
  BY <1>0, <1>1 DEF TypeOK, PcValues, WaitPcs, Pinned, LockPcs, SigPcs
<1>4. Counted' /\ CondsFirst'
  BY <1>0, <1>1, CondFrame DEF Sleeping
<1>5. HoldersHold' /\ Released'
  BY <1>0, <1>1, <1>2, ThreadsAssumption DEF CsInv, HoldersHold, Released, TypeOK, WaitPcs
<1>6. Pairing'
  <2>1. \A u \in Threads \ {t} : Unbooked(u)' = Unbooked(u)
    BY <1>1 DEF Unbooked, TypeOK
  <2>2. Unbooked(t)' = saved[t]
    BY <1>1 DEF Unbooked, TypeOK
  <2> QED BY <1>0, <1>1, <1>2, <2>1, <2>2, ThreadsAssumption DEF CsInv, Pairing, TypeOK
<1> QED BY <1>3, <1>4, <1>5, <1>6 DEF CsInv

LEMMA WaitRestoreStep ==
  ASSUME IInv, NEW t \in Threads, WaitRestore(t)
  PROVE  IInv'
<1> USE DEF IInv
<1> PICK m \in Mutexes : m = mtx[t]
  BY DEF TypeOK
<1>0. pc[t] = "restore" /\ csOwner[m] = t /\ lockCount[m] = 0 /\ saved[t] > 0
  BY DEF WaitRestore, CsInv, HoldersHold, Released, WaitPcs
<1>1. /\ pc' = [pc EXCEPT ![t] = "idle"]
      /\ ownerTid' = [ownerTid EXCEPT ![m] = t] /\ lockCount' = [lockCount EXCEPT ![m] = saved[t]]
      /\ UNCHANGED <<mtx, cnd, saved, kind, mActive, recursive, condCount, csOwner, csCount,
                     cActive, cMutex, committed, pending, tids, owed>>
  BY DEF WaitRestore, Return, csVars, condVars
<1>3. TypeOK' /\ Pinned'
  BY <1>0, <1>1 DEF TypeOK, PcValues, Pinned, LockPcs, SigPcs
<1>4. Counted' /\ CondsFirst'
  BY <1>0, <1>1, CondFrame DEF Sleeping
<1>5. HoldersHold' /\ Released'
  BY <1>0, <1>1 DEF CsInv, HoldersHold, Released, TypeOK, WaitPcs
<1>6. Pairing'
  <2>1. \A u \in Threads \ {t} : Unbooked(u)' = Unbooked(u)
    BY <1>1 DEF Unbooked, TypeOK
  <2>2. Unbooked(t) = saved[t] /\ Unbooked(t)' = 0
    BY <1>0, <1>1 DEF Unbooked, TypeOK
  <2> QED BY <1>0, <1>1, <2>1, <2>2, ThreadsAssumption DEF CsInv, Pairing, TypeOK
<1> QED BY <1>3, <1>4, <1>5, <1>6 DEF CsInv

-----------------------------------------------------------------------------
(* signals *)

LEMMA SignalCallStep ==
  ASSUME IInv, NEW t \in Threads, NEW c \in Conds, NEW how \in SigPcs, SignalCall(t, c, how)
  PROVE  IInv'
<1> USE DEF IInv
<1>1. /\ pc[t] = "idle" /\ cActive[c] /\ pc' = [pc EXCEPT ![t] = how]
      /\ cnd' = [cnd EXCEPT ![t] = c]
      /\ UNCHANGED <<mtx, saved, kind, mActive, recursive, ownerTid, lockCount, condCount,
                     csOwner, csCount, cActive, cMutex, committed, pending, tids, owed>>
  BY DEF SignalCall, mutexVars, csVars, condVars
<1>2. TypeOK' /\ Pinned'
  BY <1>1 DEF TypeOK, PcValues, Pinned, LockPcs, SigPcs
<1>3. Counted' /\ CondsFirst'
  BY <1>1, CondFrame DEF Sleeping, SigPcs, TypeOK
<1>4. CsInv'
  BY <1>1, CsFrame
<1> QED BY <1>2, <1>3, <1>4

\* The signaller returns; some sleepers of its cond are moved to "awake".
LEMMA DeliverStep ==
  ASSUME IInv, NEW t \in Threads, NEW W \in SUBSET Threads, pc[t] \in SigPcs,
         \A u \in W : pc[u] = "asleep",
         pc' = [u \in Threads |-> IF u = t THEN "idle" ELSE IF u \in W THEN "awake" ELSE pc[u]],
         UNCHANGED <<mtx, cnd, saved, kind, mutexVars, csVars, cActive, cMutex, committed, tids>>,
         pending' \in [Conds -> Int], owed' \subseteq Threads
  PROVE  IInv'
<1> USE DEF IInv
<1>1. UNCHANGED <<mtx, cnd, saved, kind, mActive, recursive, ownerTid, lockCount, condCount,
                  csOwner, csCount, cActive, cMutex, committed, tids>>
  BY DEF mutexVars, csVars
<1>2. TypeOK' /\ Pinned'
  BY <1>1 DEF TypeOK, PcValues, WaitPcs, Pinned, LockPcs, SigPcs
<1>3. HoldersHold' /\ Released'
  BY <1>1 DEF CsInv, HoldersHold, Released, TypeOK, WaitPcs, SigPcs
<1>4. Pairing'
  <2>1. \A u \in Threads : Unbooked(u)' = Unbooked(u)
    BY <1>1 DEF Unbooked, TypeOK, SigPcs
  <2> QED BY <1>1, <2>1 DEF CsInv, Pairing, TypeOK
<1>5. \A c : WaitersOf(c)' = WaitersOf(c)
  BY <1>1 DEF WaitersOf, TypeOK, SigPcs
<1>6. Counted' /\ CondsFirst'
  BY <1>1, <1>5, CondsFirstFrame DEF Counted
<1> QED BY <1>2, <1>3, <1>4, <1>6 DEF CsInv

LEMMA SignalStep ==
  ASSUME IInv, NEW t \in Threads,
         Signal(t) \/ SignalAll(t) \/ \E target \in Threads : SignalTo(t, target)
  PROVE  IInv'
<1> USE DEF IInv
<1> PICK c \in Conds : c = cnd[t]
  BY DEF TypeOK
<1>1. pc[t] \in SigPcs /\ Sleepers(c) \in SUBSET Threads /\ \A u \in Sleepers(c) : pc[u] = "asleep"
  BY DEF Signal, SignalAll, SignalTo, SigPcs, Sleepers, WaitersOf
<1>2. UNCHANGED <<mutexVars, csVars, cActive, cMutex, committed, tids>>
  BY DEF Signal, SignalAll, SignalTo
<1>3. pending' \in [Conds -> Int] /\ owed' \subseteq Threads
  <2>1. \/ pending' = pending \/ pending' = [pending EXCEPT ![c] = @ + 1]
        \/ pending' = [pending EXCEPT ![c] = committed[c]]
    BY DEF Signal, SignalAll, SignalTo
  <2>2. owed' = owed \/ owed' = owed \cup WaitersOf(c)
    BY DEF Signal, SignalAll, SignalTo
  <2> QED BY <2>1, <2>2 DEF TypeOK, WaitersOf
<1>4. ASSUME NEW W \in SUBSET Sleepers(c), ReturnWaking(t, W)
      PROVE  IInv'
  BY <1>1, <1>2, <1>3, <1>4, DeliverStep DEF ReturnWaking
<1>5. ASSUME Return(t) PROVE ReturnWaking(t, {})
  BY <1>5 DEF Return, ReturnWaking, TypeOK
<1>6. CASE Signal(t)
  <2>1. \E W \in SUBSET Sleepers(c) : ReturnWaking(t, W)
    <3>1. CASE Deliverable(c)
      BY <1>6, <3>1 DEF Signal, OneOf
    <3>2. CASE ~Deliverable(c)
      BY <1>5, <1>6, <3>2 DEF Signal
    <3> QED BY <3>1, <3>2
  <2> QED BY <1>4, <2>1
<1>7. CASE SignalAll(t)
  BY <1>4, <1>7 DEF SignalAll
<1>8. CASE \E target \in Threads : SignalTo(t, target)
  <2>1. ReturnWaking(t, Sleepers(c)) \/ ReturnWaking(t, {})
    BY <1>5, <1>8 DEF SignalTo
  <2> QED BY <1>4, <2>1
<1> QED BY <1>6, <1>7, <1>8

-----------------------------------------------------------------------------
(* The next-state relation *)

LEMMA StutterStep == IInv /\ UNCHANGED vars => IInv'
<1> SUFFICES ASSUME IInv, UNCHANGED vars PROVE IInv'
  OBVIOUS
<1> USE DEF vars, IInv
<1>1. TypeOK' /\ Pinned'
  BY DEF TypeOK, Pinned
<1>2. CsInv'
  BY DEF CsInv, Pairing, HoldersHold, Released, Unbooked
<1>3. Counted'
  BY DEF Counted, WaitersOf
<1>4. CondsFirst'
  BY CondsFirstFrame
<1> QED BY <1>1, <1>2, <1>3, <1>4

LEMMA NextIInv == RacyTeardown = FALSE /\ IInv /\ [Next]_vars => IInv'
<1> SUFFICES ASSUME RacyTeardown = FALSE, IInv, [Next]_vars PROVE IInv'
  OBVIOUS
<1>1. ASSUME NEW t \in Threads, NEW m \in Mutexes,
             \/ \E rec \in BOOLEAN : MutexCreate(t, m, rec)
             \/ MutexDestroy(t, m)
             \/ \E k \in {"forever", "timed"} : LockCall(t, m, k)
             \/ TryCall(t, m) \/ UnlockCall(t, m) \/ CondCreateCall(t, m)
      PROVE  IInv'
  <2>1. CASE \E rec \in BOOLEAN : MutexCreate(t, m, rec)
    BY <2>1, MutexCreateStep
  <2>2. CASE MutexDestroy(t, m)
    BY <2>2, MutexDestroyStep
  <2>3. ASSUME NEW k \in {"forever", "timed"}, LockCall(t, m, k) PROVE IInv'
    <3>1. kind' \in [Threads -> Kinds]
      BY <2>3 DEF LockCall, IInv, TypeOK, Kinds
    <3> QED BY <2>3, <3>1, BeginStep DEF LockCall
  <2>4. CASE TryCall(t, m) \/ CondCreateCall(t, m)
    <3>1. kind' \in [Threads -> Kinds]
      BY <2>4 DEF TryCall, CondCreateCall, IInv, TypeOK
    <3> QED BY <2>4, <3>1, BeginStep DEF TryCall, CondCreateCall
  <2>5. CASE UnlockCall(t, m)
    BY <2>5, UnlockCallStep
  <2> QED BY <1>1, <2>1, <2>2, <2>3, <2>4, <2>5
<1>2. ASSUME NEW t \in Threads, NEW c \in Conds,
             \/ CondDestroy(t, c)
             \/ \E k \in Kinds : WaitCall(t, c, k)
             \/ \E how \in SigPcs : SignalCall(t, c, how)
      PROVE  IInv'
  BY <1>2, CondDestroyStep, WaitCallStep, SignalCallStep
<1>3. ASSUME NEW t \in Threads, Step(t) PROVE IInv'
  <2>1. CASE LockEnter(t) \/ LockGiveUp(t) \/ LockPublish(t) \/ UnlockLeave(t)
    BY <2>1, LockEnterStep, LockGiveUpStep, LockPublishStep, UnlockLeaveStep
  <2>2. CASE \E c \in Conds : CondCreate(t, c)
    BY <2>2, CondCreateStep
  <2>3. CASE CondCreateFull(t)
    <3>1. /\ pc[t] = "cnew" /\ pc' = [pc EXCEPT ![t] = "idle"]
          /\ UNCHANGED <<mtx, cnd, saved, kind, mActive, recursive, ownerTid, lockCount, condCount,
                         csOwner, csCount, cActive, cMutex, committed, pending, tids, owed>>
      BY <2>3 DEF CondCreateFull, Return, mutexVars, csVars, condVars
    <3>2. TypeOK' /\ Pinned'
      BY <3>1 DEF IInv, TypeOK, PcValues, Pinned, LockPcs, SigPcs
    <3>3. Counted' /\ CondsFirst'
      BY <3>1, CondFrame DEF Sleeping
    <3>4. CsInv'
      BY <3>1, CsFrame
    <3> QED BY <3>2, <3>3, <3>4 DEF IInv
  <2>4. CASE WaitCommit(t)
    BY <2>4, WaitCommitStep
  <2>5. CASE WaitConsume(t) \/ WaitTimeout(t)
    BY <2>5, WaitEndsStep DEF WaitConsume, WaitTimeout
  <2>6. CASE WaitResleep(t)
    BY <2>6, SleepStep
  <2>7. CASE WaitReacquire(t) \/ WaitRestore(t)
    BY <2>7, WaitReacquireStep, WaitRestoreStep
  <2>8. CASE Signal(t) \/ SignalAll(t) \/ \E target \in Threads : SignalTo(t, target)
    BY <2>8, SignalStep
  <2> QED BY <1>3, <2>1, <2>2, <2>3, <2>4, <2>5, <2>6, <2>7, <2>8 DEF Step
<1>4. ASSUME NEW t \in Threads, WaitCvReturns(t) PROVE IInv'
  BY <1>4, SleepStep
<1>5. CASE UNCHANGED vars
  BY <1>5, StutterStep
<1> QED BY <1>1, <1>2, <1>3, <1>4, <1>5 DEF Next, Call

(* The inductive invariant holds when the guest keeps out of the windows. *)
THEOREM Invariance == RacyTeardown = FALSE => (Spec => []IInv)
<1> SUFFICES ASSUME RacyTeardown = FALSE PROVE Spec => []IInv
  OBVIOUS
<1>1. Init => IInv
  BY InitIInv
<1>2. IInv /\ [Next]_vars => IInv'
  BY NextIInv
<1> QED BY <1>1, <1>2, PTL DEF Spec

(* Every variable keeps its type; no counter of levels goes below zero. *)
THEOREM Typing == RacyTeardown = FALSE => (Spec => []TypeOK)
  BY Invariance, PTL DEF IInv

(* owner_tid and lock_count, written outside the critical section, agree with
   it at every step of every call. *)
THEOREM BookkeepingPairs == RacyTeardown = FALSE => (Spec => []Pairing)
  BY Invariance, PTL DEF IInv, CsInv

(* Only the thread that entered a critical section leaves it or writes the
   bookkeeping. *)
THEOREM OnlyHoldersLeave == RacyTeardown = FALSE => (Spec => []HoldersHold)
  BY Invariance, PTL DEF IInv, CsInv

(* cond_count makes the conds of a mutex go before it. *)
THEOREM CondsGoFirst == RacyTeardown = FALSE => (Spec => []CondsFirst)
  BY Invariance, PTL DEF IInv

(* No waiter is left on a destroyed cond. *)
THEOREM NobodyStranded == RacyTeardown = FALSE => (Spec => []NoStrandedWaiter)
<1>1. IInv => NoStrandedWaiter
  BY DEF IInv, Pinned, NoStrandedWaiter
<1> QED BY <1>1, Invariance, PTL

(* Levels and owners agree and only the holder leaves, for any number of
   threads, mutexes and levels.                                              *)
THEOREM BookkeepingKept == RacyTeardown = FALSE => (Spec => []Bookkeeping)
  BY BookkeepingPairs, OnlyHoldersLeave, PTL DEF Bookkeeping

(* Conds go before their mutex and nobody is stranded. *)
THEOREM TeardownIsSafe == RacyTeardown = FALSE => (Spec => []TeardownSafe)
  BY CondsGoFirst, NobodyStranded, PTL DEF TeardownSafe

(* Destroy's guards keep it from deleting a critical section that is held. *)
THEOREM HeldIsNotDeleted == RacyTeardown = FALSE => (Spec => NoHeldDelete)
<1> SUFFICES ASSUME RacyTeardown = FALSE PROVE Spec => NoHeldDelete
  OBVIOUS
<1>1. ASSUME IInv, [Next]_vars, NEW m \in Mutexes, mActive[m], ~mActive'[m]
      PROVE  csOwner[m] = None
  <2>1. PICK t \in Threads : Call(t) \/ Step(t) \/ WaitCvReturns(t)
    BY <1>1 DEF Next, vars
  <2>2. mActive' # mActive
    BY <1>1
  <2>3. ~Step(t) /\ ~WaitCvReturns(t)
    BY <2>2 DEF Step, LockEnter, LockGiveUp, LockPublish, UnlockLeave, CondCreate, CondCreateFull,
                WaitCommit, WaitConsume, WaitTimeout, WaitEnds, WaitResleep, WaitReacquire,
                WaitRestore, Signal, SignalAll, SignalTo, WaitCvReturns, mutexVars
  <2>4. PICK k \in Mutexes : (\E rec \in BOOLEAN : MutexCreate(t, k, rec)) \/ MutexDestroy(t, k)
    BY <2>1, <2>2, <2>3 DEF Call, LockCall, TryCall, UnlockCall, CondCreateCall, CondDestroy,
                            WaitCall, SignalCall, mutexVars
  <2>5. MutexDestroy(t, k) /\ k = m
    BY <1>1, <2>4 DEF MutexCreate, MutexDestroy, IInv, TypeOK
  <2> QED BY <1>1, <2>5, Abandoned
<1>2. IInv /\ [Next]_vars => [\A m \in Mutexes : mActive[m] /\ ~mActive'[m] => csOwner[m] = None]_vars
  BY <1>1
<1> QED BY <1>2, Invariance, PTL DEF Spec, NoHeldDelete

-----------------------------------------------------------------------------
(* The signals.  A pending signal belongs to a waiter that is awake: the
   signaller counts it against a committed waiter and, under the same lock,
   wakes one of the sleepers unless there is none. *)

Up(c) == WaitersOf(c) \ Sleepers(c)

Rendezvous(c) ==
    cActive[c] =>
        /\ tids[c] \subseteq WaitersOf(c)
        /\ Cardinality(Threads) <= TidMax => tids[c] = WaitersOf(c)
        /\ 0 <= pending[c] /\ pending[c] <= Cardinality(Up(c))

SInv == IInv /\ \A c \in Conds : Rendezvous(c)

LEMMA UpIs ==
  /\ \A c : Up(c) = {t \in Threads : pc[t] = "awake" /\ cnd[t] = c}
  /\ \A c : Up(c)' = {t \in Threads : pc'[t] = "awake" /\ cnd'[t] = c}
  BY DEF Up, WaitersOf, Sleepers

LEMMA UpFinite ==
  /\ \A c : IsFiniteSet(Up(c)) /\ Cardinality(Up(c)) \in Nat
  /\ \A c : IsFiniteSet(Up(c)') /\ Cardinality(Up(c)') \in Nat
<1>1. \A c : Up(c) \in SUBSET Threads /\ Up(c)' \in SUBSET Threads
  BY DEF Up, WaitersOf
<1> QED BY <1>1, ThreadsAssumption, FS_Subset, FS_CardinalityType

\* A cond whose waiters stay, with none of those awake going back to sleep.
LEMMA CondKept ==
  ASSUME SInv, NEW c \in Conds, cActive'[c] => cActive[c],
         tids'[c] = tids[c], pending'[c] = pending[c],
         WaitersOf(c)' = WaitersOf(c), Up(c) \subseteq Up(c)'
  PROVE  Rendezvous(c)'
<1>1. Cardinality(Up(c)) <= Cardinality(Up(c)')
  BY UpFinite, FS_Subset
<1>2. pending[c] \in Int
  BY DEF SInv, IInv, TypeOK
<1> QED BY <1>1, <1>2, UpFinite DEF SInv, Rendezvous

\* Steps of a thread that does not wait, and that do not touch the counters.
LEMMA OutsideStep ==
  ASSUME SInv, IInv', NEW t \in Threads, NEW n,
         pc[t] \notin Sleeping, n \notin Sleeping,
         pc' = [pc EXCEPT ![t] = n],
         \A u \in Threads \ {t} : cnd'[u] = cnd[u],
         tids' = tids, pending' = pending,
         \A c \in Conds : cActive'[c] => cActive[c]
  PROVE  SInv'
<1>1. \A c : WaitersOf(c)' = WaitersOf(c)
  BY WaitersSame DEF SInv, IInv
<1>2. \A u \in Threads : pc'[u] = "awake" /\ u # t <=> pc[u] = "awake" /\ u # t
  BY DEF SInv, IInv, TypeOK
<1>3. pc[t] # "awake" /\ pc'[t] # "awake"
  BY DEF Sleeping, SInv, IInv, TypeOK
<1>4. \A c : Up(c)' = Up(c)
  BY <1>2, <1>3, UpIs
<1> QED BY <1>1, <1>4, CondKept DEF SInv

\* The objects come and go, and nobody's place changes.
LEMMA StillStep ==
  ASSUME SInv, IInv', UNCHANGED <<pc, cnd, tids, pending>>,
         \A c \in Conds : cActive'[c] => cActive[c]
  PROVE  SInv'
<1>1. \A c : WaitersOf(c)' = WaitersOf(c)
  BY DEF WaitersOf
<1>2. \A c : Up(c)' = Up(c)
  BY UpIs
<1> QED BY <1>1, <1>2, CondKept DEF SInv

LEMMA CreateSignals ==
  ASSUME SInv, IInv', NEW t \in Threads, NEW c \in Conds, CondCreate(t, c)
  PROVE  SInv'
<1>1. /\ pc[t] = "cnew" /\ ~cActive[c] /\ pc' = [pc EXCEPT ![t] = "idle"] /\ cnd' = cnd
      /\ cActive' = [cActive EXCEPT ![c] = TRUE]
      /\ pending' = [pending EXCEPT ![c] = 0] /\ tids' = [tids EXCEPT ![c] = {}]
      /\ TypeOK /\ Pinned
  BY DEF CondCreate, Return, SInv, IInv
<1>2. \A d : WaitersOf(d)' = WaitersOf(d)
  BY <1>1, WaitersSame DEF Sleeping
<1>3. \A d : Up(d)' = Up(d)
  BY <1>1, UpIs DEF TypeOK
<1>4. WaitersOf(c) = {}
  BY <1>1 DEF WaitersOf, Pinned
<1>5. Rendezvous(c)'
  BY <1>1, <1>2, <1>4, UpFinite DEF Rendezvous, TypeOK
<1>6. \A d \in Conds \ {c} : Rendezvous(d)'
  BY <1>1, <1>2, <1>3, CondKept DEF TypeOK
<1> QED BY <1>5, <1>6 DEF SInv

\* cond_waiter_add has room for every thread when the table is large enough.
LEMMA TableHasRoom ==
  ASSUME NEW t \in Threads, NEW c \in Conds, t \notin WaitersOf(c), Cardinality(Threads) <= TidMax
  PROVE  Cardinality(WaitersOf(c)) < TidMax
<1>1. WaitersOf(c) \subseteq Threads /\ WaitersOf(c) # Threads
  BY DEF WaitersOf
<1>2. Cardinality(WaitersOf(c)) <= Cardinality(Threads) /\ Cardinality(WaitersOf(c)) # Cardinality(Threads)
  BY <1>1, ThreadsAssumption, FS_Subset
<1>3. Cardinality(Threads) \in Nat /\ TidMax \in Nat
  BY ThreadsAssumption, SizesAssumption, FS_CardinalityType
<1> QED BY <1>2, <1>3, Finite

LEMMA CommitSignals ==
  ASSUME SInv, IInv', NEW t \in Threads, WaitCommit(t)
  PROVE  SInv'
<1> PICK c \in Conds : c = cnd[t]
  BY DEF SInv, IInv, TypeOK
<1>1. /\ pc[t] = "commit" /\ cnd' = cnd /\ cActive' = cActive
      /\ pending' = [pending EXCEPT ![c] = IF pending[c] # 0 THEN @ - 1 ELSE @]
      /\ tids' = [tids EXCEPT ![c] = IF pending[c] # 0 THEN @ ELSE TidsWith(c, t)]
      /\ TypeOK /\ cActive[c] /\ Rendezvous(c)
  BY DEF WaitCommit, Goto, SInv, IInv, Pinned
<1>2. /\ pending[c] # 0 => pc' = [pc EXCEPT ![t] = "reacquire"]
      /\ pending[c] = 0 => \E n \in Sleeping : pc' = [pc EXCEPT ![t] = n]
  BY DEF WaitCommit, Goto, Sleeping
<1>3. \A d \in Conds \ {c} : Rendezvous(d)'
  <2>1. \A d \in Conds \ {c} : WaitersOf(d)' = WaitersOf(d)
    BY <1>1, <1>2 DEF WaitersOf, TypeOK
  <2>2. \A d \in Conds \ {c} : Up(d)' = Up(d)
    BY <1>1, <1>2, UpIs DEF TypeOK
  <2> QED BY <1>1, <2>1, <2>2, CondKept DEF TypeOK
<1>4. CASE pending[c] # 0
  <2>1. WaitersOf(c)' = WaitersOf(c) /\ Up(c)' = Up(c)
    BY <1>1, <1>2, <1>4, UpIs DEF WaitersOf, TypeOK
  <2>2. pending'[c] = pending[c] - 1 /\ tids'[c] = tids[c] /\ pending[c] \in Int
    BY <1>1, <1>4 DEF TypeOK
  <2>3. Rendezvous(c)'
    BY <1>1, <1>4, <2>1, <2>2, UpFinite DEF Rendezvous
  <2> QED BY <1>3, <2>3 DEF SInv
<1>5. CASE pending[c] = 0
  <2>1. WaitersOf(c)' = WaitersOf(c) \cup {t} /\ t \notin WaitersOf(c)
    BY <1>1, <1>2, <1>5 DEF WaitersOf, TypeOK, Sleeping
  <2>2. pending'[c] = 0 /\ tids'[c] = TidsWith(c, t)
    BY <1>1, <1>5 DEF TypeOK
  <2>3. tids'[c] \subseteq WaitersOf(c)'
    BY <1>1, <2>1, <2>2 DEF Rendezvous, TidsWith
  <2>4. Cardinality(Threads) <= TidMax => tids'[c] = WaitersOf(c)'
    BY <1>1, <2>1, <2>2, TableHasRoom DEF Rendezvous, TidsWith
  <2>5. Rendezvous(c)'
    BY <2>2, <2>3, <2>4, UpFinite DEF Rendezvous
  <2> QED BY <1>3, <2>5 DEF SInv
<1> QED BY <1>4, <1>5

\* A waiter that wakes joins those awake; it goes back to sleep only when no
\* signal is pending.
LEMMA SleepSignals ==
  ASSUME SInv, IInv', NEW t \in Threads, WaitCvReturns(t) \/ WaitResleep(t)
  PROVE  SInv'
<1> PICK c \in Conds : c = cnd[t]
  BY DEF SInv, IInv, TypeOK
<1>1. /\ cnd' = cnd /\ cActive' = cActive /\ pending' = pending /\ tids' = tids
      /\ TypeOK /\ Rendezvous(c)
      /\ \/ pc[t] = "asleep" /\ pc' = [pc EXCEPT ![t] = "awake"]
         \/ pc[t] = "awake" /\ pc' = [pc EXCEPT ![t] = "asleep"] /\ pending[c] = 0
  BY DEF WaitCvReturns, WaitResleep, Goto, condVars, SInv, IInv
<1>2. \A d : WaitersOf(d)' = WaitersOf(d)
  BY <1>1 DEF WaitersOf, TypeOK
<1>3. \A d \in Conds \ {c} : Up(d)' = Up(d)
  BY <1>1, UpIs DEF TypeOK
<1>4. \A d \in Conds \ {c} : Rendezvous(d)'
  BY <1>1, <1>2, <1>3, CondKept
<1>5. Rendezvous(c)'
  <2>1. CASE pending[c] = 0
    BY <1>1, <1>2, <2>1, UpFinite DEF Rendezvous
  <2>2. CASE pending[c] # 0
    <3>1. Up(c) \subseteq Up(c)'
      BY <1>1, <2>2, UpIs DEF TypeOK
    <3> QED BY <1>1, <1>2, <3>1, CondKept
  <2> QED BY <2>1, <2>2
<1> QED BY <1>4, <1>5 DEF SInv

\* A waiter leaves with the signal it consumes, or when there is none.
LEMMA EndSignals ==
  ASSUME SInv, IInv', NEW t \in Threads, WaitConsume(t) \/ WaitTimeout(t)
  PROVE  SInv'
<1> PICK c \in Conds : c = cnd[t]
  BY DEF SInv, IInv, TypeOK
<1>1. PICK k \in {0, 1} :
      /\ pc[t] = "awake" /\ cnd' = cnd /\ cActive' = cActive
      /\ pc' = [pc EXCEPT ![t] = "reacquire"]
      /\ pending' = [pending EXCEPT ![c] = @ - k] /\ tids' = [tids EXCEPT ![c] = @ \ {t}]
      /\ (k = 1 /\ pending[c] # 0) \/ (k = 0 /\ pending[c] = 0)
      /\ TypeOK /\ cActive[c] /\ Rendezvous(c)
  BY DEF WaitConsume, WaitTimeout, WaitEnds, Goto, SInv, IInv, Pinned
<1>2. /\ \A d \in Conds \ {c} : WaitersOf(d)' = WaitersOf(d)
      /\ WaitersOf(c)' = WaitersOf(c) \ {t}
  BY <1>1 DEF WaitersOf, TypeOK
<1>3. /\ \A d \in Conds \ {c} : Up(d)' = Up(d)
      /\ Up(c)' = Up(c) \ {t} /\ t \in Up(c)
  BY <1>1, UpIs DEF TypeOK
<1>4. \A d \in Conds \ {c} : Rendezvous(d)'
  BY <1>1, <1>2, <1>3, CondKept DEF TypeOK
<1>5. Cardinality(Up(c) \ {t}) = Cardinality(Up(c)) - 1
  BY <1>3, UpFinite, FS_RemoveElement
<1>6. pending'[c] = pending[c] - k /\ pending[c] \in Int /\ tids'[c] = tids[c] \ {t}
  BY <1>1 DEF TypeOK
<1>7. Cardinality(Up(c)) \in Nat /\ Cardinality(Up(c)') = Cardinality(Up(c)) - 1
      /\ Cardinality(Up(c)') \in Nat
  BY <1>3, <1>5, UpFinite
<1>8. 0 <= pending'[c] /\ pending'[c] <= Cardinality(Up(c)')
  BY <1>1, <1>6, <1>7 DEF Rendezvous
<1>9. Rendezvous(c)'
  BY <1>1, <1>2, <1>6, <1>8 DEF Rendezvous
<1> QED BY <1>4, <1>9 DEF SInv

\* A signaller adds no more signals than it leaves waiters awake.
LEMMA WakeSignals ==
  ASSUME SInv, IInv', NEW t \in Threads, NEW c \in Conds, c = cnd[t], pc[t] \in SigPcs,
         NEW W \in SUBSET Sleepers(c), ReturnWaking(t, W),
         UNCHANGED <<cActive, tids>>, \A d \in Conds \ {c} : pending'[d] = pending[d],
         \/ pending'[c] = pending[c]
         \/ W = Sleepers(c) /\ 0 <= pending'[c] /\ pending'[c] <= committed[c]
         \/ committed[c] > pending[c] /\ pending'[c] = pending[c] + 1
              /\ (Sleepers(c) = {} \/ \E u \in Sleepers(c) : W = {u})
  PROVE  SInv'
<1>1. /\ pc' = [u \in Threads |-> IF u = t THEN "idle" ELSE IF u \in W THEN "awake" ELSE pc[u]]
      /\ cnd' = cnd /\ TypeOK /\ cActive[c] /\ Rendezvous(c)
      /\ committed[c] = Cardinality(WaitersOf(c))
  BY DEF ReturnWaking, SInv, IInv, Pinned, Counted
<1>2. \A d : WaitersOf(d)' = WaitersOf(d)
  BY <1>1 DEF WaitersOf, Sleepers, TypeOK, SigPcs
<1>3. /\ \A d \in Conds : Up(d) \subseteq Up(d)'
      /\ Up(c)' = Up(c) \cup W
  <2>1. pc[t] # "awake" /\ \A u \in W : u \in Threads /\ u # t /\ cnd[u] = c
    BY <1>1 DEF SigPcs, Sleepers, WaitersOf
  <2>2. \A u \in Threads : pc'[u] = "awake" <=> u \in W \/ pc[u] = "awake"
    BY <1>1, <2>1
  <2> QED BY <1>1, <2>1, <2>2, UpIs
<1>4. \A d \in Conds \ {c} : Rendezvous(d)'
  BY <1>2, <1>3, CondKept
<1>5. CASE pending'[c] = pending[c]
  <2>1. Rendezvous(c)'
    BY <1>2, <1>3, <1>5, CondKept
  <2> QED BY <1>4, <2>1 DEF SInv
<1>6. pending[c] \in Int /\ pending'[c] \in Int /\ Cardinality(WaitersOf(c)) \in Nat
  BY Finite DEF SInv, IInv, TypeOK
<1>7. CASE W = Sleepers(c) /\ 0 <= pending'[c] /\ pending'[c] <= committed[c]
  <2>1. Up(c)' = WaitersOf(c)
    BY <1>3, <1>7 DEF Up, Sleepers
  <2>2. Rendezvous(c)'
    BY <1>1, <1>2, <1>7, <2>1 DEF Rendezvous
  <2> QED BY <1>4, <2>2 DEF SInv
<1>8. CASE committed[c] > pending[c] /\ pending'[c] = pending[c] + 1 /\ Sleepers(c) = {}
  <2>1. Up(c)' = WaitersOf(c)
    BY <1>3, <1>8 DEF Up, Sleepers
  <2>2. Rendezvous(c)'
    BY <1>1, <1>2, <1>6, <1>8, <2>1 DEF Rendezvous
  <2> QED BY <1>4, <2>2 DEF SInv
<1>9. ASSUME committed[c] > pending[c], pending'[c] = pending[c] + 1,
             NEW u \in Sleepers(c), W = {u}
      PROVE  SInv'
  <2>0. u \notin Up(c)
    BY DEF Up
  <2>1. Up(c)' = Up(c) \cup {u}
    BY <1>3, <1>9
  <2>2. Cardinality(Up(c)') = Cardinality(Up(c)) + 1 /\ Cardinality(Up(c)) \in Nat
    <3>1. IsFiniteSet(Up(c)) /\ Cardinality(Up(c)) \in Nat
      BY UpFinite
    <3>2. Cardinality(Up(c) \cup {u}) = Cardinality(Up(c)) + 1
      BY <2>0, <3>1, FS_AddElement
    <3> QED BY <2>1, <3>1, <3>2
  <2>3. 0 <= pending'[c] /\ pending'[c] <= Cardinality(Up(c)')
    BY <1>1, <1>6, <1>9, <2>2 DEF Rendezvous
  <2>4. Rendezvous(c)'
    BY <1>1, <1>2, <2>3 DEF Rendezvous
  <2> QED BY <1>4, <2>4 DEF SInv
<1> QED BY <1>5, <1>7, <1>8, <1>9

LEMMA DeliverSignals ==
  ASSUME SInv, IInv', NEW t \in Threads,
         Signal(t) \/ SignalAll(t) \/ \E target \in Threads : SignalTo(t, target)
  PROVE  SInv'
<1> PICK c \in Conds : c = cnd[t]
  BY DEF SInv, IInv, TypeOK
<1>1. pc[t] \in SigPcs /\ UNCHANGED <<cActive, tids>> /\ TypeOK /\ TypeOK'
      /\ committed[c] = Cardinality(WaitersOf(c)) /\ Rendezvous(c) /\ cActive[c]
  BY DEF Signal, SignalAll, SignalTo, SigPcs, SInv, IInv, Counted, Pinned
<1>2. committed[c] \in Nat /\ pending[c] \in Int /\ pending[c] >= 0
  BY <1>1, Finite DEF TypeOK, Rendezvous
<1>3. ASSUME Return(t) PROVE ReturnWaking(t, {})
  BY <1>1, <1>3 DEF Return, ReturnWaking, TypeOK
<1>4. CASE pending' = pending /\ ReturnWaking(t, {})
  <2>1. {} \in SUBSET Sleepers(c)
    OBVIOUS
  <2> QED BY <1>1, <1>4, <2>1, WakeSignals
<1>5. CASE Signal(t) /\ Deliverable(c)
  <2>1. pending' = [pending EXCEPT ![c] = @ + 1] /\ committed[c] > pending[c]
    BY <1>5 DEF Signal, Deliverable
  <2>2. PICK W \in SUBSET Sleepers(c) :
          ReturnWaking(t, W) /\ (Sleepers(c) = {} \/ \E u \in Sleepers(c) : W = {u})
    BY <1>5 DEF Signal, OneOf
  <2>3. pending'[c] = pending[c] + 1 /\ \A d \in Conds \ {c} : pending'[d] = pending[d]
    BY <1>1, <2>1 DEF TypeOK
  <2> QED BY <1>1, <2>1, <2>2, <2>3, WakeSignals
<1>6. CASE SignalAll(t) \/ \E target \in Threads : SignalTo(t, target) /\ Deliverable(c) /\ target \in tids[c]
  <2>1. /\ ReturnWaking(t, Sleepers(c))
        /\ pending' = [pending EXCEPT ![c] = committed[c]]
           \/ (pending' = [pending EXCEPT ![c] = @ + 1] /\ committed[c] > pending[c])
    BY <1>6 DEF SignalAll, SignalTo, Deliverable
  <2>2. 0 <= pending'[c] /\ pending'[c] <= committed[c]
        /\ \A d \in Conds \ {c} : pending'[d] = pending[d]
    BY <1>1, <1>2, <2>1 DEF TypeOK
  <2>3. Sleepers(c) \in SUBSET Sleepers(c)
    OBVIOUS
  <2> QED BY <1>1, <2>1, <2>2, <2>3, WakeSignals
<1>7. \/ Signal(t) /\ Deliverable(c)
      \/ SignalAll(t) \/ \E target \in Threads : SignalTo(t, target) /\ Deliverable(c) /\ target \in tids[c]
      \/ pending' = pending /\ ReturnWaking(t, {})
  <2>1. CASE Signal(t) /\ ~Deliverable(c)
    BY <1>3, <2>1 DEF Signal
  <2>2. ASSUME NEW target \in Threads, SignalTo(t, target), ~(Deliverable(c) /\ target \in tids[c])
        PROVE  pending' = pending /\ ReturnWaking(t, {})
    BY <1>3, <2>2 DEF SignalTo
  <2> QED BY <2>1, <2>2
<1> QED BY <1>4, <1>5, <1>6, <1>7

LEMMA InitSInv == Init => SInv
  BY InitIInv DEF SInv, Rendezvous, Init

LEMMA NextSInv == RacyTeardown = FALSE /\ SInv /\ [Next]_vars => SInv'
<1> SUFFICES ASSUME RacyTeardown = FALSE, SInv, [Next]_vars PROVE SInv'
  OBVIOUS
<1>0. IInv' /\ IInv /\ TypeOK
  BY NextIInv DEF SInv, IInv
<1> DEFINE Outside(t, n) == /\ pc[t] \notin Sleeping /\ n \notin Sleeping
                            /\ pc' = [pc EXCEPT ![t] = n]
                            /\ \A u \in Threads \ {t} : cnd'[u] = cnd[u]
                            /\ tids' = tids /\ pending' = pending
                            /\ \A c \in Conds : cActive'[c] => cActive[c]
<1>1. ASSUME NEW t \in Threads, NEW n, Outside(t, n) PROVE SInv'
  BY <1>0, <1>1, OutsideStep
<1>2. ASSUME NEW t \in Threads, NEW m \in Mutexes,
             \/ \E rec \in BOOLEAN : MutexCreate(t, m, rec)
             \/ MutexDestroy(t, m)
             \/ \E k \in {"forever", "timed"} : LockCall(t, m, k)
             \/ TryCall(t, m) \/ UnlockCall(t, m) \/ CondCreateCall(t, m)
      PROVE  SInv'
  <2>1. CASE (\E rec \in BOOLEAN : MutexCreate(t, m, rec)) \/ MutexDestroy(t, m)
    BY <1>0, <2>1, StillStep DEF MutexCreate, MutexDestroy, condVars, callVars
  <2>2. CASE \E k \in {"forever", "timed"} : LockCall(t, m, k)
    <3>1. Outside(t, "lock") BY <2>2 DEF LockCall, Begin, condVars, Sleeping
    <3> QED BY <1>1, <3>1
  <2>3. CASE TryCall(t, m)
    <3>1. Outside(t, "try") BY <2>3 DEF TryCall, Begin, condVars, Sleeping
    <3> QED BY <1>1, <3>1
  <2>4. CASE UnlockCall(t, m)
    <3>1. Outside(t, "leave") BY <2>4 DEF UnlockCall, Begin, condVars, Sleeping
    <3> QED BY <1>1, <3>1
  <2>5. CASE CondCreateCall(t, m)
    <3>1. Outside(t, "cnew") BY <2>5 DEF CondCreateCall, Begin, condVars, Sleeping
    <3> QED BY <1>1, <3>1
  <2> QED BY <1>2, <2>1, <2>2, <2>3, <2>4, <2>5
<1>3. ASSUME NEW t \in Threads, NEW c \in Conds,
             \/ CondDestroy(t, c)
             \/ \E k \in Kinds : WaitCall(t, c, k)
             \/ \E how \in SigPcs : SignalCall(t, c, how)
      PROVE  SInv'
  <2>1. CASE CondDestroy(t, c)
    <3>1. UNCHANGED <<pc, cnd, tids, pending>> /\ cActive' = [cActive EXCEPT ![c] = FALSE]
      BY <2>1 DEF CondDestroy, callVars
    <3> QED BY <1>0, <3>1, StillStep DEF TypeOK
  <2>2. CASE \E k \in Kinds : WaitCall(t, c, k)
    <3>1. Outside(t, "commit") BY <1>0, <2>2 DEF WaitCall, condVars, Sleeping, TypeOK
    <3> QED BY <1>1, <3>1
  <2>3. ASSUME NEW how \in SigPcs, SignalCall(t, c, how) PROVE SInv'
    <3>1. Outside(t, how) BY <1>0, <2>3 DEF SignalCall, condVars, Sleeping, SigPcs, TypeOK
    <3> QED BY <1>1, <3>1
  <2> QED BY <1>3, <2>1, <2>2, <2>3
<1>4. ASSUME NEW t \in Threads, Step(t) PROVE SInv'
  <2>1. CASE LockEnter(t)
    <3>1. Outside(t, "publish") BY <2>1 DEF LockEnter, Goto, condVars, Sleeping
    <3> QED BY <1>1, <3>1
  <2>2. CASE LockGiveUp(t) \/ LockPublish(t) \/ UnlockLeave(t) \/ CondCreateFull(t) \/ WaitRestore(t)
    <3>1. Outside(t, "idle")
      BY <2>2 DEF LockGiveUp, LockPublish, UnlockLeave, CondCreateFull, WaitRestore, Return, condVars, Sleeping
    <3> QED BY <1>1, <3>1
  <2>3. CASE WaitReacquire(t)
    <3>1. Outside(t, "restore") BY <2>3 DEF WaitReacquire, Goto, condVars, Sleeping
    <3> QED BY <1>1, <3>1
  <2>4. CASE \E c \in Conds : CondCreate(t, c)
    BY <1>0, <2>4, CreateSignals
  <2>5. CASE WaitCommit(t)
    BY <1>0, <2>5, CommitSignals
  <2>6. CASE WaitConsume(t) \/ WaitTimeout(t)
    BY <1>0, <2>6, EndSignals
  <2>7. CASE WaitResleep(t)
    BY <1>0, <2>7, SleepSignals
  <2>8. CASE Signal(t) \/ SignalAll(t) \/ \E target \in Threads : SignalTo(t, target)
    BY <1>0, <2>8, DeliverSignals
  <2> QED BY <1>4, <2>1, <2>2, <2>3, <2>4, <2>5, <2>6, <2>7, <2>8 DEF Step
<1>5. ASSUME NEW t \in Threads, WaitCvReturns(t) PROVE SInv'
  BY <1>0, <1>5, SleepSignals
<1>6. CASE UNCHANGED vars
  BY <1>0, <1>6, StillStep DEF vars
<1> QED BY <1>2, <1>3, <1>4, <1>5, <1>6 DEF Next, Call

\* What the invariant says of the signals, the levels and the teardown.
LEMMA SInvFollows == SInv => SignalsKept /\ Bookkeeping /\ TeardownSafe
<1> SUFFICES ASSUME SInv PROVE SignalsKept /\ Bookkeeping /\ TeardownSafe
  OBVIOUS
<1>1. SignalsKept
  BY DEF SInv, IInv, Counted, Rendezvous, Up, SignalsKept, CommittedExact, NoLostSignal
<1>2. Bookkeeping
  BY DEF SInv, IInv, CsInv, Bookkeeping
<1>3. TeardownSafe
  BY DEF SInv, IInv, Pinned, NoStrandedWaiter, TeardownSafe
<1> QED BY <1>1, <1>2, <1>3

(* No signal is lost or invented between a waiter's commit, its timeout and its
   wake, and the tables that signal_to and destroy read are exact. *)
THEOREM SignalsAreKept == RacyTeardown = FALSE => (Spec => []SignalsKept)
<1> SUFFICES ASSUME RacyTeardown = FALSE PROVE Spec => []SignalsKept
  OBVIOUS
<1>1. Init => SInv
  BY InitSInv
<1>2. SInv /\ [Next]_vars => SInv'
  BY NextSInv
<1> QED BY <1>1, <1>2, SInvFollows, PTL DEF Spec

=============================================================================
