----------------------------- MODULE Lv2RwLock -----------------------------
(***************************************************************************)
(* lv2 reader-writer locks (runtime/syscalls/sys_rwlock.c, the Windows     *)
(* build): a table of slots, each with a host SRW lock and two words that  *)
(* name its writer, written and cleared outside any lock.  The SRW lock is *)
(* what the code uses it for: shared or exclusive, entered or not.         *)
(***************************************************************************)
EXTENDS Integers, FiniteSets

CONSTANTS
    Threads, None,
    NumLocks,       \* SYS_RWLOCK_MAX
    MaxReads,       \* bound: how often a thread nests a shared lock
    RacyTeardown    \* the guest destroys locks in use and creates at the same time

\* A table of some slots, and a writer word that names no thread.
RwSizes == NumLocks \in Nat \ {0} /\ None \notin Threads

Locks == 1..NumLocks

VARIABLES
    rwActive,          \* of each slot
    writer, writerTid, \* the words of the owner
    srwExcl, srwShared,\* the SRW lock: its exclusive holder, how often each thread shares it
    rwpc, rwlk, rwkind \* the call of a thread: where it is, its lock, its kind of wait

rwWords == <<rwActive, writer, writerTid>>
srwVars == <<srwExcl, srwShared>>
rwVars  == <<rwActive, writer, writerTid, srwExcl, srwShared, rwpc, rwlk, rwkind>>

RwPcs == {"idle", "create", "rlock", "wlock", "own", "name", "disown", "release"}
RwKinds == {"forever", "timed", "try"}

Init ==
    /\ rwActive = [l \in Locks |-> FALSE]
    /\ writer = [l \in Locks |-> FALSE]
    /\ writerTid = [l \in Locks |-> None]
    /\ srwExcl = [l \in Locks |-> None]
    /\ srwShared = [l \in Locks |-> [t \in Threads |-> 0]]
    /\ rwpc = [t \in Threads |-> "idle"]
    /\ rwlk = [t \in Threads |-> 1]
    /\ rwkind = [t \in Threads |-> "forever"]

At(t, where) == rwpc[t] = where
Go(t, where) == rwpc' = [rwpc EXCEPT ![t] = where] /\ UNCHANGED <<rwlk, rwkind>>
Call(t, l, where, kind) ==
    /\ At(t, "idle")
    /\ rwpc' = [rwpc EXCEPT ![t] = where]
    /\ rwlk' = [rwlk EXCEPT ![t] = l]
    /\ rwkind' = [rwkind EXCEPT ![t] = kind]

-----------------------------------------------------------------------------
(* create and destroy: neither takes a lock *)

\* A guest that tears down in order has no call in the lock and no holder of it.
Quiet(l) ==
    /\ srwExcl[l] = None /\ \A t \in Threads : srwShared[l][t] = 0
    /\ \A t \in Threads : ~At(t, "idle") => rwlk[t] # l

CreatePick(t, l) ==
    /\ ~rwActive[l] /\ \A k \in Locks : k < l => rwActive[k]
    /\ RacyTeardown \/ \A u \in Threads : ~At(u, "create")
    /\ Call(t, l, "create", "forever")
    /\ UNCHANGED <<rwWords, srwVars>>

CreateFill(t) ==
    LET l == rwlk[t] IN
    /\ At(t, "create")
    /\ rwActive' = [rwActive EXCEPT ![l] = TRUE]
    /\ writer' = [writer EXCEPT ![l] = FALSE]
    /\ writerTid' = [writerTid EXCEPT ![l] = None]
    /\ srwExcl' = [srwExcl EXCEPT ![l] = None]
    /\ srwShared' = [srwShared EXCEPT ![l] = [u \in Threads |-> 0]]
    /\ Go(t, "idle")

Destroy(t, l) ==
    /\ At(t, "idle") /\ rwActive[l]
    /\ RacyTeardown \/ Quiet(l)
    /\ rwActive' = [rwActive EXCEPT ![l] = FALSE]
    /\ UNCHANGED <<writer, writerTid, srwVars, rwpc, rwlk, rwkind>>

-----------------------------------------------------------------------------
(* rlock, tryrlock, runlock *)

RlockCall(t, l, kind) ==
    /\ rwActive[l] /\ srwShared[l][t] < MaxReads
    /\ Call(t, l, "rlock", kind)
    /\ UNCHANGED <<rwWords, srwVars>>

RlockEnter(t) ==
    LET l == rwlk[t] IN
    /\ At(t, "rlock") /\ srwExcl[l] = None
    /\ srwShared' = [srwShared EXCEPT ![l][t] = @ + 1]
    /\ Go(t, "idle")
    /\ UNCHANGED <<rwWords, srwExcl>>

WritersWait(l) == \E u \in Threads : At(u, "wlock") /\ rwlk[u] = l

\* The Try fails and the lock is gone (ESRCH), the deadline passed (ETIMEDOUT), or
\* the call does not wait (EBUSY).
RlockGiveUp(t) ==
    /\ At(t, "rlock") /\ rwkind[t] # "forever"
    /\ srwExcl[rwlk[t]] # None \/ WritersWait(rwlk[t])
    /\ Go(t, "idle")
    /\ UNCHANGED <<rwWords, srwVars>>

\* The release is unconditional: the guest unlocks what it locked.
Runlock(t, l) ==
    /\ At(t, "idle") /\ rwActive[l] /\ srwShared[l][t] > 0
    /\ srwShared' = [srwShared EXCEPT ![l][t] = @ - 1]
    /\ UNCHANGED <<rwWords, srwExcl, rwpc, rwlk, rwkind>>

-----------------------------------------------------------------------------
(* wlock, trywlock, wunlock *)

Owns(t, l) == writer[l] /\ writerTid[l] = t

\* EDEADLK for the thread the words name.
WlockCall(t, l, kind) ==
    /\ rwActive[l] /\ ~Owns(t, l)
    /\ Call(t, l, "wlock", kind)
    /\ UNCHANGED <<rwWords, srwVars>>

Unshared(l) == \A u \in Threads : srwShared[l][u] = 0

WlockEnter(t) ==
    LET l == rwlk[t] IN
    /\ At(t, "wlock") /\ srwExcl[l] = None /\ Unshared(l)
    /\ srwExcl' = [srwExcl EXCEPT ![l] = t]
    /\ Go(t, "own")
    /\ UNCHANGED <<rwWords, srwShared>>

WlockGiveUp(t) ==
    LET l == rwlk[t] IN
    /\ At(t, "wlock") /\ rwkind[t] # "forever"
    /\ srwExcl[l] # None \/ ~Unshared(l)
    /\ Go(t, "idle")
    /\ UNCHANGED <<rwWords, srwVars>>

WlockOwn(t) ==
    /\ At(t, "own")
    /\ writer' = [writer EXCEPT ![rwlk[t]] = TRUE]
    /\ Go(t, "name")
    /\ UNCHANGED <<rwActive, writerTid, srwVars>>

WlockName(t) ==
    /\ At(t, "name")
    /\ writerTid' = [writerTid EXCEPT ![rwlk[t]] = t]
    /\ Go(t, "idle")
    /\ UNCHANGED <<rwActive, writer, srwVars>>

\* mutant: the unlock leaves the name of the old writer
NameKept(l) == writerTid

NameCleared(l) == [writerTid EXCEPT ![l] = None]

\* EPERM for every thread but the one the words name.
WunlockCall(t, l) ==
    /\ rwActive[l] /\ Owns(t, l)
    /\ Call(t, l, "disown", "forever")
    /\ writerTid' = NameCleared(l)
    /\ UNCHANGED <<rwActive, writer, srwVars>>

WunlockDisown(t) ==
    /\ At(t, "disown")
    /\ writer' = [writer EXCEPT ![rwlk[t]] = FALSE]
    /\ Go(t, "release")
    /\ UNCHANGED <<rwActive, writerTid, srwVars>>

WunlockRelease(t) ==
    /\ At(t, "release")
    /\ srwExcl' = [srwExcl EXCEPT ![rwlk[t]] = None]
    /\ Go(t, "idle")
    /\ UNCHANGED <<rwWords, srwShared>>

-----------------------------------------------------------------------------

Next ==
    \E t \in Threads :
       \/ CreateFill(t) \/ RlockEnter(t) \/ RlockGiveUp(t)
       \/ WlockEnter(t) \/ WlockGiveUp(t) \/ WlockOwn(t) \/ WlockName(t)
       \/ WunlockDisown(t) \/ WunlockRelease(t)
       \/ \E l \in Locks :
             \/ CreatePick(t, l) \/ Destroy(t, l) \/ Runlock(t, l) \/ WunlockCall(t, l)
             \/ \E k \in RwKinds : RlockCall(t, l, k) \/ WlockCall(t, l, k)

Spec == Init /\ [][Next]_rwVars

-----------------------------------------------------------------------------

TypeOK ==
    /\ rwActive \in [Locks -> BOOLEAN]
    /\ writer \in [Locks -> BOOLEAN]
    /\ writerTid \in [Locks -> Threads \cup {None}]
    /\ srwExcl \in [Locks -> Threads \cup {None}]
    /\ srwShared \in [Locks -> [Threads -> Nat]]
    /\ rwpc \in [Threads -> RwPcs]
    /\ rwlk \in [Threads -> Locks]
    /\ rwkind \in [Threads -> RwKinds]

\* What EDEADLK and EPERM are decided by is true of the SRW lock: a thread is named
\* as writer only while it holds the lock exclusively, in every interleaving of the
\* three stores that follow an acquisition and precede a release with the reads of
\* the other threads.
NamedHolds == \A l \in Locks, t \in Threads : Owns(t, l) => srwExcl[l] = t

\* A release of the exclusive lock is made by its holder.
ReleasesOwn ==
    \A t \in Threads : rwpc[t] \in {"own", "name", "disown", "release"} => srwExcl[rwlk[t]] = t

\* A holder that is back from its call is the one that is named, so that it can unlock.
HolderNamed ==
    \A l \in Locks, t \in Threads :
        srwExcl[l] = t /\ (At(t, "idle") \/ rwlk[t] # l) => Owns(t, l)

Exclusive == \A l \in Locks : srwExcl[l] # None => Unshared(l)

(* The owner words, written outside the lock, and the lock agree as far as the
   error answers of wlock and wunlock need, and the slot is not recycled under
   its holders while the guest destroys only locks nobody uses.              *)
WriterKnown == NamedHolds /\ ReleasesOwn /\ HolderNamed /\ Exclusive

=============================================================================
