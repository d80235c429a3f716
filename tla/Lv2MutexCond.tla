---------------------------- MODULE Lv2MutexCond ----------------------------
(***************************************************************************)
(* lv2 mutexes and condition variables, runtime/syscalls/sys_mutex.c and   *)
(* sys_cond.c, Win32 branches.  A guest mutex is a host CRITICAL_SECTION   *)
(* (CS) plus bookkeeping that is written outside it; a condition variable  *)
(* is two counters and a host CV under a lock of its own (sig_cs).         *)
(*                                                                         *)
(* The calls look their object up without a lock, so an object may be      *)
(* destroyed under a call.  With RacyTeardown = FALSE the guest destroys   *)
(* an object only while no call is in a window that the code leaves        *)
(* unguarded; with TRUE it may destroy it at any time.                     *)
(***************************************************************************)
EXTENDS Integers, FiniteSets

CONSTANTS
    Threads,        \* guest PPU threads
    None,           \* owner_tid = 0: no thread
    NumMutexes,     \* SYS_MUTEX_MAX
    NumConds,       \* SYS_COND_MAX
    TidMax,         \* SYS_COND_WAITER_TIDS_MAX
    MaxDepth,       \* bound: how deep the guest nests a recursive mutex
    RacyTeardown    \* the guest may destroy an object under a call

ASSUME SizesAssumption    == {NumMutexes, NumConds, TidMax, MaxDepth} \subseteq Nat \ {0}
ASSUME ThreadsAssumption  == IsFiniteSet(Threads) /\ None \notin Threads
ASSUME TeardownAssumption == RacyTeardown \in BOOLEAN

Mutexes == 1..NumMutexes
Conds   == 1..NumConds

VARIABLES
    mActive, recursive, ownerTid, lockCount, condCount,   \* sys_mutex_info
    csOwner, csCount,                                     \* its CRITICAL_SECTION
    cActive, cMutex, committed, pending, tids,            \* sys_cond_info
    pc, mtx, cnd, saved, kind,                            \* the call of a thread
    owed   \* history: waiters a signal_all found committed, not yet served

mutexVars == <<mActive, recursive, ownerTid, lockCount, condCount>>
csVars    == <<csOwner, csCount>>
condVars  == <<cActive, cMutex, committed, pending, tids, owed>>
callVars  == <<pc, mtx, cnd, saved, kind>>
vars == <<mActive, recursive, ownerTid, lockCount, condCount, csOwner, csCount,
          cActive, cMutex, committed, pending, tids, pc, mtx, cnd, saved, kind, owed>>

LockPcs  == {"lock", "try", "publish", "leave"}
WaitPcs  == {"commit", "asleep", "awake", "reacquire", "restore"}
SigPcs   == {"signal", "sigall", "sigto"}
PcValues == {"idle", "cnew"} \cup LockPcs \cup WaitPcs \cup SigPcs
Kinds    == {"forever", "timed", "poll"}      \* of a wait, by its timeout

Init ==
    /\ mActive = [m \in Mutexes |-> FALSE]
    /\ recursive = [m \in Mutexes |-> FALSE]
    /\ ownerTid = [m \in Mutexes |-> None]
    /\ lockCount = [m \in Mutexes |-> 0]
    /\ condCount = [m \in Mutexes |-> 0]
    /\ csOwner = [m \in Mutexes |-> None]
    /\ csCount = [m \in Mutexes |-> 0]
    /\ cActive = [c \in Conds |-> FALSE]
    /\ cMutex = [c \in Conds |-> 1]
    /\ committed = [c \in Conds |-> 0]
    /\ pending = [c \in Conds |-> 0]
    /\ tids = [c \in Conds |-> {}]
    /\ pc = [t \in Threads |-> "idle"]
    /\ mtx = [t \in Threads |-> 1]
    /\ cnd = [t \in Threads |-> 1]
    /\ saved = [t \in Threads |-> 0]
    /\ kind = [t \in Threads |-> "forever"]
    /\ owed = {}

\* A call returns, or moves on.
Return(t)     == pc' = [pc EXCEPT ![t] = "idle"] /\ UNCHANGED <<mtx, cnd, saved, kind>>
Goto(t, next) == pc' = [pc EXCEPT ![t] = next] /\ UNCHANGED <<mtx, cnd, saved, kind>>

\* A call on mutex m that passed its checks.
Begin(t, m, next) ==
    /\ pc[t] = "idle"
    /\ mActive[m]
    /\ pc' = [pc EXCEPT ![t] = next]
    /\ mtx' = [mtx EXCEPT ![t] = m]

-----------------------------------------------------------------------------
(* The host CRITICAL_SECTION; entering a deleted one is undefined, here it
   behaves as a fresh one, and leaving one that is not held does nothing.   *)

CsFreeFor(t, m) == csOwner[m] \in {None, t}

CsEnter(t, m, levels) ==
    /\ CsFreeFor(t, m)
    /\ csOwner' = [csOwner EXCEPT ![m] = t]
    /\ csCount' = [csCount EXCEPT ![m] = @ + levels]

CsLeave(t, m, levels) ==
    IF csOwner[m] # t
    THEN UNCHANGED csVars
    ELSE /\ csCount' = [csCount EXCEPT ![m] = @ - levels]
         /\ csOwner' = [csOwner EXCEPT ![m] = IF csCount[m] = levels THEN None ELSE @]

-----------------------------------------------------------------------------
(* sys_mutex.c *)

MutexCreate(t, m, rec) ==
    /\ pc[t] = "idle"
    /\ ~mActive[m] /\ \A k \in Mutexes : k < m => mActive[k]
    /\ mActive' = [mActive EXCEPT ![m] = TRUE]
    /\ recursive' = [recursive EXCEPT ![m] = rec]
    /\ ownerTid' = [ownerTid EXCEPT ![m] = None]
    /\ lockCount' = [lockCount EXCEPT ![m] = 0]
    /\ condCount' = [condCount EXCEPT ![m] = 0]
    /\ csOwner' = [csOwner EXCEPT ![m] = None]
    /\ csCount' = [csCount EXCEPT ![m] = 0]
    /\ UNCHANGED <<condVars, callVars>>

\* Threads in a stretch of a call on m that no guard of destroy covers.
ExposedOn(m) == {t \in Threads :
                   pc[t] \in LockPcs \cup {"cnew", "reacquire", "restore"} /\ mtx[t] = m}

\* mutant: destroy without the owner test
DestroyableOwned(m) == condCount[m] <= 0

\* else EBUSY, EPERM
Destroyable(m) == ownerTid[m] = None /\ condCount[m] <= 0

MutexDestroy(t, m) ==
    /\ pc[t] = "idle"
    /\ mActive[m]
    /\ Destroyable(m)
    /\ RacyTeardown \/ ExposedOn(m) = {}
    /\ mActive' = [mActive EXCEPT ![m] = FALSE]
    /\ csOwner' = [csOwner EXCEPT ![m] = None]      \* DeleteCriticalSection
    /\ csCount' = [csCount EXCEPT ![m] = 0]
    /\ UNCHANGED <<recursive, ownerTid, lockCount, condCount, condVars, callVars>>

\* The unlocked EDEADLK test of lock and trylock.
SelfOwned(t, m) == ~recursive[m] /\ ownerTid[m] = t /\ lockCount[m] > 0

Nests(t, m) == ~SelfOwned(t, m) /\ (ownerTid[m] = t => lockCount[m] < MaxDepth)

LockCall(t, m, k) ==
    /\ Begin(t, m, "lock")
    /\ Nests(t, m)
    /\ kind' = [kind EXCEPT ![t] = k]
    /\ UNCHANGED <<cnd, saved, mutexVars, csVars, condVars>>

\* trylock's recursive branch enters its own CS, which TryEnter grants too.
TryCall(t, m) ==
    /\ Begin(t, m, "try")
    /\ Nests(t, m)
    /\ UNCHANGED <<cnd, saved, kind, mutexVars, csVars, condVars>>

LockEnter(t) ==
    /\ pc[t] \in {"lock", "try"}
    /\ CsEnter(t, mtx[t], 1)
    /\ Goto(t, "publish")
    /\ UNCHANGED <<mutexVars, condVars>>

\* ETIMEDOUT of a timed lock, EBUSY of trylock.
LockGiveUp(t) ==
    /\ pc[t] = "try" \/ (pc[t] = "lock" /\ kind[t] # "forever")
    /\ ~CsFreeFor(t, mtx[t])
    /\ Return(t)
    /\ UNCHANGED <<mutexVars, csVars, condVars>>

LockPublish(t) ==
    /\ pc[t] = "publish"
    /\ ownerTid' = [ownerTid EXCEPT ![mtx[t]] = t]
    /\ lockCount' = [lockCount EXCEPT ![mtx[t]] = @ + 1]
    /\ Return(t)
    /\ UNCHANGED <<mActive, recursive, condCount, csVars, condVars>>

\* mutant: the last unlock does not clear the owner
OwnerKept(m) == ownerTid[m]

OwnerAfterUnlock(m) == IF lockCount[m] = 1 THEN None ELSE ownerTid[m]

UnlockCall(t, m) ==
    /\ Begin(t, m, "leave")
    /\ ownerTid[m] = t                              \* else EPERM
    /\ lockCount' = [lockCount EXCEPT ![m] = @ - 1]
    /\ ownerTid' = [ownerTid EXCEPT ![m] = OwnerAfterUnlock(m)]
    /\ UNCHANGED <<mActive, recursive, condCount, cnd, saved, kind, csVars, condVars>>

UnlockLeave(t) ==
    /\ pc[t] = "leave"
    /\ CsLeave(t, mtx[t], 1)
    /\ Return(t)
    /\ UNCHANGED <<mutexVars, condVars>>

-----------------------------------------------------------------------------
(* sys_cond.c: create and destroy *)

\* The mutex is validated before the table lock is taken.
CondCreateCall(t, m) ==
    /\ Begin(t, m, "cnew")
    /\ UNCHANGED <<cnd, saved, kind, mutexVars, csVars, condVars>>

CondCreate(t, c) ==
    /\ pc[t] = "cnew"
    /\ ~cActive[c] /\ \A d \in Conds : d < c => cActive[d]
    /\ cActive' = [cActive EXCEPT ![c] = TRUE]
    /\ cMutex' = [cMutex EXCEPT ![c] = mtx[t]]
    /\ committed' = [committed EXCEPT ![c] = 0]
    /\ pending' = [pending EXCEPT ![c] = 0]
    /\ tids' = [tids EXCEPT ![c] = {}]
    /\ condCount' = [condCount EXCEPT ![mtx[t]] = @ + 1]
    /\ Return(t)
    /\ UNCHANGED <<mActive, recursive, ownerTid, lockCount, csVars, owed>>

\* EAGAIN
CondCreateFull(t) ==
    /\ pc[t] = "cnew"
    /\ \A c \in Conds : cActive[c]
    /\ Return(t)
    /\ UNCHANGED <<mutexVars, csVars, condVars>>

\* Threads past the active test of a call on c and not yet under its sig lock.
ExposedOnCond(c) == {t \in Threads : pc[t] \in SigPcs \cup {"commit"} /\ cnd[t] = c}

\* mutant: destroy without the committed test
NoWaiterUnchecked(c) == TRUE

NoWaiter(c) == committed[c] <= 0

CondDestroy(t, c) ==
    /\ pc[t] = "idle"
    /\ cActive[c]
    /\ NoWaiter(c)                                  \* else EBUSY
    /\ RacyTeardown \/ ExposedOnCond(c) = {}
    /\ cActive' = [cActive EXCEPT ![c] = FALSE]
    /\ condCount' = [condCount EXCEPT ![cMutex[c]] =
                        IF mActive[cMutex[c]] /\ @ > 0 THEN @ - 1 ELSE @]
    /\ UNCHANGED <<mActive, recursive, ownerTid, lockCount, csVars, cMutex, committed,
                   pending, tids, owed, callVars>>

-----------------------------------------------------------------------------
(* sys_cond_wait *)

\* The checks, then the ownership is saved and cleared with the CS still held.
WaitCall(t, c, k) ==
    /\ pc[t] = "idle"
    /\ cActive[c]
    /\ mActive[cMutex[c]]
    /\ ownerTid[cMutex[c]] = t                      \* else EPERM
    /\ pc' = [pc EXCEPT ![t] = "commit"]
    /\ mtx' = [mtx EXCEPT ![t] = cMutex[c]]
    /\ cnd' = [cnd EXCEPT ![t] = c]
    /\ saved' = [saved EXCEPT ![t] = lockCount[cMutex[c]]]
    /\ kind' = [kind EXCEPT ![t] = k]
    /\ ownerTid' = [ownerTid EXCEPT ![cMutex[c]] = None]
    /\ lockCount' = [lockCount EXCEPT ![cMutex[c]] = 0]
    /\ UNCHANGED <<mActive, recursive, condCount, csVars, condVars>>

\* cond_waiter_add tracks at most TidMax waiters.
TidsWith(c, t) == IF Cardinality(tids[c]) < TidMax THEN tids[c] \cup {t} ELSE tids[c]

\* One pass under sig_cs: commit, release every level of the guest mutex, and
\* either consume a pending signal at once or sleep (a sub-ms wait polls).
WaitCommit(t) ==
    LET c == cnd[t]
        consumes == pending[c] # 0
    IN  /\ pc[t] = "commit"
        /\ CsLeave(t, mtx[t], saved[t])
        /\ committed' = [committed EXCEPT ![c] = IF consumes THEN @ ELSE @ + 1]
        /\ pending' = [pending EXCEPT ![c] = IF consumes THEN @ - 1 ELSE @]
        /\ tids' = [tids EXCEPT ![c] = IF consumes THEN @ ELSE TidsWith(c, t)]
        /\ Goto(t, IF consumes THEN "reacquire" ELSE IF kind[t] = "poll" THEN "awake" ELSE "asleep")
        /\ UNCHANGED <<mutexVars, cActive, cMutex, owed>>

\* The end of a slice, a timeout of the CV, or a spurious wake.
WaitCvReturns(t) ==
    /\ pc[t] = "asleep"
    /\ Goto(t, "awake")
    /\ UNCHANGED <<mutexVars, csVars, condVars>>

\* The waiter leaves the loop, taking `taken' signals with it.
WaitEnds(t, taken) ==
    /\ pending' = [pending EXCEPT ![cnd[t]] = @ - taken]
    /\ committed' = [committed EXCEPT ![cnd[t]] = @ - 1]
    /\ tids' = [tids EXCEPT ![cnd[t]] = @ \ {t}]
    /\ owed' = owed \ {t}
    /\ Goto(t, "reacquire")
    /\ UNCHANGED <<mutexVars, csVars, cActive, cMutex>>

WaitConsume(t) ==
    /\ pc[t] = "awake"
    /\ pending[cnd[t]] # 0
    /\ WaitEnds(t, 1)

\* mutant: a timeout that does not look at pending again
WaitTimeoutBlind(t) == pc[t] = "awake" /\ kind[t] # "forever" /\ WaitEnds(t, 0)

WaitTimeout(t) ==
    /\ pc[t] = "awake"
    /\ kind[t] # "forever"
    /\ pending[cnd[t]] = 0
    /\ WaitEnds(t, 0)

WaitResleep(t) ==
    /\ pc[t] = "awake"
    /\ pending[cnd[t]] = 0
    /\ kind[t] # "poll"
    /\ Goto(t, "asleep")
    /\ UNCHANGED <<mutexVars, csVars, condVars>>

\* mutant: a recursive holder gets one level back
LevelOne(t) == 1

LevelsBack(t) == saved[t]

WaitReacquire(t) ==
    /\ pc[t] = "reacquire"
    /\ CsEnter(t, mtx[t], LevelsBack(t))
    /\ Goto(t, "restore")
    /\ UNCHANGED <<mutexVars, condVars>>

WaitRestore(t) ==
    /\ pc[t] = "restore"
    /\ ownerTid' = [ownerTid EXCEPT ![mtx[t]] = t]
    /\ lockCount' = [lockCount EXCEPT ![mtx[t]] = saved[t]]
    /\ Return(t)
    /\ UNCHANGED <<mActive, recursive, condCount, csVars, condVars>>

-----------------------------------------------------------------------------
(* sys_cond_signal, signal_all, signal_to: the active test, then one region
   under sig_cs *)

SignalCall(t, c, how) ==
    /\ pc[t] = "idle"
    /\ cActive[c]
    /\ pc' = [pc EXCEPT ![t] = how]
    /\ cnd' = [cnd EXCEPT ![t] = c]
    /\ UNCHANGED <<mtx, saved, kind, mutexVars, csVars, condVars>>

WaitersOf(c) == {t \in Threads : pc[t] \in {"asleep", "awake"} /\ cnd[t] = c}
Sleepers(c)  == {t \in WaitersOf(c) : pc[t] = "asleep"}

\* The signaller returns and the CV moves the threads of W off its queue.
ReturnWaking(t, W) ==
    /\ pc' = [u \in Threads |-> IF u = t THEN "idle" ELSE IF u \in W THEN "awake" ELSE pc[u]]
    /\ UNCHANGED <<mtx, cnd, saved, kind>>

\* mutant: the wake is left out
NoneOf(S) == {{}}

\* WakeConditionVariable: one sleeper, if there is one.
OneOf(S) == IF S = {} THEN {{}} ELSE {{u} : u \in S}

Deliverable(c) == committed[c] > pending[c]

Signal(t) ==
    LET c == cnd[t] IN
    /\ pc[t] = "signal"
    /\ IF Deliverable(c)
       THEN /\ pending' = [pending EXCEPT ![c] = @ + 1]
            /\ \E W \in OneOf(Sleepers(c)) : ReturnWaking(t, W)
       ELSE UNCHANGED pending /\ Return(t)
    /\ UNCHANGED <<mutexVars, csVars, cActive, cMutex, committed, tids, owed>>

SignalAll(t) ==
    LET c == cnd[t] IN
    /\ pc[t] = "sigall"
    /\ pending' = [pending EXCEPT ![c] = committed[c]]
    /\ ReturnWaking(t, Sleepers(c))
    /\ owed' = owed \cup WaitersOf(c)
    /\ UNCHANGED <<mutexVars, csVars, cActive, cMutex, committed, tids>>

\* Delivery is to any waiter (the header says so); the target is only validated.
SignalTo(t, target) ==
    LET c == cnd[t] IN
    /\ pc[t] = "sigto"
    /\ IF target \in tids[c] /\ Deliverable(c)
       THEN /\ pending' = [pending EXCEPT ![c] = @ + 1]
            /\ ReturnWaking(t, Sleepers(c))
       ELSE UNCHANGED pending /\ Return(t)
    /\ UNCHANGED <<mutexVars, csVars, cActive, cMutex, committed, tids, owed>>

-----------------------------------------------------------------------------

Call(t) ==
    \/ \E m \in Mutexes :
          \/ \E rec \in BOOLEAN : MutexCreate(t, m, rec)
          \/ MutexDestroy(t, m)
          \/ \E k \in {"forever", "timed"} : LockCall(t, m, k)
          \/ TryCall(t, m)
          \/ UnlockCall(t, m)
          \/ CondCreateCall(t, m)
    \/ \E c \in Conds :
          \/ CondDestroy(t, c)
          \/ \E k \in Kinds : WaitCall(t, c, k)
          \/ \E how \in SigPcs : SignalCall(t, c, how)

Step(t) ==
    \/ LockEnter(t) \/ LockGiveUp(t) \/ LockPublish(t) \/ UnlockLeave(t)
    \/ \E c \in Conds : CondCreate(t, c)
    \/ CondCreateFull(t)
    \/ WaitCommit(t) \/ WaitConsume(t) \/ WaitTimeout(t) \/ WaitResleep(t)
    \/ WaitReacquire(t) \/ WaitRestore(t)
    \/ Signal(t) \/ SignalAll(t) \/ \E target \in Threads : SignalTo(t, target)

Next == \E t \in Threads : Call(t) \/ Step(t) \/ WaitCvReturns(t)

Spec == Init /\ [][Next]_vars

(* The host runs every thread that is not blocked.  Nothing is assumed of the
   guest's calls, nor of timeouts and spurious wakes of the CV. *)
FairSpec == Spec /\ \A t \in Threads : WF_vars(Step(t))

-----------------------------------------------------------------------------

TypeOK ==
    /\ mActive \in [Mutexes -> BOOLEAN] /\ recursive \in [Mutexes -> BOOLEAN]
    /\ ownerTid \in [Mutexes -> Threads \cup {None}]
    /\ lockCount \in [Mutexes -> Nat] /\ condCount \in [Mutexes -> Int]
    /\ csOwner \in [Mutexes -> Threads \cup {None}] /\ csCount \in [Mutexes -> Nat]
    /\ cActive \in [Conds -> BOOLEAN] /\ cMutex \in [Conds -> Mutexes]
    /\ committed \in [Conds -> Int] /\ pending \in [Conds -> Int]
    /\ tids \in [Conds -> SUBSET Threads]
    /\ pc \in [Threads -> PcValues]
    /\ mtx \in [Threads -> Mutexes] /\ cnd \in [Threads -> Conds]
    /\ saved \in [Threads -> Nat] /\ kind \in [Threads -> Kinds]
    /\ owed \subseteq Threads

\* Levels of the CS that thread t holds and the bookkeeping does not show.
Unbooked(t) ==
    CASE pc[t] \in {"publish", "leave"}   -> 1
      [] pc[t] \in {"commit", "restore"}  -> saved[t]
      [] OTHER                            -> 0

(* The bookkeeping written outside the CS agrees with it: levels entered and
   left pair up (the comments of sys_mutex_trylock and sys_cond_wait on
   unbalanced Leaves), for a holder between two calls and inside each one. *)
Pairing ==
    \A m \in Mutexes :
        LET h == csOwner[m] IN
        IF h = None
        THEN csCount[m] = 0 /\ lockCount[m] = 0 /\ ownerTid[m] = None
        ELSE /\ csCount[m] > 0
             /\ csCount[m] = lockCount[m] + (IF mtx[h] = m THEN Unbooked(h) ELSE 0)
             /\ ownerTid[m] = (IF lockCount[m] > 0 THEN h ELSE None)

\* A thread that is past an Enter and not yet past the paired Leave holds the
\* CS: no Leave, and no write of the bookkeeping, is made by another thread.
HoldersHold ==
    \A t \in Threads :
        pc[t] \in {"publish", "leave", "commit", "restore"} => csOwner[mtx[t]] = t

(* Levels entered and left pair up and only their holder touches them, although
   the bookkeeping of a call is written outside the CS it is about.          *)
Bookkeeping == Pairing /\ HoldersHold

(* A wait that is committed is counted and, while the table has room, listed
   for signal_to. *)
CommittedExact ==
    \A c \in Conds : cActive[c] =>
        /\ committed[c] = Cardinality(WaitersOf(c))
        /\ tids[c] \subseteq WaitersOf(c)
        /\ Cardinality(Threads) <= TidMax => tids[c] = WaitersOf(c)

(* The rendezvous: a signal is held only for a waiter that is awake or has
   been woken, so none of the pending signals waits for a sleeper. *)
NoLostSignal ==
    \A c \in Conds : cActive[c] =>
        0 <= pending[c] /\ pending[c] <= Cardinality(WaitersOf(c) \ Sleepers(c))

(* Signals between the commit of a wait, its timeout and its wake are neither
   lost nor invented.                                                        *)
SignalsKept == CommittedExact /\ NoLostSignal

(* sys_mutex_destroy's EPERM: all conds of a mutex are destroyed before it, and
   cond_count is their number. *)
CondsFirst ==
    /\ \A c \in Conds : cActive[c] => mActive[cMutex[c]]
    /\ \A m \in Mutexes : mActive[m] =>
          condCount[m] = Cardinality({c \in Conds : cActive[c] /\ cMutex[c] = m})

(* sys_cond_destroy's EBUSY: no waiter is stranded on a destroyed cond. *)
NoStrandedWaiter == \A t \in Threads : pc[t] \in {"asleep", "awake"} => cActive[cnd[t]]

(* While the guest keeps out of the unguarded windows, teardown is orderly: a
   cond goes before its mutex and no waiter is left behind.                  *)
TeardownSafe == CondsFirst /\ NoStrandedWaiter

(* sys_mutex_destroy's EBUSY: no CS is deleted under the thread that holds it. *)
NoHeldDelete ==
    [][\A m \in Mutexes : mActive[m] /\ ~mActive'[m] => csOwner[m] = None]_vars

(* A signal that is held gets a waiter out of its sleep. *)
SignalServed ==
    \A c \in Conds :
        pending[c] > 0 ~> \E t \in Threads : pc[t] = "reacquire" /\ cnd[t] = c

(* "Serve every committed waiter" (sys_cond_signal_all): a waiter that was
   committed when the broadcast was made does not go back to sleep. *)
BroadcastServesAll ==
    [][\A t \in owed : pc[t] = "awake" => pc'[t] \in {"awake", "reacquire"}]_vars

=============================================================================
