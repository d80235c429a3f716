---------------------------- MODULE HostedProofs ----------------------------
(***************************************************************************)
(* Theorems about eight of the objects that the run Objects hosts, each    *)
(* for every size: reader-writer locks, the two tables of PPU threads,     *)
(* timers, SPU thread groups, event flags as long as the guest destroys    *)
(* none under a call (RacyTeardown = FALSE), event queues as long as an id *)
(* is created anew only when no call is left on it (EagerReuse = FALSE),   *)
(* and lightweight mutexes and conditions.  They are instances here, each  *)
(* with its own variables and none with anything of another's.             *)
(***************************************************************************)
EXTENDS Integers, FiniteSets, Sequences, FiniteSetTheorems, SequenceTheorems,
        WellFoundedInduction, TLAPS

CONSTANTS
    Threads, None, NumLocks, MaxReads, RacyTeardown,                 \* reader-writer locks
    NumRecs, MaxTid, EarlyIds,                                       \* PPU threads
    NumSlots, MaxLives, Careful,                                     \* those of the runtime
    TimerCallers, MaxStarts, Capacity, SlowHost,                     \* a timer
    NumGroups, NumThreads, Size, MaxRuns, MaxGroups, Statuses, Eager,\* SPU thread groups
    Callers,                                                         \* of groups and of the runtime
    NumFlags, Bits, Asks, MaxGen,                                    \* event flags
    NumQueues, NumPorts, BufMax, Keys, Data, EagerReuse,             \* event queues
    LightThreads, LwMutexes, LwConds, NumLwSlots, MaxDepth, MaxWipes, Churn \* lightweight ones

VARIABLES
    rwActive, writer, writerTid, srwExcl, srwShared, rwpc, rwlk, rwkind,
    recs, nextTid, life, thrcall, known, once,
    table, lives, tpc, returned,
    timer, started, signalled, host, tcall, equeue,
    groups, sthreads, runs, nextRun, nextGroup, scall,
    active, pattern, fwaiters, cancelGen, fpc, flg, want, snap, counted,
    qActive, key, ring, qwaiters, forced, pActive, conn, qpc, que, evt, qkind, got, qcancelled,
    lwm, slots, nextSlot, lwc, lwcall, held

Rw    == INSTANCE Lv2RwLock
Ppu   == INSTANCE PpuThreads
Lv2   == INSTANCE Lv2Threads
Timer == INSTANCE Lv2Timer WITH Callers <- TimerCallers
Spu   == INSTANCE SpuGroups
Flag  == INSTANCE Lv2EventFlag WITH waiters <- fwaiters, pc <- fpc
Queue == INSTANCE Lv2EventQueue WITH
             waiters <- qwaiters, pc <- qpc, kind <- qkind, cancelled <- qcancelled
Light == INSTANCE LwMutexCond WITH Threads <- LightThreads, MaxGen <- MaxWipes

\* The least element, which a CHOOSE over ids or slots finds.
LEMMA LeastExists ==
    ASSUME NEW S \in SUBSET Nat, S # {}
    PROVE  \E i \in S : \A j \in S : i <= j
<1> DEFINE Less == {ss \in Nat \X Nat : ss[1] < ss[2]}
<1>1. IsWellFoundedOn(Less, Nat)
  BY NatLessThanWellFounded DEF OpToRel
<1>2. \E i \in S : \A j \in S : ~ (<<j, i>> \in Less)
  <2> HIDE DEF Less
  <2> QED BY <1>1, WFMin
<1>3. PICK i \in S : \A j \in S : ~ (<<j, i>> \in Less)
  BY <1>2
<1>4. ASSUME NEW j \in S PROVE i <= j
  <2>1. i \in Nat /\ j \in Nat /\ ~ (<<j, i>> \in Less)
    BY <1>3
  <2>2. ~ (j < i)
    BY <2>1
  <2> HIDE DEF Less
  <2> QED BY <2>1, <2>2
<1> QED BY <1>4

\* Cardinality means in the instances what it means here.
LEMMA SameCardinality ==
    ASSUME NEW S
    PROVE  /\ Ppu!Cardinality(S) = Cardinality(S)
           /\ Timer!Cardinality(S) = Cardinality(S)
           /\ Flag!Cardinality(S) = Cardinality(S) /\ Queue!Cardinality(S) = Cardinality(S)
           /\ Flag!IsFiniteSet(S) = IsFiniteSet(S) /\ Queue!IsFiniteSet(S) = IsFiniteSet(S)
           /\ Light!Cardinality(S) = Cardinality(S)
  BY DEF Ppu!Cardinality, Timer!Cardinality, Flag!Cardinality, Queue!Cardinality, Cardinality,
         Light!Cardinality,
         Flag!IsFiniteSet, Queue!IsFiniteSet, IsFiniteSet

-----------------------------------------------------------------------------
(* Reader-writer locks *)

HoldPcs == {"own", "name", "disown", "release"}

\* Where the holder of a lock is, as far as this lock is concerned.
RwPlace(t, l) == IF rwlk[t] = l THEN rwpc[t] ELSE "idle"

\* The words name nobody while the lock is free; otherwise they name the holder,
\* except while it is between its acquisition and its last store, or its first
\* store and its release.
WordsFollow(l) ==
    /\ srwExcl[l] = None => ~writer[l] /\ writerTid[l] = None
    /\ \A t \in Threads : srwExcl[l] = t =>
          /\ writer[l] <=> RwPlace(t, l) \notin {"own", "release"}
          /\ writerTid[l] = IF RwPlace(t, l) \in HoldPcs THEN None ELSE t

\* A call is in a live lock, and one thread at a time fills a free slot.
InLiveLocks ==
    /\ \A t \in Threads : /\ rwpc[t] \notin {"idle", "create"} => rwActive[rwlk[t]]
                          /\ rwpc[t] = "create" => ~rwActive[rwlk[t]]
    /\ \A t, u \in Threads : rwpc[t] = "create" /\ rwpc[u] = "create" => t = u

RwInv ==
    Rw!TypeOK /\ InLiveLocks /\ Rw!ReleasesOwn /\ Rw!Exclusive /\ \A l \in Rw!Locks : WordsFollow(l)

\* What the invariant says of the answers EDEADLK and EPERM.
LEMMA RwInvFollows == Rw!RwSizes /\ RwInv => Rw!WriterKnown
<1> SUFFICES ASSUME Rw!RwSizes, RwInv PROVE Rw!WriterKnown
  OBVIOUS
<1>1. Rw!NamedHolds
  BY DEF Rw!RwSizes, RwInv, Rw!TypeOK, WordsFollow, Rw!NamedHolds, Rw!Owns
<1>2. Rw!HolderNamed
  BY DEF Rw!RwSizes, RwInv, Rw!TypeOK, WordsFollow, Rw!HolderNamed, Rw!Owns, RwPlace, HoldPcs,
     Rw!At
<1> QED BY <1>1, <1>2 DEF RwInv, Rw!WriterKnown

LEMMA RwInitInv == Rw!RwSizes /\ Rw!Init => RwInv
<1> SUFFICES ASSUME Rw!RwSizes, Rw!Init PROVE RwInv
  OBVIOUS
<1>1. Rw!TypeOK
  BY DEF Rw!RwSizes, Rw!Init, Rw!TypeOK, Rw!Locks, Rw!RwPcs, Rw!RwKinds
<1> QED BY <1>1 DEF Rw!RwSizes, Rw!Init, RwInv, InLiveLocks, Rw!ReleasesOwn, Rw!Exclusive,
           WordsFollow, RwPlace

-----------------------------------------------------------------------------

\* A thread goes to another place; nobody else moves.
RwMoves(t, l, where) ==
    /\ rwpc' = [rwpc EXCEPT ![t] = where]
    /\ rwlk' = [rwlk EXCEPT ![t] = l]
    /\ rwkind' \in [Threads -> Rw!RwKinds]

LEMMA RwGoMoves ==
  ASSUME Rw!TypeOK, NEW t \in Threads, NEW where, Rw!Go(t, where)
  PROVE  RwMoves(t, rwlk[t], where)
  BY DEF Rw!Go, RwMoves, Rw!TypeOK

LEMMA RwCallMoves ==
  ASSUME Rw!TypeOK, NEW t \in Threads, NEW l, NEW where, NEW k \in Rw!RwKinds, Rw!Call(t, l, where, k)
  PROVE  RwMoves(t, l, where) /\ rwpc[t] = "idle"
  BY DEF Rw!Call, RwMoves, Rw!TypeOK, Rw!At

\* Calls that begin, and calls that end without the lock.
LEMMA BeginKeeps ==
  ASSUME Rw!RwSizes, RwInv, NEW t \in Threads, NEW l \in Rw!Locks, NEW where,
         rwpc[t] \in {"idle", "rlock", "wlock"}, where \in {"idle", "create", "rlock", "wlock"},
         RwMoves(t, l, where), UNCHANGED <<Rw!rwWords, Rw!srwVars>>,
         where \in {"rlock", "wlock"} => rwActive[l],
         where = "create" => ~rwActive[l] /\ \A u \in Threads : rwpc[u] # "create"
  PROVE  RwInv'
<1>1. Rw!TypeOK'
  BY DEF RwInv, Rw!TypeOK, RwMoves, Rw!RwPcs, Rw!rwWords, Rw!srwVars
<1>2. InLiveLocks'
  BY DEF RwInv, Rw!TypeOK, InLiveLocks, RwMoves, Rw!rwWords
<1>3. Rw!ReleasesOwn' /\ Rw!Exclusive'
  BY DEF RwInv, Rw!TypeOK, Rw!ReleasesOwn, Rw!Exclusive, Rw!Unshared, RwMoves, Rw!srwVars
<1>4. \A m \in Rw!Locks : WordsFollow(m)'
  <2> SUFFICES ASSUME NEW m \in Rw!Locks PROVE WordsFollow(m)'
    OBVIOUS
  <2>1. \A u \in Threads : u # t => RwPlace(u, m)' = RwPlace(u, m)
    BY DEF RwInv, Rw!TypeOK, RwMoves, RwPlace
  <2>2. RwPlace(t, m) \notin HoldPcs /\ RwPlace(t, m)' \notin HoldPcs
    BY DEF RwInv, Rw!TypeOK, RwMoves, RwPlace, HoldPcs
  <2> QED BY <2>1, <2>2 DEF RwInv, WordsFollow, Rw!rwWords, Rw!srwVars, HoldPcs
<1> QED BY <1>1, <1>2, <1>3, <1>4 DEF RwInv

\* The shared side: the exclusive holder and the words rest.
LEMMA SharedKeeps ==
  ASSUME Rw!RwSizes, RwInv, NEW t \in Threads, Rw!RlockEnter(t) \/ \E l \in Rw!Locks : Rw!Runlock(t, l)
  PROVE  RwInv'
<1>1. PICK l \in Rw!Locks :
         /\ srwExcl[l] = None
         /\ \E n \in Nat : srwShared' = [srwShared EXCEPT ![l][t] = n]
         /\ UNCHANGED <<Rw!rwWords, srwExcl>>
         /\ rwpc' = [rwpc EXCEPT ![t] = "idle"] /\ UNCHANGED <<rwlk, rwkind>>
         /\ rwpc[t] \in {"idle", "rlock"}
  <2>1. CASE Rw!RlockEnter(t)
    <3>1. /\ rwlk[t] \in Rw!Locks /\ srwExcl[rwlk[t]] = None /\ srwShared[rwlk[t]][t] + 1 \in Nat
          /\ srwShared' = [srwShared EXCEPT ![rwlk[t]][t] = srwShared[rwlk[t]][t] + 1]
          /\ UNCHANGED <<Rw!rwWords, srwExcl, rwlk, rwkind>>
          /\ rwpc' = [rwpc EXCEPT ![t] = "idle"] /\ rwpc[t] = "rlock"
      BY <2>1 DEF Rw!RlockEnter, Rw!Go, Rw!At, RwInv, Rw!TypeOK
    <3> QED BY <3>1
  <2>2. ASSUME NEW l \in Rw!Locks, Rw!Runlock(t, l)
        PROVE  /\ srwExcl[l] = None /\ srwShared[l][t] - 1 \in Nat
               /\ srwShared' = [srwShared EXCEPT ![l][t] = srwShared[l][t] - 1]
               /\ UNCHANGED <<Rw!rwWords, srwExcl, rwlk, rwkind>>
               /\ rwpc' = [rwpc EXCEPT ![t] = "idle"] /\ rwpc[t] = "idle"
    BY <2>2 DEF Rw!Runlock, Rw!At, RwInv, Rw!TypeOK, Rw!Exclusive, Rw!Unshared
  <2> QED BY <2>1, <2>2
<1>2. PICK n \in Nat : srwShared' = [srwShared EXCEPT ![l][t] = n]
  BY <1>1
<1>3. Rw!TypeOK'
  BY <1>1, <1>2 DEF RwInv, Rw!TypeOK, Rw!RwPcs, Rw!rwWords
<1>4. InLiveLocks' /\ Rw!ReleasesOwn'
  BY <1>1 DEF RwInv, Rw!TypeOK, InLiveLocks, Rw!ReleasesOwn, Rw!rwWords
<1>5. Rw!Exclusive'
  BY <1>1, <1>2 DEF RwInv, Rw!TypeOK, Rw!Exclusive, Rw!Unshared
<1>6. \A m \in Rw!Locks : WordsFollow(m)'
  <2> SUFFICES ASSUME NEW m \in Rw!Locks PROVE WordsFollow(m)'
    OBVIOUS
  <2>1. \A u \in Threads : u # t => RwPlace(u, m)' = RwPlace(u, m)
    BY <1>1 DEF RwInv, Rw!TypeOK, RwPlace
  <2>2. RwPlace(t, m) \notin HoldPcs /\ RwPlace(t, m)' \notin HoldPcs
    BY <1>1 DEF RwInv, Rw!TypeOK, RwPlace, HoldPcs
  <2> QED BY <1>1, <2>1, <2>2 DEF RwInv, WordsFollow, Rw!rwWords, HoldPcs
<1> QED BY <1>3, <1>4, <1>5, <1>6 DEF RwInv

\* A step of the exclusive side writes lock l; the other locks rest.
RwWrites(l) ==
    /\ srwExcl' \in [Rw!Locks -> Threads \cup {None}] /\ writer' \in [Rw!Locks -> BOOLEAN]
    /\ writerTid' \in [Rw!Locks -> Threads \cup {None}]
    /\ \A m \in Rw!Locks : m # l => /\ srwExcl'[m] = srwExcl[m] /\ writer'[m] = writer[m]
                                    /\ writerTid'[m] = writerTid[m]
    /\ UNCHANGED <<rwActive, srwShared>>

\* What a step of thread t at lock l must leave behind.
LEMMA ExclusiveKeeps ==
  ASSUME Rw!RwSizes, RwInv, NEW t \in Threads, NEW l \in Rw!Locks, NEW where \in Rw!RwPcs,
         RwMoves(t, l, where), where # "create", rwpc[t] # "create",
         rwpc[t] = "idle" \/ rwlk[t] = l, rwActive[l], RwWrites(l),
         srwExcl[l] \in {None, t}, srwExcl'[l] \in {None, t},
         where \in HoldPcs => srwExcl'[l] = t,
         srwExcl'[l] # None => Rw!Unshared(l),
         srwExcl'[l] = None => ~writer'[l] /\ writerTid'[l] = None,
         srwExcl'[l] = t => /\ writer'[l] <=> where \notin {"own", "release"}
                            /\ writerTid'[l] = IF where \in HoldPcs THEN None ELSE t
  PROVE  RwInv'
<1>1. Rw!TypeOK'
  BY DEF RwInv, Rw!TypeOK, RwMoves, RwWrites
<1>2. InLiveLocks'
  BY DEF RwInv, Rw!TypeOK, InLiveLocks, RwMoves, RwWrites
<1>3. Rw!ReleasesOwn'
  <2> SUFFICES ASSUME NEW u \in Threads, rwpc'[u] \in HoldPcs PROVE srwExcl'[rwlk'[u]] = u
    BY DEF Rw!ReleasesOwn, HoldPcs
  <2>1. CASE u = t
    BY <2>1 DEF RwInv, Rw!TypeOK, RwMoves
  <2>2. CASE u # t
    <3>1. rwpc[u] \in HoldPcs /\ rwlk'[u] = rwlk[u] /\ srwExcl[rwlk[u]] = u /\ rwlk[u] \in Rw!Locks
      BY <2>2 DEF RwInv, Rw!TypeOK, RwMoves, Rw!ReleasesOwn, HoldPcs
    <3>2. rwlk[u] # l
      BY <2>2, <3>1 DEF Rw!RwSizes
    <3> QED BY <3>1, <3>2 DEF RwWrites
  <2> QED BY <2>1, <2>2
<1>4. Rw!Exclusive'
  BY DEF RwInv, Rw!TypeOK, Rw!Exclusive, Rw!Unshared, RwWrites
<1>5. \A m \in Rw!Locks : WordsFollow(m)'
  <2> SUFFICES ASSUME NEW m \in Rw!Locks PROVE WordsFollow(m)'
    OBVIOUS
  <2>1. CASE m = l
    <3>1. RwPlace(t, l)' = where
      BY DEF RwInv, Rw!TypeOK, RwMoves, RwPlace
    <3>2. t # None /\ None \notin Threads
      BY DEF Rw!RwSizes
    <3> QED BY <2>1, <3>1, <3>2 DEF WordsFollow
  <2>2. CASE m # l
    <3>1. srwExcl'[m] = srwExcl[m] /\ writer'[m] = writer[m] /\ writerTid'[m] = writerTid[m]
      BY <2>2 DEF RwWrites
    <3>2. \A u \in Threads : u # t => RwPlace(u, m)' = RwPlace(u, m)
      BY DEF RwInv, Rw!TypeOK, RwMoves, RwPlace
    <3>3. RwPlace(t, m)' = "idle" /\ RwPlace(t, m) = "idle"
      BY <2>2 DEF RwInv, Rw!TypeOK, RwMoves, RwPlace
    <3> QED BY <3>1, <3>2, <3>3 DEF RwInv, WordsFollow
  <2> QED BY <2>1, <2>2
<1> QED BY <1>1, <1>2, <1>3, <1>4, <1>5 DEF RwInv

\* wlock and wunlock.
LEMMA WriterKeeps ==
  ASSUME Rw!RwSizes, RwInv, NEW t \in Threads,
         \/ Rw!WlockEnter(t) \/ Rw!WlockOwn(t) \/ Rw!WlockName(t) \/ Rw!WunlockDisown(t) \/ Rw!WunlockRelease(t)
         \/ \E l \in Rw!Locks : Rw!WunlockCall(t, l)
  PROVE  RwInv'
<1>0. Rw!TypeOK /\ rwlk[t] \in Rw!Locks /\ t # None
  BY DEF RwInv, Rw!TypeOK, Rw!RwSizes
<1>1. CASE Rw!WlockEnter(t)
  <2>1. /\ RwMoves(t, rwlk[t], "own") /\ rwActive[rwlk[t]] /\ WordsFollow(rwlk[t])
        /\ rwpc[t] = "wlock" /\ srwExcl[rwlk[t]] = None /\ Rw!Unshared(rwlk[t])
    BY <1>0, <1>1, RwGoMoves DEF Rw!WlockEnter, Rw!At, RwInv, InLiveLocks, WordsFollow
  <2>2. /\ RwWrites(rwlk[t])
        /\ srwExcl'[rwlk[t]] = t /\ writer'[rwlk[t]] = writer[rwlk[t]] /\ writerTid'[rwlk[t]] = writerTid[rwlk[t]]
    BY <1>0, <1>1 DEF Rw!WlockEnter, RwWrites, Rw!TypeOK, Rw!rwWords, Rw!srwVars
  <2> QED BY <1>0, <2>1, <2>2, ExclusiveKeeps DEF Rw!RwPcs, HoldPcs, WordsFollow, Rw!TypeOK
<1>2. CASE Rw!WlockOwn(t)
  <2>1. /\ RwMoves(t, rwlk[t], "name") /\ rwActive[rwlk[t]] /\ WordsFollow(rwlk[t])
        /\ rwpc[t] = "own" /\ srwExcl[rwlk[t]] = t /\ RwPlace(t, rwlk[t]) = "own" /\ Rw!Unshared(rwlk[t])
    BY <1>0, <1>2, RwGoMoves DEF Rw!WlockOwn, Rw!At, RwInv, InLiveLocks, Rw!ReleasesOwn,
       RwPlace, Rw!Exclusive
  <2>2. /\ RwWrites(rwlk[t])
        /\ srwExcl'[rwlk[t]] = srwExcl[rwlk[t]] /\ writer'[rwlk[t]] = TRUE /\ writerTid'[rwlk[t]] = writerTid[rwlk[t]]
    BY <1>0, <1>2 DEF Rw!WlockOwn, RwWrites, Rw!TypeOK, Rw!rwWords, Rw!srwVars
  <2> QED BY <1>0, <2>1, <2>2, ExclusiveKeeps DEF Rw!RwPcs, HoldPcs, WordsFollow, Rw!TypeOK
<1>3. CASE Rw!WlockName(t)
  <2>1. /\ RwMoves(t, rwlk[t], "idle") /\ rwActive[rwlk[t]] /\ WordsFollow(rwlk[t])
        /\ rwpc[t] = "name" /\ srwExcl[rwlk[t]] = t /\ RwPlace(t, rwlk[t]) = "name" /\ Rw!Unshared(rwlk[t])
    BY <1>0, <1>3, RwGoMoves DEF Rw!WlockName, Rw!At, RwInv, InLiveLocks, Rw!ReleasesOwn,
       RwPlace, Rw!Exclusive
  <2>2. /\ RwWrites(rwlk[t])
        /\ srwExcl'[rwlk[t]] = srwExcl[rwlk[t]] /\ writer'[rwlk[t]] = writer[rwlk[t]] /\ writerTid'[rwlk[t]] = t
    BY <1>0, <1>3 DEF Rw!WlockName, RwWrites, Rw!TypeOK, Rw!rwWords, Rw!srwVars
  <2> QED BY <1>0, <2>1, <2>2, ExclusiveKeeps DEF Rw!RwPcs, HoldPcs, WordsFollow, Rw!TypeOK
<1>4. CASE Rw!WunlockDisown(t)
  <2>1. /\ RwMoves(t, rwlk[t], "release") /\ rwActive[rwlk[t]] /\ WordsFollow(rwlk[t])
        /\ rwpc[t] = "disown" /\ srwExcl[rwlk[t]] = t /\ RwPlace(t, rwlk[t]) = "disown" /\ Rw!Unshared(rwlk[t])
    BY <1>0, <1>4, RwGoMoves DEF Rw!WunlockDisown, Rw!At, RwInv, InLiveLocks, Rw!ReleasesOwn,
       RwPlace, Rw!Exclusive
  <2>2. /\ RwWrites(rwlk[t])
        /\ srwExcl'[rwlk[t]] = srwExcl[rwlk[t]] /\ writer'[rwlk[t]] = FALSE /\ writerTid'[rwlk[t]] = writerTid[rwlk[t]]
    BY <1>0, <1>4 DEF Rw!WunlockDisown, RwWrites, Rw!TypeOK, Rw!rwWords, Rw!srwVars
  <2> QED BY <1>0, <2>1, <2>2, ExclusiveKeeps DEF Rw!RwPcs, HoldPcs, WordsFollow, Rw!TypeOK
<1>5. CASE Rw!WunlockRelease(t)
  <2>1. /\ RwMoves(t, rwlk[t], "idle") /\ rwActive[rwlk[t]] /\ WordsFollow(rwlk[t])
        /\ rwpc[t] = "release" /\ srwExcl[rwlk[t]] = t /\ RwPlace(t, rwlk[t]) = "release" /\ Rw!Unshared(rwlk[t])
    BY <1>0, <1>5, RwGoMoves DEF Rw!WunlockRelease, Rw!At, RwInv, InLiveLocks, Rw!ReleasesOwn,
       RwPlace, Rw!Exclusive
  <2>2. /\ RwWrites(rwlk[t])
        /\ srwExcl'[rwlk[t]] = None /\ writer'[rwlk[t]] = writer[rwlk[t]] /\ writerTid'[rwlk[t]] = writerTid[rwlk[t]]
    BY <1>0, <1>5 DEF Rw!WunlockRelease, RwWrites, Rw!TypeOK, Rw!rwWords, Rw!srwVars
  <2> QED BY <1>0, <2>1, <2>2, ExclusiveKeeps DEF Rw!RwPcs, HoldPcs, WordsFollow, Rw!TypeOK
<1>6. ASSUME NEW l \in Rw!Locks, Rw!WunlockCall(t, l) PROVE RwInv'
  <2>1. RwMoves(t, l, "disown") /\ rwpc[t] = "idle"
    BY <1>0, <1>6, RwCallMoves DEF Rw!WunlockCall, Rw!RwKinds
  <2>2. rwActive[l] /\ writer[l] /\ writerTid[l] = t
    BY <1>6 DEF Rw!WunlockCall, Rw!Owns
  <2>3. srwExcl[l] = t /\ Rw!Unshared(l)
    BY <1>0, <2>2 DEF RwInv, Rw!TypeOK, WordsFollow, Rw!RwSizes, Rw!Exclusive
  <2>4. RwWrites(l) /\ srwExcl'[l] = t /\ writer'[l] /\ writerTid'[l] = None
    BY <1>0, <1>6, <2>2, <2>3 DEF Rw!WunlockCall, Rw!NameCleared, RwWrites, Rw!TypeOK, Rw!srwVars
  <2> QED BY <1>0, <2>1, <2>2, <2>3, <2>4, ExclusiveKeeps DEF Rw!RwPcs, HoldPcs
<1> QED BY <1>1, <1>2, <1>3, <1>4, <1>5, <1>6

\* A slot is filled, and a lock nobody uses is destroyed.
LEMMA SlotKeeps ==
  ASSUME Rw!RwSizes, RwInv, RacyTeardown = FALSE, NEW t \in Threads,
         Rw!CreateFill(t) \/ \E l \in Rw!Locks : Rw!Destroy(t, l)
  PROVE  RwInv'
<1>0. Rw!TypeOK /\ rwlk[t] \in Rw!Locks
  BY DEF RwInv, Rw!TypeOK
<1>1. CASE Rw!CreateFill(t)
  <2> DEFINE l == rwlk[t]
  <2>1. Rw!TypeOK'
    BY <1>0, <1>1 DEF Rw!CreateFill, Rw!Go, Rw!TypeOK, Rw!RwPcs
  <2>2. \A u \in Threads : u # t => rwpc[u] \in {"idle"} \/ (rwpc[u] # "create" /\ rwlk[u] # l)
    BY <1>1 DEF Rw!CreateFill, Rw!At, RwInv, InLiveLocks
  <2>3. InLiveLocks'
    BY <1>0, <1>1, <2>2 DEF Rw!CreateFill, Rw!Go, RwInv, InLiveLocks, Rw!TypeOK
  <2>4. Rw!ReleasesOwn'
    BY <1>0, <1>1, <2>2 DEF Rw!CreateFill, Rw!Go, RwInv, Rw!ReleasesOwn, Rw!TypeOK
  <2>5. Rw!Exclusive'
    BY <1>0, <1>1 DEF Rw!CreateFill, RwInv, Rw!Exclusive, Rw!Unshared, Rw!TypeOK
  <2>6. ASSUME NEW m \in Rw!Locks PROVE WordsFollow(m)'
    <3>1. CASE m = l
      BY <1>0, <1>1, <3>1 DEF Rw!CreateFill, WordsFollow, Rw!TypeOK, Rw!RwSizes
    <3>2. CASE m # l
      <4>1. srwExcl'[m] = srwExcl[m] /\ writer'[m] = writer[m] /\ writerTid'[m] = writerTid[m]
        BY <1>0, <1>1, <3>2 DEF Rw!CreateFill, Rw!TypeOK
      <4>2. \A u \in Threads : RwPlace(u, m)' = RwPlace(u, m)
        BY <1>0, <1>1, <3>2 DEF Rw!CreateFill, Rw!Go, RwPlace, Rw!TypeOK
      <4> QED BY <4>1, <4>2 DEF RwInv, WordsFollow
    <3> QED BY <3>1, <3>2
  <2> QED BY <2>1, <2>3, <2>4, <2>5, <2>6 DEF RwInv
<1>2. ASSUME NEW l \in Rw!Locks, Rw!Destroy(t, l) PROVE RwInv'
  <2>1. /\ rwActive' = [rwActive EXCEPT ![l] = FALSE]
        /\ UNCHANGED <<writer, writerTid, srwExcl, srwShared, rwpc, rwlk, rwkind>>
        /\ \A u \in Threads : rwpc[u] # "idle" => rwlk[u] # l
    BY <1>2 DEF Rw!Destroy, Rw!Quiet, Rw!At, Rw!srwVars
  <2>2. Rw!TypeOK' /\ InLiveLocks'
    BY <1>0, <2>1 DEF RwInv, Rw!TypeOK, InLiveLocks
  <2>3. Rw!ReleasesOwn' /\ Rw!Exclusive'
    BY <2>1 DEF RwInv, Rw!ReleasesOwn, Rw!Exclusive, Rw!Unshared
  <2>4. \A m \in Rw!Locks : WordsFollow(m)'
    BY <2>1 DEF RwInv, WordsFollow, RwPlace
  <2> QED BY <2>2, <2>3, <2>4 DEF RwInv
<1> QED BY <1>1, <1>2

LEMMA RwNextInv == Rw!RwSizes /\ RacyTeardown = FALSE /\ RwInv /\ [Rw!Next]_(Rw!rwVars) => RwInv'
<1> SUFFICES ASSUME Rw!RwSizes, RacyTeardown = FALSE, RwInv, [Rw!Next]_(Rw!rwVars) PROVE RwInv'
  OBVIOUS
<1>0. Rw!TypeOK
  BY DEF RwInv
<1>1. ASSUME NEW t \in Threads, NEW l \in Rw!Locks, Rw!CreatePick(t, l) PROVE RwInv'
  <2>1. RwMoves(t, l, "create") /\ rwpc[t] = "idle"
    BY <1>0, <1>1, RwCallMoves DEF Rw!CreatePick, Rw!RwKinds
  <2> QED BY <1>1, <2>1, BeginKeeps DEF Rw!CreatePick, Rw!At
<1>2. ASSUME NEW t \in Threads, NEW l \in Rw!Locks, NEW k \in Rw!RwKinds,
             Rw!RlockCall(t, l, k) \/ Rw!WlockCall(t, l, k)
      PROVE  RwInv'
  <2>1. PICK where \in {"rlock", "wlock"} : RwMoves(t, l, where) /\ rwpc[t] = "idle"
    BY <1>0, <1>2, RwCallMoves DEF Rw!RlockCall, Rw!WlockCall
  <2> QED BY <1>2, <2>1, BeginKeeps DEF Rw!RlockCall, Rw!WlockCall
<1>3. ASSUME NEW t \in Threads, Rw!RlockGiveUp(t) \/ Rw!WlockGiveUp(t) PROVE RwInv'
  <2>1. RwMoves(t, rwlk[t], "idle") /\ rwlk[t] \in Rw!Locks
    BY <1>0, <1>3, RwGoMoves DEF Rw!RlockGiveUp, Rw!WlockGiveUp, Rw!TypeOK
  <2> QED BY <1>3, <2>1, BeginKeeps DEF Rw!RlockGiveUp, Rw!WlockGiveUp, Rw!At
<1>4. CASE UNCHANGED Rw!rwVars
  <2>1. Rw!TypeOK' /\ InLiveLocks' /\ Rw!ReleasesOwn' /\ Rw!Exclusive'
    BY <1>4 DEF Rw!rwVars, RwInv, Rw!TypeOK, InLiveLocks, Rw!ReleasesOwn, Rw!Exclusive,
       Rw!Unshared
  <2>2. \A m \in Rw!Locks : WordsFollow(m)'
    BY <1>4 DEF Rw!rwVars, RwInv, WordsFollow, RwPlace
  <2> QED BY <2>1, <2>2 DEF RwInv
<1> QED BY <1>1, <1>2, <1>3, <1>4, SharedKeeps, WriterKeeps, SlotKeeps DEF Rw!Next

-----------------------------------------------------------------------------

(* Whoever the words name holds the lock and a holder that is back from its call
   is named: EDEADLK and EPERM are answered rightly, and a release is its holder's,
   for any number of threads and locks.                                      *)
THEOREM WritersAreKnown == Rw!RwSizes /\ RacyTeardown = FALSE => (Rw!Spec => []Rw!WriterKnown)
<1> SUFFICES ASSUME Rw!RwSizes, RacyTeardown = FALSE PROVE Rw!Spec => []Rw!WriterKnown
  OBVIOUS
<1> QED BY RwInitInv, RwNextInv, RwInvFollows, PTL DEF Rw!Spec

(* Every variable keeps its type. *)
THEOREM Typing == Rw!RwSizes /\ RacyTeardown = FALSE => (Rw!Spec => []Rw!TypeOK)
<1> SUFFICES ASSUME Rw!RwSizes, RacyTeardown = FALSE PROVE Rw!Spec => []Rw!TypeOK
  OBVIOUS
<1>1. RwInv => Rw!TypeOK
  BY DEF RwInv
<1> QED BY <1>1, RwInitInv, RwNextInv, PTL DEF Rw!Spec

-----------------------------------------------------------------------------
(* PPU threads *)

\* Some records and ids, and a guest that names a thread when its create has returned.
PpuSizes == NumRecs \in Nat \ {0} /\ MaxTid \in Nat \ {0} /\ EarlyIds = FALSE

Making  == {"start", "handle", "return"}
Joining == {"join", "reap"}
RecRec  == [inUse : BOOLEAN, tid : 0..MaxTid, handle : 0..MaxTid, code : 0..MaxTid,
            detached : BOOLEAN, joiner : 0..MaxTid]
ThrRec  == [pc : {"idle", "once"} \cup Making \cup Joining, rec : Ppu!Recs, tid : 0..MaxTid,
            handle : 0..MaxTid]

PpuTypes ==
    /\ recs \in [Ppu!Recs -> RecRec]
    /\ nextTid \in 2 .. MaxTid + 1
    /\ life \in [Ppu!Tids -> {"none", "runs", "exits", "ended"}]
    /\ thrcall \in [Ppu!Tids -> ThrRec]
    /\ known \subseteq Ppu!Tids \ {1}
    /\ once \in [word : {0, 1}, by : 0..MaxTid, ran : {0, 1}]

OnceRan == once.word = 0 /\ once.by = 0 => once.ran = 0

\* A record in use is the only one of its thread, and has its code and, once its create has
\* returned, its handle.
RecTrue(r) ==
    recs[r].inUse =>
       /\ recs[r].tid \in Ppu!Tids /\ recs[r].tid < nextTid
       /\ \A q \in Ppu!Recs : recs[q].inUse /\ recs[q].tid = recs[r].tid => q = r
       /\ recs[r].handle \in {0, recs[r].tid}
       /\ life[recs[r].tid] \in {"exits", "ended"} => recs[r].code = recs[r].tid
       /\ recs[r].tid \in known /\ life[recs[r].tid] # "none" => recs[r].handle = recs[r].tid

\* A thread that runs has a record, and an id that was never given is nobody's.
IdTrue(a) ==
    /\ life[a] = "runs" => \E r \in Ppu!Recs : recs[r].inUse /\ recs[r].tid = a
    /\ life[a] # "none" \/ a \in known => a < nextTid

\* A create has its record alone, and nobody knows the id in it.
CreateTrue(a) ==
    thrcall[a].pc \in Making =>
       LET r == recs[thrcall[a].rec] IN
       /\ r.inUse /\ r.tid \notin known /\ r.tid # 1
       /\ \A b \in Ppu!Tids : a # b /\ thrcall[b].pc \in Making => thrcall[b].rec # thrcall[a].rec
       /\ thrcall[a].pc = "start" => life[r.tid] = "none"
       /\ thrcall[a].pc = "handle" => thrcall[a].handle = r.tid
       /\ thrcall[a].pc = "return" /\ life[r.tid] # "none" => r.handle = r.tid

\* A join has the record of the thread it named, and has waited for that thread if it runs.
WaiterTrue(a) ==
    thrcall[a].pc \in Joining =>
       LET r == recs[thrcall[a].rec] IN
       /\ r.inUse /\ r.tid = thrcall[a].tid /\ r.joiner = a /\ r.tid \in known
       /\ life[r.tid] # "none" => thrcall[a].handle = r.tid
       /\ thrcall[a].pc = "reap" => life[r.tid] \in {"none", "ended"}

PpuCallTrue(a) ==
    /\ thrcall[a].pc # "idle" => life[a] = "runs"
    /\ CreateTrue(a) /\ WaiterTrue(a)

PpuInv ==
    /\ PpuTypes /\ OnceRan
    /\ \A r \in Ppu!Recs : RecTrue(r)
    /\ \A a \in Ppu!Tids : IdTrue(a) /\ PpuCallTrue(a)

LEMMA PpuFollows == PpuSizes /\ PpuInv => Ppu!JoinsExact /\ Ppu!TypeOK
<1> SUFFICES ASSUME PpuSizes, PpuInv PROVE Ppu!JoinsExact /\ Ppu!TypeOK
  OBVIOUS
<1>0. PpuTypes
  BY DEF PpuInv
<1>1. Ppu!TypeOK
  BY <1>0 DEF PpuTypes, Ppu!TypeOK, RecRec, ThrRec, Making, Joining
<1>2. ASSUME NEW a \in Ppu!Tids PROVE Cardinality(Ppu!Found(a)) <= 1
  <2>1. CASE Ppu!Found(a) = {}
    BY <2>1, FS_EmptySet
  <2>2. ASSUME NEW r \in Ppu!Found(a) PROVE Cardinality(Ppu!Found(a)) <= 1
    <3>1. Ppu!Found(a) = {r}
      BY <2>2 DEF Ppu!Found, PpuInv, RecTrue
    <3>2. Cardinality({r}) = 1
      BY FS_Singleton
    <3> QED BY <3>1, <3>2
  <2> QED BY <2>1, <2>2
<1>3. Ppu!OneRecordEach
  <2>1. \A a \in Ppu!Tids : life[a] = "runs" => Ppu!Found(a) # {}
    BY DEF PpuInv, IdTrue, Ppu!Found
  <2>2. \A r \in Ppu!Recs : recs[r].inUse => recs[r].handle \in {0, recs[r].tid}
    BY DEF PpuInv, RecTrue
  <2> QED BY <1>2, <2>1, <2>2, SameCardinality DEF Ppu!OneRecordEach
<1>4. Ppu!JoinHoldsRecord
  BY DEF PpuInv, PpuCallTrue, WaiterTrue, Joining, Ppu!JoinHoldsRecord
<1>5. ASSUME NEW a \in Ppu!Tids, thrcall[a].pc = "reap"
      PROVE  life[thrcall[a].tid] # "none" =>
                life[thrcall[a].tid] = "ended" /\ recs[thrcall[a].rec].code = thrcall[a].tid
  BY <1>0, <1>5 DEF PpuInv, PpuCallTrue, WaiterTrue, Joining, RecTrue, PpuTypes, ThrRec
<1>6. Ppu!JoinAfterEnd
  BY <1>5 DEF Ppu!JoinAfterEnd
<1> QED BY <1>1, <1>3, <1>4, <1>6 DEF Ppu!JoinsExact

LEMMA FirstIsIn == ASSUME NEW S \in SUBSET Nat, S # {} PROVE Ppu!First(S) \in S
  BY LeastExists DEF Ppu!First

LEMMA PpuInit == PpuSizes /\ Ppu!Init => PpuInv
<1> SUFFICES ASSUME PpuSizes, Ppu!Init PROVE PpuInv
  OBVIOUS
<1> DEFINE main == [Ppu!NoRec EXCEPT !.inUse = TRUE, !.tid = 1]
<1>1. Ppu!NoRec \in RecRec /\ ~Ppu!NoRec.inUse
  BY DEF PpuSizes, Ppu!NoRec, RecRec
<1>2. /\ main \in RecRec /\ main.inUse /\ main.tid = 1 /\ main.handle = 0
  <2>1. PICK one \in 0..MaxTid : one = 1
    BY DEF PpuSizes
  <2>2. main = [Ppu!NoRec EXCEPT !.inUse = TRUE, !.tid = one]
    BY <2>1
  <2>3. Ppu!NoRec.handle = 0
    BY DEF Ppu!NoRec
  <2> HIDE DEF main
  <2> QED BY <1>1, <2>1, <2>2, <2>3 DEF RecRec
<1>3. Ppu!NoCall \in ThrRec /\ Ppu!NoCall.pc = "idle"
  BY DEF PpuSizes, Ppu!NoCall, ThrRec, Ppu!Recs
<1> HIDE DEF main
<1>4. \A r \in Ppu!Recs : recs[r] = IF r = 1 THEN main ELSE Ppu!NoRec
  BY DEF Ppu!Init, main
<1>5. 1 \in Ppu!Recs /\ 1 \in Ppu!Tids
  BY DEF PpuSizes, Ppu!Recs, Ppu!Tids
<1>6. recs \in [Ppu!Recs -> RecRec]
  BY <1>1, <1>2 DEF Ppu!Init, main
<1>7. /\ life \in [Ppu!Tids -> {"none", "runs", "exits", "ended"}] /\ thrcall \in [Ppu!Tids -> ThrRec]
      /\ \A a \in Ppu!Tids : life[a] = IF a = 1 THEN "runs" ELSE "none"
      /\ \A a \in Ppu!Tids : thrcall[a] = Ppu!NoCall
  BY <1>3 DEF Ppu!Init
<1>8. once \in [word : {0, 1}, by : 0..MaxTid, ran : {0, 1}] /\ OnceRan
  BY DEF PpuSizes, Ppu!Init, OnceRan
<1>9. nextTid = 2 /\ known = {} /\ nextTid \in 2 .. MaxTid + 1
  BY DEF PpuSizes, Ppu!Init
<1>10. \A r \in Ppu!Recs : RecTrue(r)
  BY <1>1, <1>2, <1>4, <1>5, <1>7, <1>9 DEF RecTrue
<1>11. \A a \in Ppu!Tids : IdTrue(a) /\ PpuCallTrue(a)
  BY <1>2, <1>3, <1>4, <1>5, <1>7, <1>9
     DEF IdTrue, PpuCallTrue, CreateTrue, WaiterTrue, Making, Joining
<1> QED BY <1>6, <1>7, <1>8, <1>9, <1>10, <1>11 DEF PpuInv, PpuTypes

\* A call goes on to where, on the record it has.
PpuSteps(a, where) ==
    /\ thrcall' \in [Ppu!Tids -> ThrRec]
    /\ thrcall'[a].pc = where /\ thrcall'[a].rec = thrcall[a].rec
    /\ thrcall'[a].tid = thrcall[a].tid /\ thrcall'[a].handle = thrcall[a].handle
    /\ \A b \in Ppu!Tids : b # a => thrcall'[b] = thrcall[b]

LEMMA PpuGoSteps ==
    ASSUME PpuTypes, NEW a \in Ppu!Tids, NEW where \in {"idle", "once"} \cup Making \cup Joining,
           Ppu!Go(a, where)
    PROVE  PpuSteps(a, where)
<1> DEFINE call == [thrcall[a] EXCEPT !.pc = where]
<1>1. thrcall[a] \in ThrRec
  BY DEF PpuTypes
<1>2. /\ call \in ThrRec /\ call.pc = where /\ call.rec = thrcall[a].rec
      /\ call.tid = thrcall[a].tid /\ call.handle = thrcall[a].handle
  BY <1>1 DEF ThrRec
<1>3. thrcall' = [thrcall EXCEPT ![a] = call]
  BY DEF Ppu!Go, PpuTypes
<1> HIDE DEF call
<1> QED BY <1>2, <1>3 DEF PpuSteps, PpuTypes

\* The one record that a step changes.
PpuWrites(r, row) ==
    /\ recs' \in [Ppu!Recs -> RecRec] /\ recs'[r] = row
    /\ \A q \in Ppu!Recs : q # r => recs'[q] = recs[q]

LEMMA RowWrites ==
    ASSUME PpuTypes, NEW r \in Ppu!Recs, NEW row \in RecRec, recs' = [recs EXCEPT ![r] = row]
    PROVE  PpuWrites(r, row)
  BY DEF PpuTypes, PpuWrites

LEMMA CallTypes ==
    ASSUME PpuSizes, PpuInv, NEW a \in Ppu!Tids
    PROVE  /\ PpuTypes /\ IdTrue(a) /\ PpuCallTrue(a) /\ thrcall[a] \in ThrRec
           /\ thrcall[a].rec \in Ppu!Recs /\ recs[thrcall[a].rec] \in RecRec
           /\ RecTrue(thrcall[a].rec) /\ a # 0
  BY DEF PpuInv, PpuTypes, ThrRec, Ppu!Tids

LEMMA CreateCallKeeps ==
    ASSUME PpuSizes, PpuInv, NEW a \in Ppu!Tids, Ppu!CreateCall(a)
    PROVE  PpuInv'
<1>0. PpuTypes /\ IdTrue(a) /\ PpuCallTrue(a) /\ Ppu!At(a, "idle")
  BY CallTypes DEF Ppu!CreateCall
<1> DEFINE r == Ppu!First(Ppu!FreeRecs)
<1>1. r \in Ppu!Recs /\ ~recs[r].inUse
  <2>1. Ppu!FreeRecs \in SUBSET Nat /\ Ppu!FreeRecs # {}
    BY DEF Ppu!CreateCall, Ppu!FreeRecs, Ppu!Recs, PpuSizes
  <2> QED BY <2>1, FirstIsIn DEF Ppu!FreeRecs
<1> HIDE DEF r
<1> PICK n \in Ppu!Tids : n = nextTid
  BY <1>0 DEF Ppu!CreateCall, PpuTypes, Ppu!Tids, PpuSizes
<1> DEFINE row  == [Ppu!NoRec EXCEPT !.inUse = TRUE, !.tid = n]
           call == [Ppu!NoCall EXCEPT !.pc = "start", !.rec = r]
<1>2. recs' = [recs EXCEPT ![r] = row] /\ thrcall' = [thrcall EXCEPT ![a] = call]
  BY DEF Ppu!CreateCall, r
<1>3. nextTid' = n + 1 /\ UNCHANGED <<life, known, once>> /\ n \in 2..MaxTid
  BY <1>0 DEF Ppu!CreateCall, PpuTypes, PpuSizes
<1>4. row \in RecRec /\ row.inUse /\ row.tid = n /\ row.handle = 0
  <2>1. Ppu!NoRec \in RecRec /\ Ppu!NoRec.handle = 0
    BY DEF PpuSizes, Ppu!NoRec, RecRec
  <2>2. n \in 0..MaxTid
    BY <1>3 DEF PpuSizes
  <2> QED BY <2>1, <2>2 DEF RecRec
<1>5. call \in ThrRec /\ call.pc = "start" /\ call.rec = r
  <2>1. Ppu!NoCall \in ThrRec
    BY DEF PpuSizes, Ppu!NoCall, ThrRec, Ppu!Recs
  <2> QED BY <2>1, <1>1 DEF ThrRec, Making
<1>6. PpuWrites(r, row)
  BY <1>0, <1>1, <1>2, <1>4, RowWrites
<1> HIDE DEF row, call
<1>7. /\ thrcall' \in [Ppu!Tids -> ThrRec] /\ thrcall'[a] = call
      /\ \A b \in Ppu!Tids : b # a => thrcall'[b] = thrcall[b]
  BY <1>0, <1>2, <1>5 DEF PpuTypes
<1>8. life[n] = "none" /\ n \notin known /\ \A b \in Ppu!Tids : life[b] = "runs" => b # n
  BY <1>0, <1>3 DEF PpuInv, IdTrue, PpuTypes
<1>9. \A q \in Ppu!Recs : recs[q].inUse => recs[q].tid # n /\ q # r
  BY <1>1, <1>3 DEF PpuInv, RecTrue
<1>10. ASSUME NEW q \in Ppu!Recs PROVE RecTrue(q)'
  BY <1>1, <1>3, <1>4, <1>6, <1>8, <1>9 DEF PpuInv, RecTrue, PpuWrites, Ppu!Tids
<1>11. ASSUME NEW b \in Ppu!Tids PROVE IdTrue(b)'
  BY <1>1, <1>3, <1>6 DEF PpuInv, IdTrue, PpuWrites, Ppu!Tids
<1>12. ASSUME NEW b \in Ppu!Tids PROVE PpuCallTrue(b)'
  <2>1. CASE b = a
    <3>1. WaiterTrue(b)' /\ (thrcall'[b].pc # "idle" => life'[b] = "runs")
      BY <1>0, <1>3, <1>5, <1>7, <2>1 DEF WaiterTrue, Joining, Ppu!At
    <3>3. \A d \in Ppu!Tids : b # d /\ thrcall[d].pc \in Making => thrcall[d].rec # r
      BY <1>9, CallTypes DEF PpuCallTrue, CreateTrue
    <3>4. CreateTrue(b)'
      BY <1>3, <1>4, <1>5, <1>6, <1>7, <1>8, <2>1, <3>3 DEF CreateTrue, PpuWrites
    <3> QED BY <3>1, <3>4 DEF PpuCallTrue
  <2>2. CASE b # a
    <3>1. PpuCallTrue(b) /\ thrcall'[b] = thrcall[b] /\ thrcall[b].rec \in Ppu!Recs
      BY <1>7, <2>2, CallTypes
    <3>2. thrcall[b].pc \in Making \cup Joining =>
             thrcall[b].rec # r /\ recs'[thrcall[b].rec] = recs[thrcall[b].rec]
      BY <1>6, <1>9, <3>1 DEF PpuCallTrue, CreateTrue, WaiterTrue, PpuWrites
    <3>3. CreateTrue(b)'
      BY <1>3, <1>5, <1>7, <3>1, <3>2 DEF PpuCallTrue, CreateTrue
    <3>4. WaiterTrue(b)'
      BY <1>3, <3>1, <3>2 DEF PpuCallTrue, WaiterTrue
    <3> QED BY <1>3, <3>1, <3>3, <3>4 DEF PpuCallTrue
  <2> QED BY <2>1, <2>2
<1>13. PpuTypes' /\ OnceRan'
  <2>1. nextTid' \in 2 .. MaxTid + 1
    BY <1>3 DEF PpuSizes
  <2> QED BY <1>0, <1>3, <1>6, <1>7, <2>1 DEF PpuInv, PpuTypes, PpuWrites, OnceRan
<1> QED BY <1>10, <1>11, <1>12, <1>13 DEF PpuInv

LEMMA CreateFailsKeeps ==
    ASSUME PpuSizes, PpuInv, NEW a \in Ppu!Tids, Ppu!CreateFails(a)
    PROVE  PpuInv'
<1> DEFINE r   == thrcall[a].rec
           row == [recs[r] EXCEPT !.inUse = FALSE]
<1>0. /\ PpuTypes /\ PpuCallTrue(a) /\ r \in Ppu!Recs /\ recs[r] \in RecRec
      /\ thrcall[a].pc = "start" /\ UNCHANGED <<nextTid, life, known, once>>
  BY CallTypes DEF Ppu!CreateFails, Ppu!At
<1>1. row \in RecRec /\ ~row.inUse /\ row.tid = recs[r].tid
  BY <1>0 DEF RecRec
<1>2. recs' = [recs EXCEPT ![r] = row]
  BY <1>0 DEF Ppu!CreateFails, PpuTypes
<1>3. PpuWrites(r, row)
  BY <1>0, <1>1, <1>2, RowWrites
<1>4. PpuSteps(a, "idle")
  BY <1>0, PpuGoSteps DEF Ppu!CreateFails
<1> HIDE DEF r, row
<1>5. /\ recs[r].tid \notin known /\ life[recs[r].tid] = "none"
      /\ \A b \in Ppu!Tids : a # b /\ thrcall[b].pc \in Making => thrcall[b].rec # r
  BY <1>0 DEF PpuCallTrue, CreateTrue, Making, r
<1>6. ASSUME NEW q \in Ppu!Recs PROVE RecTrue(q)'
  BY <1>0, <1>1, <1>3 DEF PpuInv, RecTrue, PpuWrites
<1>7. ASSUME NEW b \in Ppu!Tids PROVE IdTrue(b)'
  BY <1>0, <1>3, <1>5 DEF PpuInv, IdTrue, PpuWrites
<1>8. ASSUME NEW b \in Ppu!Tids PROVE PpuCallTrue(b)'
  <2>1. CASE b = a
    BY <1>4, <2>1 DEF PpuSteps, PpuCallTrue, CreateTrue, WaiterTrue, Making, Joining
  <2>2. CASE b # a
    <3>1. PpuCallTrue(b) /\ thrcall'[b] = thrcall[b] /\ thrcall[b].rec \in Ppu!Recs
      BY <1>4, <2>2, CallTypes DEF PpuSteps
    <3>2. thrcall[b].pc \in Making \cup Joining => recs'[thrcall[b].rec] = recs[thrcall[b].rec]
      BY <1>3, <1>5, <2>2, <3>1 DEF PpuCallTrue, WaiterTrue, PpuWrites
    <3>3. CreateTrue(b)'
      BY <1>0, <1>4, <3>1, <3>2 DEF PpuSteps, PpuCallTrue, CreateTrue, Making
    <3>4. WaiterTrue(b)'
      BY <1>0, <3>1, <3>2 DEF PpuCallTrue, WaiterTrue
    <3> QED BY <1>0, <3>1, <3>3, <3>4 DEF PpuCallTrue
  <2> QED BY <2>1, <2>2
<1>9. PpuTypes' /\ OnceRan'
  BY <1>0, <1>3, <1>4 DEF PpuInv, PpuTypes, PpuWrites, PpuSteps, OnceRan
<1> QED BY <1>6, <1>7, <1>8, <1>9 DEF PpuInv

LEMMA CreateStartsKeeps ==
    ASSUME PpuSizes, PpuInv, NEW a \in Ppu!Tids, Ppu!CreateStarts(a)
    PROVE  PpuInv'
<1> DEFINE r    == thrcall[a].rec
           n    == recs[r].tid
           call == [thrcall[a] EXCEPT !.pc = "handle", !.handle = n]
<1>0. /\ PpuTypes /\ PpuCallTrue(a) /\ r \in Ppu!Recs /\ recs[r] \in RecRec /\ RecTrue(r)
      /\ thrcall[a].pc = "start" /\ life[a] = "runs" /\ UNCHANGED <<recs, nextTid, known, once>>
      /\ thrcall[a] \in ThrRec
  BY CallTypes DEF Ppu!CreateStarts, Ppu!At
<1>1. /\ recs[r].inUse /\ n \in Ppu!Tids /\ n < nextTid /\ n \notin known /\ life[n] = "none" /\ n # 1
      /\ \A b \in Ppu!Tids : a # b /\ thrcall[b].pc \in Making => thrcall[b].rec # r
  BY <1>0 DEF PpuCallTrue, CreateTrue, Making, RecTrue
<1>2. /\ call \in ThrRec /\ call.pc = "handle" /\ call.rec = r /\ call.handle = n
  BY <1>0 DEF ThrRec, RecRec, Making
<1>3. life' = [life EXCEPT ![n] = "runs"] /\ thrcall' = [thrcall EXCEPT ![a] = call]
  BY <1>0 DEF Ppu!CreateStarts, PpuTypes
<1> HIDE DEF r, n, call
<1>4. /\ thrcall' \in [Ppu!Tids -> ThrRec] /\ thrcall'[a] = call
      /\ \A b \in Ppu!Tids : b # a => thrcall'[b] = thrcall[b]
      /\ life' \in [Ppu!Tids -> {"none", "runs", "exits", "ended"}] /\ life'[n] = "runs"
      /\ \A b \in Ppu!Tids : b # n => life'[b] = life[b]
  BY <1>0, <1>1, <1>2, <1>3 DEF PpuTypes
<1>5. ASSUME NEW q \in Ppu!Recs PROVE RecTrue(q)'
  BY <1>0, <1>1, <1>4 DEF PpuInv, RecTrue
<1>6. ASSUME NEW b \in Ppu!Tids PROVE IdTrue(b)'
  BY <1>0, <1>1, <1>4 DEF PpuInv, IdTrue, n
<1>7. \A q \in Ppu!Recs : recs[q].inUse /\ recs[q].tid = n => q = r
  BY <1>0, <1>1 DEF RecTrue, n
<1>8. ASSUME NEW b \in Ppu!Tids PROVE PpuCallTrue(b)'
  <2>1. CASE b = a
    <3>1. life'[b] = "runs"
      BY <1>0, <1>1, <1>4, <2>1
    <3> QED BY <1>0, <1>1, <1>2, <1>4, <2>1, <3>1
            DEF PpuCallTrue, CreateTrue, WaiterTrue, Making, Joining, n
  <2>2. CASE b # a
    <3>1. PpuCallTrue(b) /\ thrcall'[b] = thrcall[b] /\ thrcall[b].rec \in Ppu!Recs
          /\ RecTrue(thrcall[b].rec)
      BY <1>4, <2>2, CallTypes
    <3>2. thrcall[b].pc \in Making \cup Joining =>
             /\ recs[thrcall[b].rec].tid \in Ppu!Tids
             /\ life'[recs[thrcall[b].rec].tid] = life[recs[thrcall[b].rec].tid]
      BY <1>1, <1>4, <1>7, <2>2, <3>1 DEF PpuCallTrue, CreateTrue, WaiterTrue, RecTrue
    <3>3. CreateTrue(b)'
      BY <1>0, <1>1, <1>2, <1>4, <3>1, <3>2 DEF PpuCallTrue, CreateTrue
    <3>4. WaiterTrue(b)'
      BY <1>0, <3>1, <3>2 DEF PpuCallTrue, WaiterTrue
    <3>5. thrcall[b].pc # "idle" => life'[b] = "runs"
      BY <1>1, <1>4, <3>1 DEF PpuCallTrue
    <3> QED BY <3>1, <3>3, <3>4, <3>5 DEF PpuCallTrue
  <2> QED BY <2>1, <2>2
<1>9. PpuTypes' /\ OnceRan'
  BY <1>0, <1>4 DEF PpuInv, PpuTypes, OnceRan
<1> QED BY <1>5, <1>6, <1>8, <1>9 DEF PpuInv

LEMMA CreateHandleKeeps ==
    ASSUME PpuSizes, PpuInv, NEW a \in Ppu!Tids, Ppu!CreateHandle(a)
    PROVE  PpuInv'
<1> DEFINE r   == thrcall[a].rec
           n   == recs[r].tid
           row == [recs[r] EXCEPT !.handle = thrcall[a].handle]
<1>0. /\ PpuTypes /\ PpuCallTrue(a) /\ r \in Ppu!Recs /\ recs[r] \in RecRec /\ RecTrue(r)
      /\ thrcall[a].pc = "handle" /\ life[a] = "runs" /\ UNCHANGED <<nextTid, life, known, once>>
      /\ thrcall[a] \in ThrRec
  BY CallTypes DEF Ppu!CreateHandle, Ppu!At
<1>1. /\ recs[r].inUse /\ n \in Ppu!Tids /\ n < nextTid /\ n \notin known /\ n # 1
      /\ thrcall[a].handle = n
      /\ \A b \in Ppu!Tids : a # b /\ thrcall[b].pc \in Making => thrcall[b].rec # r
  BY <1>0 DEF PpuCallTrue, CreateTrue, Making, RecTrue
<1>2. /\ row \in RecRec /\ row.inUse /\ row.tid = n /\ row.handle = n /\ row.code = recs[r].code
  BY <1>0, <1>1 DEF RecRec
<1>3. recs' = [recs EXCEPT ![r] = row]
  BY <1>0 DEF Ppu!CreateHandle, PpuTypes
<1>4. PpuWrites(r, row)
  BY <1>0, <1>2, <1>3, RowWrites
<1>5. PpuSteps(a, "return")
  BY <1>0, PpuGoSteps DEF Ppu!CreateHandle, Making
<1> HIDE DEF r, n, row
<1>6. ASSUME NEW q \in Ppu!Recs PROVE RecTrue(q)'
  <2>1. \A p \in Ppu!Recs : (recs'[p].inUse <=> recs[p].inUse) /\ recs'[p].tid = recs[p].tid
                        /\ recs'[p].code = recs[p].code
    BY <1>1, <1>2, <1>4 DEF PpuWrites, n
  <2>2. recs'[q].handle = recs[q].handle \/ recs'[q].handle = recs[q].tid
    BY <1>1, <1>2, <1>4 DEF PpuWrites, n
  <2> QED BY <1>0, <2>1, <2>2 DEF PpuInv, RecTrue
<1>7. ASSUME NEW b \in Ppu!Tids PROVE IdTrue(b)'
  BY <1>0, <1>1, <1>2, <1>4 DEF PpuInv, IdTrue, PpuWrites, n
<1>8. ASSUME NEW b \in Ppu!Tids PROVE PpuCallTrue(b)'
  <2>1. CASE b = a
    BY <1>0, <1>1, <1>2, <1>4, <1>5, <2>1
       DEF PpuSteps, PpuWrites, PpuCallTrue, CreateTrue, WaiterTrue, Making, Joining, r
  <2>2. CASE b # a
    <3>1. PpuCallTrue(b) /\ thrcall'[b] = thrcall[b] /\ thrcall[b].rec \in Ppu!Recs
      BY <1>5, <2>2, CallTypes DEF PpuSteps
    <3>2. thrcall[b].pc \in Making \cup Joining => recs'[thrcall[b].rec] = recs[thrcall[b].rec]
      BY <1>1, <1>4, <2>2, <3>1 DEF PpuCallTrue, WaiterTrue, PpuWrites, n
    <3>3. CreateTrue(b)'
      BY <1>0, <1>1, <1>5, <2>2, <3>1, <3>2 DEF PpuSteps, PpuCallTrue, CreateTrue, r
    <3>4. WaiterTrue(b)'
      BY <1>0, <3>1, <3>2 DEF PpuCallTrue, WaiterTrue
    <3> QED BY <1>0, <3>1, <3>3, <3>4 DEF PpuCallTrue
  <2> QED BY <2>1, <2>2
<1>9. PpuTypes' /\ OnceRan'
  BY <1>0, <1>4, <1>5 DEF PpuInv, PpuTypes, PpuWrites, PpuSteps, OnceRan
<1> QED BY <1>6, <1>7, <1>8, <1>9 DEF PpuInv

LEMMA CreateReturnsKeeps ==
    ASSUME PpuSizes, PpuInv, NEW a \in Ppu!Tids, Ppu!CreateReturns(a)
    PROVE  PpuInv'
<1> DEFINE r == thrcall[a].rec
           n == recs[r].tid
<1>0. /\ PpuTypes /\ PpuCallTrue(a) /\ r \in Ppu!Recs /\ recs[r] \in RecRec /\ RecTrue(r)
      /\ thrcall[a].pc = "return" /\ UNCHANGED <<recs, nextTid, life, once>>
      /\ known' = known \cup {n}
  BY CallTypes DEF Ppu!CreateReturns, Ppu!At
<1>1. /\ recs[r].inUse /\ n \in Ppu!Tids /\ n < nextTid /\ n \notin known /\ n # 1
      /\ life[n] # "none" => recs[r].handle = n
      /\ \A b \in Ppu!Tids : a # b /\ thrcall[b].pc \in Making => thrcall[b].rec # r
  BY <1>0 DEF PpuCallTrue, CreateTrue, Making, RecTrue
<1>2. PpuSteps(a, "idle")
  BY <1>0, PpuGoSteps DEF Ppu!CreateReturns
<1>3. \A q \in Ppu!Recs : recs[q].inUse /\ recs[q].tid = n => q = r
  BY <1>0, <1>1 DEF RecTrue
<1> HIDE DEF r, n
<1>4. ASSUME NEW q \in Ppu!Recs PROVE RecTrue(q)'
  BY <1>0, <1>1, <1>3 DEF PpuInv, RecTrue
<1>5. ASSUME NEW b \in Ppu!Tids PROVE IdTrue(b)'
  BY <1>0, <1>1 DEF PpuInv, IdTrue
<1>6. ASSUME NEW b \in Ppu!Tids PROVE PpuCallTrue(b)'
  <2>1. CASE b = a
    BY <1>2, <2>1 DEF PpuSteps, PpuCallTrue, CreateTrue, WaiterTrue, Making, Joining
  <2>2. CASE b # a
    <3>1. PpuCallTrue(b) /\ thrcall'[b] = thrcall[b] /\ thrcall[b].rec \in Ppu!Recs
      BY <1>2, <2>2, CallTypes DEF PpuSteps
    <3>2. CreateTrue(b)'
      BY <1>0, <1>1, <1>2, <1>3, <2>2, <3>1 DEF PpuSteps, PpuCallTrue, CreateTrue, Making
    <3>3. WaiterTrue(b)'
      BY <1>0, <3>1 DEF PpuCallTrue, WaiterTrue
    <3> QED BY <1>0, <3>1, <3>2, <3>3 DEF PpuCallTrue
  <2> QED BY <2>1, <2>2
<1>7. PpuTypes' /\ OnceRan'
  BY <1>0, <1>1, <1>2 DEF PpuInv, PpuTypes, PpuSteps, OnceRan
<1> QED BY <1>4, <1>5, <1>6, <1>7 DEF PpuInv

LEMMA ExitCallKeeps ==
    ASSUME PpuSizes, PpuInv, NEW a \in Ppu!Tids, Ppu!ExitCall(a)
    PROVE  PpuInv'
<1>0. /\ PpuTypes /\ PpuCallTrue(a) /\ thrcall[a].pc = "idle" /\ life[a] = "runs"
      /\ UNCHANGED <<nextTid, thrcall, known, once>>
  BY CallTypes DEF Ppu!ExitCall, Ppu!At
<1>1. /\ life' \in [Ppu!Tids -> {"none", "runs", "exits", "ended"}] /\ life'[a] = "exits"
      /\ \A b \in Ppu!Tids : b # a => life'[b] = life[b]
  BY <1>0 DEF Ppu!ExitCall, PpuTypes
<1>2. ASSUME NEW q \in Ppu!Recs
      PROVE  /\ recs'[q] \in RecRec /\ recs'[q].inUse = recs[q].inUse
             /\ recs'[q].tid = recs[q].tid /\ recs'[q].handle = recs[q].handle
             /\ recs'[q].joiner = recs[q].joiner
             /\ IF recs[q].inUse /\ recs[q].tid = a THEN recs'[q].code = a
                                                    ELSE recs'[q].code = recs[q].code
  <2>1. recs[q] \in RecRec /\ a \in 0..MaxTid
    BY <1>0 DEF PpuTypes, Ppu!Tids, PpuSizes
  <2>2. q \in Ppu!Found(a) <=> recs[q].inUse /\ recs[q].tid = a
    BY DEF Ppu!Found
  <2>3. recs'[q] = IF q \in Ppu!Found(a) THEN [recs[q] EXCEPT !.code = a] ELSE recs[q]
    BY DEF Ppu!ExitCall
  <2>4. CASE q \in Ppu!Found(a)
    BY <2>1, <2>2, <2>3, <2>4 DEF RecRec
  <2>5. CASE q \notin Ppu!Found(a)
    BY <2>1, <2>2, <2>3, <2>5
  <2> QED BY <2>4, <2>5
<1>3. recs' \in [Ppu!Recs -> RecRec]
  <2>1. recs' = [q \in Ppu!Recs |-> recs'[q]]
    BY DEF Ppu!ExitCall
  <2> QED BY <1>2, <2>1
<1>4. ASSUME NEW q \in Ppu!Recs PROVE RecTrue(q)'
  BY <1>0, <1>1, <1>2 DEF PpuInv, RecTrue
<1>5. ASSUME NEW b \in Ppu!Tids PROVE IdTrue(b)'
  BY <1>0, <1>1, <1>2 DEF PpuInv, IdTrue
<1>6. ASSUME NEW b \in Ppu!Tids PROVE PpuCallTrue(b)'
  <2>1. PpuCallTrue(b) /\ thrcall'[b] = thrcall[b] /\ thrcall[b].rec \in Ppu!Recs
        /\ RecTrue(thrcall[b].rec)
    BY <1>0, CallTypes
  <2>2. thrcall[b].pc \in Making \cup Joining =>
           /\ recs[thrcall[b].rec].tid \in Ppu!Tids
           /\ life[recs[thrcall[b].rec].tid] \in {"none", "ended"} =>
                 life'[recs[thrcall[b].rec].tid] = life[recs[thrcall[b].rec].tid]
    BY <1>0, <1>1, <2>1 DEF PpuCallTrue, CreateTrue, WaiterTrue, RecTrue
  <2>3. CreateTrue(b)'
    BY <1>0, <1>2, <2>1, <2>2 DEF PpuCallTrue, CreateTrue, Making
  <2>4. WaiterTrue(b)'
    BY <1>0, <1>2, <2>1, <2>2 DEF PpuCallTrue, WaiterTrue, Joining
  <2> QED BY <1>0, <1>1, <2>1, <2>3, <2>4 DEF PpuCallTrue
<1>7. PpuTypes' /\ OnceRan'
  BY <1>0, <1>1, <1>3 DEF PpuInv, PpuTypes, OnceRan
<1> QED BY <1>4, <1>5, <1>6, <1>7 DEF PpuInv

LEMMA ExitEndsKeeps ==
    ASSUME PpuSizes, PpuInv, NEW a \in Ppu!Tids, Ppu!ExitEnds(a)
    PROVE  PpuInv'
<1>0. PpuTypes /\ life[a] = "exits" /\ UNCHANGED <<recs, nextTid, thrcall, known, once>>
  BY CallTypes DEF Ppu!ExitEnds
<1>1. /\ life' \in [Ppu!Tids -> {"none", "runs", "exits", "ended"}] /\ life'[a] = "ended"
      /\ \A b \in Ppu!Tids : b # a => life'[b] = life[b]
  BY <1>0 DEF Ppu!ExitEnds, PpuTypes
<1>2. ASSUME NEW q \in Ppu!Recs PROVE RecTrue(q)'
  BY <1>0, <1>1 DEF PpuInv, RecTrue
<1>3. ASSUME NEW b \in Ppu!Tids PROVE IdTrue(b)'
  BY <1>0, <1>1 DEF PpuInv, IdTrue
<1>4. ASSUME NEW b \in Ppu!Tids PROVE PpuCallTrue(b)'
  <2>1. PpuCallTrue(b) /\ thrcall'[b] = thrcall[b] /\ thrcall[b].rec \in Ppu!Recs
        /\ RecTrue(thrcall[b].rec)
    BY <1>0, CallTypes
  <2>2. thrcall[b].pc \in Making \cup Joining => recs[thrcall[b].rec].tid \in Ppu!Tids
    BY <2>1 DEF PpuCallTrue, CreateTrue, WaiterTrue, RecTrue
  <2>3. CreateTrue(b)'
    BY <1>0, <1>1, <2>1, <2>2 DEF PpuCallTrue, CreateTrue, Making
  <2>4. WaiterTrue(b)'
    BY <1>0, <1>1, <2>1, <2>2 DEF PpuCallTrue, WaiterTrue, Joining
  <2> QED BY <1>0, <1>1, <2>1, <2>3, <2>4 DEF PpuCallTrue
<1>5. PpuTypes' /\ OnceRan'
  BY <1>0, <1>1 DEF PpuInv, PpuTypes, OnceRan
<1> QED BY <1>2, <1>3, <1>4, <1>5 DEF PpuInv

\* A thread that a call names has one record, the first with its id.
LEMMA FoundIsIn ==
    ASSUME PpuSizes, NEW tid \in Ppu!Tids, Ppu!Found(tid) # {}
    PROVE  /\ Ppu!First(Ppu!Found(tid)) \in Ppu!Recs /\ recs[Ppu!First(Ppu!Found(tid))].inUse
           /\ recs[Ppu!First(Ppu!Found(tid))].tid = tid
<1>1. Ppu!Found(tid) \in SUBSET Nat
  BY DEF Ppu!Found, Ppu!Recs, PpuSizes
<1> QED BY <1>1, FirstIsIn DEF Ppu!Found

LEMMA PpuJoinCallKeeps ==
    ASSUME PpuSizes, PpuInv, NEW a \in Ppu!Tids, NEW tid \in Ppu!Tids, Ppu!JoinCall(a, tid)
    PROVE  PpuInv'
<1> DEFINE r    == Ppu!First(Ppu!Found(tid))
           row  == [recs[r] EXCEPT !.joiner = a]
           call == [pc |-> "join", rec |-> r, tid |-> tid, handle |-> recs[r].handle]
<1>0. /\ PpuTypes /\ PpuCallTrue(a) /\ thrcall[a].pc = "idle" /\ life[a] = "runs" /\ tid \in known
      /\ r \in Ppu!Recs /\ recs[r].inUse /\ recs[r].tid = tid /\ recs[r].joiner = 0
      /\ recs[r] \in RecRec /\ RecTrue(r) /\ UNCHANGED <<nextTid, life, known, once>>
  BY CallTypes, FoundIsIn DEF Ppu!JoinCall, Ppu!At, Ppu!Joinable, Ppu!MayName, PpuSizes, PpuInv,
     PpuTypes
<1>1. /\ row \in RecRec /\ row.inUse /\ row.tid = tid /\ row.joiner = a
      /\ row.handle = recs[r].handle /\ row.code = recs[r].code
  <2>1. a \in 0..MaxTid
    BY DEF Ppu!Tids, PpuSizes
  <2> QED BY <1>0, <2>1 DEF RecRec
<1>2. /\ call \in ThrRec /\ call.pc = "join" /\ call.rec = r /\ call.tid = tid
      /\ call.handle = recs[r].handle
  BY <1>0 DEF ThrRec, RecRec, Joining
<1>3. recs' = [recs EXCEPT ![r] = row] /\ thrcall' = [thrcall EXCEPT ![a] = call]
  BY <1>0 DEF Ppu!JoinCall, PpuTypes
<1>4. PpuWrites(r, row)
  BY <1>0, <1>1, <1>3, RowWrites
<1> HIDE DEF r, row, call
<1>5. /\ thrcall' \in [Ppu!Tids -> ThrRec] /\ thrcall'[a] = call
      /\ \A b \in Ppu!Tids : b # a => thrcall'[b] = thrcall[b]
  BY <1>0, <1>2, <1>3 DEF PpuTypes
<1>6. ASSUME NEW q \in Ppu!Recs
      PROVE  /\ recs'[q].inUse <=> recs[q].inUse
             /\ recs'[q].tid = recs[q].tid
             /\ recs'[q].handle = recs[q].handle /\ recs'[q].code = recs[q].code
             /\ q # r => recs'[q].joiner = recs[q].joiner
  BY <1>0, <1>1, <1>4 DEF PpuWrites
<1>7. ASSUME NEW q \in Ppu!Recs PROVE RecTrue(q)'
  BY <1>0, <1>6 DEF PpuInv, RecTrue
<1>8. ASSUME NEW b \in Ppu!Tids PROVE IdTrue(b)'
  BY <1>0, <1>6 DEF PpuInv, IdTrue
<1>9. ASSUME NEW b \in Ppu!Tids PROVE PpuCallTrue(b)'
  <2>1. CASE b = a
    <3>1. life[tid] # "none" => recs[r].handle = tid
      BY <1>0 DEF RecTrue
    <3>2. recs'[r] = row
      BY <1>4 DEF PpuWrites
    <3>3. CreateTrue(b)'
      BY <1>2, <1>5, <2>1 DEF CreateTrue, Making
    <3>4. WaiterTrue(b)'
      BY <1>0, <1>1, <1>2, <1>5, <2>1, <3>1, <3>2 DEF WaiterTrue
    <3> QED BY <1>0, <2>1, <3>3, <3>4 DEF PpuCallTrue
  <2>2. CASE b # a
    <3>1. PpuCallTrue(b) /\ thrcall'[b] = thrcall[b] /\ thrcall[b].rec \in Ppu!Recs /\ b # 0
      BY <1>5, <2>2, CallTypes
    <3>2. CreateTrue(b)'
      BY <1>0, <1>2, <1>5, <1>6, <3>1 DEF PpuCallTrue, CreateTrue, Making
    <3>3. thrcall[b].pc \in Joining => thrcall[b].rec # r
      BY <1>0, <3>1 DEF PpuCallTrue, WaiterTrue
    <3>4. WaiterTrue(b)'
      BY <1>0, <1>6, <3>1, <3>3 DEF PpuCallTrue, WaiterTrue
    <3> QED BY <1>0, <3>1, <3>2, <3>4 DEF PpuCallTrue
  <2> QED BY <2>1, <2>2
<1>10. PpuTypes' /\ OnceRan'
  BY <1>0, <1>4, <1>5 DEF PpuInv, PpuTypes, PpuWrites, OnceRan
<1> QED BY <1>7, <1>8, <1>9, <1>10 DEF PpuInv

LEMMA PpuDetachKeeps ==
    ASSUME PpuSizes, PpuInv, NEW a \in Ppu!Tids, NEW tid \in Ppu!Tids, Ppu!Detach(a, tid)
    PROVE  PpuInv'
<1> DEFINE r    == Ppu!First(Ppu!Found(tid))
           row  == [recs[r] EXCEPT !.detached = TRUE]
<1>0. /\ PpuTypes /\ r \in Ppu!Recs /\ recs[r] \in RecRec
      /\ UNCHANGED <<nextTid, life, thrcall, known, once>>
  BY CallTypes, FoundIsIn DEF Ppu!Detach, PpuInv, PpuTypes
<1>1. /\ row \in RecRec /\ row.inUse = recs[r].inUse /\ row.tid = recs[r].tid
      /\ row.joiner = recs[r].joiner /\ row.handle = recs[r].handle /\ row.code = recs[r].code
  BY <1>0 DEF RecRec
<1>2. recs' = [recs EXCEPT ![r] = row]
  BY <1>0 DEF Ppu!Detach, PpuTypes
<1>3. PpuWrites(r, row)
  BY <1>0, <1>1, <1>2, RowWrites
<1> HIDE DEF r, row
<1>4. ASSUME NEW q \in Ppu!Recs
      PROVE  /\ recs'[q].inUse <=> recs[q].inUse
             /\ recs'[q].tid = recs[q].tid /\ recs'[q].joiner = recs[q].joiner
             /\ recs'[q].handle = recs[q].handle /\ recs'[q].code = recs[q].code
  BY <1>0, <1>1, <1>3 DEF PpuWrites
<1>5. ASSUME NEW q \in Ppu!Recs PROVE RecTrue(q)'
  BY <1>0, <1>4 DEF PpuInv, RecTrue
<1>6. ASSUME NEW b \in Ppu!Tids PROVE IdTrue(b)' /\ PpuCallTrue(b)'
  <2>1. thrcall[b].rec \in Ppu!Recs /\ IdTrue(b) /\ PpuCallTrue(b)
    BY CallTypes
  <2> QED BY <1>0, <1>4, <2>1 DEF IdTrue, PpuCallTrue, CreateTrue, WaiterTrue
<1>7. PpuTypes' /\ OnceRan'
  BY <1>0, <1>3 DEF PpuInv, PpuTypes, PpuWrites, OnceRan
<1> QED BY <1>5, <1>6, <1>7 DEF PpuInv

LEMMA PpuJoinReapsKeeps ==
    ASSUME PpuSizes, PpuInv, NEW a \in Ppu!Tids, Ppu!JoinReaps(a)
    PROVE  PpuInv'
<1> DEFINE r   == thrcall[a].rec
           row == [recs[r] EXCEPT !.inUse = FALSE, !.joiner = 0]
<1>0. /\ PpuTypes /\ PpuCallTrue(a) /\ r \in Ppu!Recs /\ recs[r] \in RecRec
      /\ thrcall[a].pc = "reap" /\ UNCHANGED <<nextTid, life, known, once>>
  BY CallTypes DEF Ppu!JoinReaps, Ppu!At
<1>1. row \in RecRec /\ ~row.inUse
  <2>1. PICK zero \in 0..MaxTid : zero = 0
    BY DEF PpuSizes
  <2>2. row = [recs[r] EXCEPT !.inUse = FALSE, !.joiner = zero]
    BY <2>1
  <2> HIDE DEF row
  <2> QED BY <1>0, <2>2 DEF RecRec
<1>2. recs' = [recs EXCEPT ![r] = row]
  BY <1>0 DEF Ppu!JoinReaps, PpuTypes
<1>3. PpuWrites(r, row)
  BY <1>0, <1>1, <1>2, RowWrites
<1>4. PpuSteps(a, "idle")
  BY <1>0, PpuGoSteps DEF Ppu!JoinReaps
<1> HIDE DEF r, row
<1>5. /\ recs[r].tid \in known /\ recs[r].joiner = a /\ life[recs[r].tid] \in {"none", "ended"}
  BY <1>0 DEF PpuCallTrue, WaiterTrue, Joining, r
<1>6. ASSUME NEW q \in Ppu!Recs PROVE RecTrue(q)'
  BY <1>0, <1>1, <1>3 DEF PpuInv, RecTrue, PpuWrites
<1>7. ASSUME NEW b \in Ppu!Tids PROVE IdTrue(b)'
  BY <1>0, <1>3, <1>5 DEF PpuInv, IdTrue, PpuWrites
<1>8. ASSUME NEW b \in Ppu!Tids PROVE PpuCallTrue(b)'
  <2>1. CASE b = a
    BY <1>4, <2>1 DEF PpuSteps, PpuCallTrue, CreateTrue, WaiterTrue, Making, Joining
  <2>2. CASE b # a
    <3>1. PpuCallTrue(b) /\ thrcall'[b] = thrcall[b] /\ thrcall[b].rec \in Ppu!Recs
      BY <1>4, <2>2, CallTypes DEF PpuSteps
    <3>2. thrcall[b].pc \in Making \cup Joining => recs'[thrcall[b].rec] = recs[thrcall[b].rec]
      BY <1>3, <1>5, <2>2, <3>1 DEF PpuCallTrue, CreateTrue, WaiterTrue, PpuWrites
    <3>3. CreateTrue(b)'
      BY <1>0, <1>4, <3>1, <3>2 DEF PpuSteps, PpuCallTrue, CreateTrue, Making
    <3>4. WaiterTrue(b)'
      BY <1>0, <3>1, <3>2 DEF PpuCallTrue, WaiterTrue
    <3> QED BY <1>0, <3>1, <3>3, <3>4 DEF PpuCallTrue
  <2> QED BY <2>1, <2>2
<1>9. PpuTypes' /\ OnceRan'
  BY <1>0, <1>3, <1>4 DEF PpuInv, PpuTypes, PpuWrites, PpuSteps, OnceRan
<1> QED BY <1>6, <1>7, <1>8, <1>9 DEF PpuInv

\* What moves one call on and leaves the records, the threads and the ids as they are.
LEMMA PpuCallMoves ==
    ASSUME PpuSizes, PpuInv, NEW a \in Ppu!Tids, life[a] = "runs",
           NEW where \in {"idle", "once"} \cup Making \cup Joining, PpuSteps(a, where),
           UNCHANGED <<recs, nextTid, life, known>>,
           once' \in [word : {0, 1}, by : 0..MaxTid, ran : {0, 1}], OnceRan',
           \/ where \in {"idle", "once"}
           \/ where = "return" /\ thrcall[a].pc = "start"
           \/ /\ where = "reap" /\ thrcall[a].pc = "join"
              /\ thrcall[a].handle # 0 => life[thrcall[a].handle] = "ended"
    PROVE  PpuInv'
<1>0. PpuTypes
  BY DEF PpuInv
<1>1. \A r \in Ppu!Recs : RecTrue(r)'
  BY DEF PpuInv, RecTrue
<1>2. \A b \in Ppu!Tids : IdTrue(b)'
  BY DEF PpuInv, IdTrue
<1>3. ASSUME NEW b \in Ppu!Tids PROVE PpuCallTrue(b)'
  <2>1. CASE b = a
    <3>1. PpuCallTrue(a) /\ a \in Ppu!Tids /\ RecTrue(thrcall[a].rec)
      BY CallTypes
    <3>2. CASE where \in {"idle", "once"}
      BY <2>1, <3>2 DEF PpuSteps, PpuCallTrue, CreateTrue, WaiterTrue, Making, Joining
    <3>3. CASE where = "return" /\ thrcall[a].pc = "start"
      BY <2>1, <3>1, <3>3 DEF PpuSteps, PpuCallTrue, CreateTrue, WaiterTrue, Making, Joining
    <3>4. CASE /\ where = "reap" /\ thrcall[a].pc = "join"
               /\ thrcall[a].handle # 0 => life[thrcall[a].handle] = "ended"
      <4>1. recs[thrcall[a].rec].tid \in Ppu!Tids /\ 0 \notin Ppu!Tids
        BY <3>1, <3>4 DEF PpuCallTrue, WaiterTrue, Joining, RecTrue, Ppu!Tids
      <4> QED BY <2>1, <3>1, <3>4, <4>1 DEF PpuSteps, PpuCallTrue, CreateTrue, WaiterTrue,
                 Making, Joining
    <3> QED BY <3>2, <3>3, <3>4
  <2>2. CASE b # a
    <3>1. PpuCallTrue(b) /\ thrcall'[b] = thrcall[b]
      BY <2>2, CallTypes DEF PpuSteps
    <3> QED BY <2>2, <3>1 DEF PpuSteps, PpuCallTrue, CreateTrue, WaiterTrue, Making
  <2> QED BY <2>1, <2>2
<1>4. PpuTypes'
  BY <1>0 DEF PpuTypes, PpuSteps
<1> QED BY <1>1, <1>2, <1>3, <1>4 DEF PpuInv

LEMMA OnceKeeps ==
    ASSUME PpuSizes, PpuInv, NEW a \in Ppu!Tids, Ppu!OnceEnter(a) \/ Ppu!OnceDone(a)
    PROVE  PpuInv'
<1>0. /\ PpuTypes /\ OnceRan /\ a \in 0..MaxTid /\ a # 0
      /\ once \in [word : {0, 1}, by : 0..MaxTid, ran : {0, 1}]
  BY DEF PpuInv, PpuTypes, Ppu!Tids, PpuSizes
<1>1. CASE Ppu!OnceEnter(a)
  <2>1. once.ran = 0 /\ once.by = 0 /\ once.word = 0
    BY <1>0, <1>1 DEF Ppu!OnceEnter, OnceRan
  <2>2. PICK one \in {0, 1} : one = once.ran + 1
    BY <2>1
  <2>3. once' = [once EXCEPT !.by = a, !.ran = one]
    BY <1>1, <2>2 DEF Ppu!OnceEnter
  <2>4. once' \in [word : {0, 1}, by : 0..MaxTid, ran : {0, 1}] /\ once'.by = a
    BY <1>0, <2>3
  <2>5. PpuSteps(a, "once")
    BY <1>0, <1>1, PpuGoSteps DEF Ppu!OnceEnter
  <2> QED BY <1>0, <1>1, <2>4, <2>5, PpuCallMoves DEF Ppu!OnceEnter, Ppu!At, OnceRan
<1>2. CASE Ppu!OnceDone(a)
  <2>1. PICK zero \in 0..MaxTid, one \in {0, 1} : zero = 0 /\ one = 1
    BY DEF PpuSizes
  <2>2. once' = [once EXCEPT !.by = zero, !.word = one]
    BY <1>2, <2>1 DEF Ppu!OnceDone
  <2>3. once' \in [word : {0, 1}, by : 0..MaxTid, ran : {0, 1}] /\ once'.word = one
    BY <1>0, <2>2
  <2>4. PpuSteps(a, "idle")
    BY <1>0, <1>2, PpuGoSteps DEF Ppu!OnceDone
  <2> QED BY <1>0, <1>2, <2>1, <2>3, <2>4, PpuCallMoves DEF Ppu!OnceDone, Ppu!At, OnceRan
<1> QED BY <1>1, <1>2

LEMMA PpuNext == PpuSizes /\ PpuInv /\ [Ppu!Next]_(Ppu!threadVars) => PpuInv'
<1> SUFFICES ASSUME PpuSizes, PpuInv, [Ppu!Next]_(Ppu!threadVars) PROVE PpuInv'
  OBVIOUS
<1>0. PpuTypes /\ OnceRan
  BY DEF PpuInv
<1>1. CASE UNCHANGED Ppu!threadVars
  BY <1>1 DEF Ppu!threadVars, PpuInv, PpuTypes, OnceRan, RecTrue, IdTrue, PpuCallTrue, CreateTrue,
     WaiterTrue
<1>2. ASSUME NEW a \in Ppu!Tids, Ppu!CreateInterrupt(a) PROVE PpuInv'
  <2>1. PpuSteps(a, "return")
    BY <1>0, <1>2, PpuGoSteps DEF Ppu!CreateInterrupt, Making
  <2> QED BY <1>0, <1>2, <2>1, PpuCallMoves DEF Ppu!CreateInterrupt, Ppu!At, Making, PpuTypes,
             OnceRan
<1>3. ASSUME NEW a \in Ppu!Tids, Ppu!JoinWaited(a) PROVE PpuInv'
  <2>1. PpuSteps(a, "reap")
    BY <1>0, <1>3, PpuGoSteps DEF Ppu!JoinWaited, Joining
  <2> QED BY <1>0, <1>3, <2>1, PpuCallMoves DEF Ppu!JoinWaited, Ppu!At, Joining, PpuTypes, OnceRan
<1>4. ASSUME NEW a \in Ppu!Tids,
             Ppu!CreateCall(a) \/ Ppu!CreateFails(a) \/ Ppu!CreateStarts(a) \/ Ppu!CreateHandle(a)
             \/ Ppu!CreateReturns(a)
      PROVE  PpuInv'
  BY <1>4, CreateCallKeeps, CreateFailsKeeps, CreateStartsKeeps, CreateHandleKeeps,
     CreateReturnsKeeps
<1>5. ASSUME NEW a \in Ppu!Tids,
             Ppu!ExitCall(a) \/ Ppu!ExitEnds(a) \/ Ppu!JoinReaps(a) \/ Ppu!OnceEnter(a) \/ Ppu!OnceDone(a)
      PROVE  PpuInv'
  BY <1>5, ExitCallKeeps, ExitEndsKeeps, PpuJoinReapsKeeps, OnceKeeps
<1>6. ASSUME NEW a \in Ppu!Tids, NEW tid \in Ppu!Tids, Ppu!JoinCall(a, tid) \/ Ppu!Detach(a, tid)
      PROVE  PpuInv'
  BY <1>6, PpuJoinCallKeeps, PpuDetachKeeps
<1> QED BY <1>1, <1>2, <1>3, <1>4, <1>5, <1>6 DEF Ppu!Next

(* Every thread has one record, a join keeps the record it found to itself, and it
   returns after the end of its thread with the code of that thread.         *)
THEOREM PpuJoinsExact == PpuSizes => (Ppu!Spec => []Ppu!JoinsExact)
<1> SUFFICES ASSUME PpuSizes PROVE Ppu!Spec => []Ppu!JoinsExact
  OBVIOUS
<1>1. Ppu!Init => PpuInv
  BY PpuInit
<1>2. PpuInv /\ [Ppu!Next]_(Ppu!threadVars) => PpuInv'
  BY PpuNext
<1>3. PpuInv => Ppu!JoinsExact
  BY PpuFollows
<1> QED BY <1>1, <1>2, <1>3, PTL DEF Ppu!Spec

-----------------------------------------------------------------------------
(* PPU threads of the runtime *)

\* A guest that joins a thread once and does not detach it beside the join.
RuntimeSizes == NumSlots \in Nat /\ MaxLives \in Nat /\ Careful = TRUE

TableRec  == [state : {"free", "running", "finished", "detached"}, joinable : BOOLEAN,
              status : 0..MaxLives, event : BOOLEAN, life : 0..MaxLives]
LifeRec   == [slot : 0..NumSlots, pc : {"none", "runs", "marked", "ended"}]
CallerRec == [pc : {"idle", "wait", "reap"}, slot : 0..NumSlots, life : 0..MaxLives]
Results   == [life : Lv2!Lives, status : 0..MaxLives]

RuntimeTypes ==
    /\ table \in [Lv2!Slots -> TableRec]
    /\ lives \in [Lv2!Lives -> LifeRec]
    /\ tpc \in [Callers -> CallerRec]
    /\ returned \subseteq Results

\* A host thread has its slot to itself until it has signalled its end.
LifeKept(l) ==
    /\ lives[l].pc # "none" => lives[l].slot \in Lv2!Slots
    /\ lives[l].pc \in {"runs", "marked"} => table[lives[l].slot].life = l
    /\ lives[l].pc = "runs" => table[lives[l].slot].state \in {"running", "detached"}

\* A slot says of its thread how far it is.
SlotTrue(s) ==
    /\ table[s].state # "free" => table[s].life \in Lv2!Lives /\ lives[table[s].life].slot = s
    /\ table[s].state \in {"running", "detached"} => lives[table[s].life].pc = "runs"
    /\ table[s].state = "running" => table[s].joinable
    /\ table[s].state = "finished" =>
          /\ table[s].joinable /\ table[s].status = table[s].life
          /\ lives[table[s].life].pc \in {"marked", "ended"}
    /\ table[s].event => table[s].life \in Lv2!Lives /\ lives[table[s].life].pc = "ended"

\* A join has the slot of its thread until it gives it back, and has it alone.
JoinerTrue(c) ==
    /\ tpc[c].pc = "idle" => tpc[c].slot = 0
    /\ tpc[c].pc # "idle" =>
          /\ tpc[c].slot \in Lv2!Slots /\ table[tpc[c].slot].life = tpc[c].life
          /\ table[tpc[c].slot].state \in {"running", "finished"}
          /\ \A d \in Callers : c # d => tpc[d].slot # tpc[c].slot
    /\ tpc[c].pc = "reap" => table[tpc[c].slot].state = "finished"

RuntimeInv ==
    /\ RuntimeTypes
    /\ \A l \in Lv2!Lives : LifeKept(l)
    /\ \A s \in Lv2!Slots : SlotTrue(s)
    /\ \A c \in Callers : JoinerTrue(c)
    /\ Lv2!JoinsTrue

LEMMA RuntimeFollows == RuntimeSizes /\ RuntimeInv => Lv2!ThreadsSound /\ Lv2!TypeOK
<1> SUFFICES ASSUME RuntimeSizes, RuntimeInv PROVE Lv2!ThreadsSound /\ Lv2!TypeOK
  OBVIOUS
<1>1. Lv2!TypeOK
  BY DEF RuntimeInv, RuntimeTypes, Lv2!TypeOK, TableRec, CallerRec
<1>2. Lv2!SlotsReturn
  BY DEF RuntimeInv, LifeKept, SlotTrue, Lv2!SlotsReturn
<1> QED BY <1>1, <1>2 DEF RuntimeInv, Lv2!ThreadsSound

LEMMA RuntimeInit == RuntimeSizes /\ Lv2!Init => RuntimeInv
<1> SUFFICES ASSUME RuntimeSizes, Lv2!Init PROVE RuntimeInv
  OBVIOUS
<1>1. Lv2!FreeSlot \in TableRec /\ Lv2!FreeSlot.state = "free" /\ ~Lv2!FreeSlot.event
  BY DEF RuntimeSizes, Lv2!FreeSlot, TableRec
<1>2. Lv2!NoLife \in LifeRec /\ Lv2!NoLife.pc = "none"
  BY DEF RuntimeSizes, Lv2!NoLife, LifeRec
<1>3. Lv2!Idle \in CallerRec /\ Lv2!Idle.pc = "idle" /\ Lv2!Idle.slot = 0
  BY DEF RuntimeSizes, Lv2!Idle, CallerRec
<1>4. RuntimeTypes
  BY <1>1, <1>2, <1>3 DEF Lv2!Init, RuntimeTypes
<1>5. /\ \A l \in Lv2!Lives : LifeKept(l)
      /\ \A s \in Lv2!Slots : SlotTrue(s)
      /\ \A c \in Callers : JoinerTrue(c)
  BY <1>1, <1>2, <1>3 DEF Lv2!Init, LifeKept, SlotTrue, JoinerTrue
<1> QED BY <1>4, <1>5 DEF RuntimeInv, Lv2!Init, Lv2!JoinsTrue

LEMMA CreateKeeps ==
    ASSUME RuntimeSizes, RuntimeInv, NEW c \in Callers, Lv2!Create(c)
    PROVE  RuntimeInv'
<1>0. RuntimeTypes /\ Lv2!JoinsTrue
  BY DEF RuntimeInv
<1>1. PICK s \in Lv2!Slots, l \in Lv2!Lives :
         /\ table[s].state = "free" /\ lives[l].pc = "none"
         /\ table' = [table EXCEPT ![s] = [Lv2!FreeSlot EXCEPT !.state = "running",
                                               !.joinable = TRUE, !.life = l]]
         /\ lives' = [lives EXCEPT ![l] = [slot |-> s, pc |-> "runs"]]
  BY DEF Lv2!Create
<1>2. \A k \in Lv2!Lives : lives[k].pc # "marked"
  BY DEF Lv2!Create, RuntimeSizes, Lv2!Ending
<1> DEFINE row  == [Lv2!FreeSlot EXCEPT !.state = "running", !.joinable = TRUE, !.life = l]
           born == [slot |-> s, pc |-> "runs"]
<1>3. /\ row \in TableRec /\ row.state = "running" /\ row.joinable /\ row.life = l
      /\ ~row.event
  <2>1. Lv2!FreeSlot \in TableRec /\ ~Lv2!FreeSlot.event
    BY DEF RuntimeSizes, Lv2!FreeSlot, TableRec
  <2>2. l \in 0..MaxLives
    BY DEF RuntimeSizes, Lv2!Lives
  <2> QED BY <2>1, <2>2 DEF TableRec
<1>4. born \in LifeRec /\ born.slot = s /\ born.pc = "runs"
  BY DEF RuntimeSizes, LifeRec, Lv2!Slots
<1> HIDE DEF row, born
<1>5. /\ table' \in [Lv2!Slots -> TableRec] /\ lives' \in [Lv2!Lives -> LifeRec]
      /\ table'[s] = row /\ \A t \in Lv2!Slots : t # s => table'[t] = table[t]
      /\ lives'[l] = born /\ \A k \in Lv2!Lives : k # l => lives'[k] = lives[k]
      /\ tpc' = tpc /\ returned' = returned
  BY <1>0, <1>1, <1>3, <1>4 DEF RuntimeTypes, row, born, Lv2!Create
<1>6. ASSUME NEW k \in Lv2!Lives PROVE LifeKept(k)'
  BY <1>0, <1>1, <1>2, <1>3, <1>4, <1>5 DEF RuntimeInv, LifeKept
<1>7. ASSUME NEW t \in Lv2!Slots PROVE SlotTrue(t)'
  <2>1. CASE t = s
    BY <1>3, <1>4, <1>5, <2>1 DEF SlotTrue
  <2>2. CASE t # s
    <3>1. SlotTrue(t) /\ table[t] \in TableRec /\ table'[t] = table[t]
      BY <1>0, <1>5, <2>2 DEF RuntimeInv, RuntimeTypes
    <3>2. table[t].state # "free" \/ table[t].event => table[t].life # l
      BY <1>1, <3>1 DEF SlotTrue, TableRec
    <3> QED BY <1>5, <3>1, <3>2 DEF SlotTrue
  <2> QED BY <2>1, <2>2
<1>8. ASSUME NEW d \in Callers PROVE JoinerTrue(d)'
  BY <1>0, <1>1, <1>3, <1>5 DEF RuntimeInv, JoinerTrue
<1>9. Lv2!JoinsTrue'
  BY <1>0, <1>1, <1>5 DEF Lv2!JoinsTrue, RuntimeTypes, Results
<1> QED BY <1>0, <1>5, <1>6, <1>7, <1>8, <1>9 DEF RuntimeInv, RuntimeTypes

LEMMA MarksKeeps ==
    ASSUME RuntimeSizes, RuntimeInv, NEW l \in Lv2!Lives, Lv2!Marks(l)
    PROVE  RuntimeInv'
<1>0. RuntimeTypes /\ Lv2!JoinsTrue
  BY DEF RuntimeInv
<1> DEFINE s    == lives[l].slot
           row  == [table[s] EXCEPT !.status = l, !.state = Lv2!After(@)]
           over == [lives[l] EXCEPT !.pc = "marked"]
<1>1. /\ s \in Lv2!Slots /\ table[s].life = l /\ table[s].state \in {"running", "detached"}
      /\ lives[l].pc = "runs" /\ table[s] \in TableRec /\ lives[l] \in LifeRec
  BY <1>0 DEF RuntimeInv, LifeKept, Lv2!Marks, RuntimeTypes
<1>2. /\ row \in TableRec /\ row.life = l /\ row.status = l
      /\ row.state = Lv2!After(table[s].state)
      /\ row.joinable = table[s].joinable /\ row.event = table[s].event
  BY <1>1 DEF RuntimeSizes, TableRec, Lv2!Lives, Lv2!After
<1>3. over \in LifeRec /\ over.slot = s /\ over.pc = "marked"
  BY <1>1 DEF LifeRec
<1>4. table' = [table EXCEPT ![s] = row] /\ lives' = [lives EXCEPT ![l] = over]
  BY <1>0 DEF Lv2!Marks, RuntimeTypes
<1>10. tpc' = tpc /\ returned' = returned
  BY DEF Lv2!Marks
<1> HIDE DEF s, row, over
<1>5. /\ table' \in [Lv2!Slots -> TableRec] /\ lives' \in [Lv2!Lives -> LifeRec]
      /\ table'[s] = row /\ \A t \in Lv2!Slots : t # s => table'[t] = table[t]
      /\ lives'[l] = over /\ \A k \in Lv2!Lives : k # l => lives'[k] = lives[k]
      /\ tpc' = tpc /\ returned' = returned
  BY <1>0, <1>1, <1>2, <1>3, <1>4, <1>10 DEF RuntimeTypes
<1>6. ASSUME NEW k \in Lv2!Lives PROVE LifeKept(k)'
  BY <1>0, <1>1, <1>2, <1>3, <1>5 DEF RuntimeInv, LifeKept
<1>7. ASSUME NEW t \in Lv2!Slots PROVE SlotTrue(t)'
  BY <1>0, <1>1, <1>2, <1>3, <1>5 DEF RuntimeInv, SlotTrue, Lv2!After, s
<1>8. ASSUME NEW d \in Callers PROVE JoinerTrue(d)'
  BY <1>0, <1>1, <1>2, <1>5 DEF RuntimeInv, JoinerTrue, Lv2!After
<1>9. Lv2!JoinsTrue'
  BY <1>0, <1>1, <1>5 DEF Lv2!JoinsTrue, RuntimeTypes, Results
<1> QED BY <1>0, <1>5, <1>6, <1>7, <1>8, <1>9 DEF RuntimeInv, RuntimeTypes

LEMMA SignalsKeeps ==
    ASSUME RuntimeSizes, RuntimeInv, NEW l \in Lv2!Lives, Lv2!Signals(l)
    PROVE  RuntimeInv'
<1>0. RuntimeTypes /\ Lv2!JoinsTrue
  BY DEF RuntimeInv
<1> DEFINE s    == lives[l].slot
           row  == [table[s] EXCEPT !.event = TRUE]
           over == [lives[l] EXCEPT !.pc = "ended"]
<1>1. /\ s \in Lv2!Slots /\ table[s].life = l
      /\ lives[l].pc = "marked" /\ table[s] \in TableRec /\ lives[l] \in LifeRec
  BY <1>0 DEF RuntimeInv, LifeKept, Lv2!Signals, RuntimeTypes
<1>2. /\ row \in TableRec /\ row.life = l /\ row.status = table[s].status
      /\ row.state = table[s].state /\ row.joinable = table[s].joinable /\ row.event
  BY <1>1 DEF TableRec
<1>3. over \in LifeRec /\ over.slot = s /\ over.pc = "ended"
  BY <1>1 DEF LifeRec
<1>4. table' = [table EXCEPT ![s] = row] /\ lives' = [lives EXCEPT ![l] = over]
  BY <1>0 DEF Lv2!Signals, RuntimeTypes
<1> HIDE DEF s, row, over
<1>5. /\ table' \in [Lv2!Slots -> TableRec] /\ lives' \in [Lv2!Lives -> LifeRec]
      /\ table'[s] = row /\ \A t \in Lv2!Slots : t # s => table'[t] = table[t]
      /\ lives'[l] = over /\ \A k \in Lv2!Lives : k # l => lives'[k] = lives[k]
      /\ tpc' = tpc /\ returned' = returned
  BY <1>0, <1>1, <1>2, <1>3, <1>4 DEF RuntimeTypes, Lv2!Signals
<1>6. ASSUME NEW k \in Lv2!Lives PROVE LifeKept(k)'
  BY <1>0, <1>1, <1>2, <1>3, <1>5 DEF RuntimeInv, LifeKept
<1>7. ASSUME NEW t \in Lv2!Slots PROVE SlotTrue(t)'
  BY <1>0, <1>1, <1>2, <1>3, <1>5 DEF RuntimeInv, SlotTrue, s
<1>8. ASSUME NEW d \in Callers PROVE JoinerTrue(d)'
  BY <1>0, <1>1, <1>2, <1>5 DEF RuntimeInv, JoinerTrue
<1>9. Lv2!JoinsTrue'
  BY <1>0, <1>1, <1>3, <1>5 DEF Lv2!JoinsTrue, RuntimeTypes, Results
<1> QED BY <1>0, <1>5, <1>6, <1>7, <1>8, <1>9 DEF RuntimeInv, RuntimeTypes

LEMMA Lv2JoinCallKeeps ==
    ASSUME RuntimeSizes, RuntimeInv, NEW c \in Callers, NEW s \in Lv2!Slots, Lv2!JoinCall(c, s)
    PROVE  RuntimeInv'
<1>0. RuntimeTypes /\ Lv2!JoinsTrue
  BY DEF RuntimeInv
<1> DEFINE call == [pc |-> "wait", slot |-> s, life |-> table[s].life]
<1>1. /\ table[s] \in TableRec /\ table[s].state \in {"running", "finished"}
      /\ \A d \in Callers : tpc[d].slot # s
  BY <1>0 DEF Lv2!JoinCall, Lv2!Joinable, Lv2!Joined, RuntimeTypes, RuntimeSizes, TableRec
<1>2. /\ call \in CallerRec /\ call.pc = "wait" /\ call.slot = s
      /\ call.life = table[s].life
  BY <1>1 DEF CallerRec, TableRec, RuntimeSizes, Lv2!Slots
<1>3. tpc' = [tpc EXCEPT ![c] = call]
  BY DEF Lv2!JoinCall
<1> HIDE DEF call
<1>4. /\ tpc' \in [Callers -> CallerRec] /\ tpc'[c] = call
      /\ \A d \in Callers : d # c => tpc'[d] = tpc[d]
      /\ table' = table /\ lives' = lives /\ returned' = returned
  BY <1>0, <1>2, <1>3 DEF RuntimeTypes, Lv2!JoinCall
<1>5. 0 \notin Lv2!Slots
  BY DEF Lv2!Slots, RuntimeSizes
<1>6. ASSUME NEW d \in Callers PROVE JoinerTrue(d)'
  BY <1>0, <1>1, <1>2, <1>4, <1>5 DEF RuntimeInv, JoinerTrue
<1>7. (\A k \in Lv2!Lives : LifeKept(k)') /\ \A t \in Lv2!Slots : SlotTrue(t)'
  BY <1>4 DEF RuntimeInv, LifeKept, SlotTrue
<1> QED BY <1>0, <1>4, <1>6, <1>7 DEF RuntimeInv, RuntimeTypes, Lv2!JoinsTrue

LEMMA JoinWokenKeeps ==
    ASSUME RuntimeSizes, RuntimeInv, NEW c \in Callers, Lv2!JoinWoken(c)
    PROVE  RuntimeInv'
<1>0. RuntimeTypes /\ Lv2!JoinsTrue
  BY DEF RuntimeInv
<1> DEFINE s      == tpc[c].slot
           call   == [tpc[c] EXCEPT !.pc = "reap"]
           result == [life |-> tpc[c].life, status |-> table[s].status]
<1>1. /\ tpc[c] \in CallerRec /\ tpc[c].pc = "wait" /\ s \in Lv2!Slots /\ table[s] \in TableRec
      /\ table[s].life = tpc[c].life /\ table[s].state \in {"running", "finished"}
      /\ table[s].event
  BY <1>0 DEF RuntimeInv, JoinerTrue, Lv2!JoinWoken, Lv2!At, RuntimeTypes
<1>2. /\ table[s].state = "finished" /\ table[s].status = table[s].life
      /\ table[s].life \in Lv2!Lives /\ lives[table[s].life].pc = "ended"
  BY <1>1 DEF RuntimeInv, SlotTrue
<1>3. call \in CallerRec /\ call.pc = "reap" /\ call.slot = s /\ call.life = tpc[c].life
  BY <1>1 DEF CallerRec
<1>4. result \in Results /\ result.life = table[s].life /\ result.status = table[s].status
  BY <1>1, <1>2 DEF Results, TableRec
<1>5. tpc' = [tpc EXCEPT ![c] = call] /\ returned' = returned \cup {result}
  BY <1>0 DEF Lv2!JoinWoken, RuntimeTypes
<1> HIDE DEF s, call, result
<1>6. /\ tpc' \in [Callers -> CallerRec] /\ tpc'[c] = call
      /\ \A d \in Callers : d # c => tpc'[d] = tpc[d]
      /\ table' = table /\ lives' = lives /\ returned' \subseteq Results
  BY <1>0, <1>3, <1>4, <1>5 DEF RuntimeTypes, Lv2!JoinWoken
<1>7. ASSUME NEW d \in Callers PROVE JoinerTrue(d)'
  BY <1>0, <1>1, <1>2, <1>3, <1>6 DEF RuntimeInv, JoinerTrue, s
<1>8. (\A k \in Lv2!Lives : LifeKept(k)') /\ \A t \in Lv2!Slots : SlotTrue(t)'
  BY <1>6 DEF RuntimeInv, LifeKept, SlotTrue
<1>9. Lv2!JoinsTrue'
  BY <1>0, <1>2, <1>4, <1>5, <1>6 DEF Lv2!JoinsTrue
<1> QED BY <1>0, <1>6, <1>7, <1>8, <1>9 DEF RuntimeInv, RuntimeTypes

LEMMA Lv2JoinReapsKeeps ==
    ASSUME RuntimeSizes, RuntimeInv, NEW c \in Callers, Lv2!JoinReaps(c)
    PROVE  RuntimeInv'
<1>0. RuntimeTypes /\ Lv2!JoinsTrue
  BY DEF RuntimeInv
<1> DEFINE s   == tpc[c].slot
           row == [table[s] EXCEPT !.state = "free"]
<1>1. /\ tpc[c].pc = "reap" /\ s \in Lv2!Slots /\ table[s] \in TableRec
      /\ table[s].state = "finished"
      /\ \A d \in Callers : c # d => tpc[d].slot # s
  BY <1>0 DEF RuntimeInv, JoinerTrue, Lv2!JoinReaps, Lv2!At, RuntimeTypes
<1>2. /\ row \in TableRec /\ row.state = "free" /\ row.life = table[s].life
      /\ row.event = table[s].event
  BY <1>1 DEF TableRec
<1>3. Lv2!Idle \in CallerRec /\ Lv2!Idle.pc = "idle" /\ Lv2!Idle.slot = 0 /\ 0 \notin Lv2!Slots
  BY DEF RuntimeSizes, Lv2!Idle, CallerRec, Lv2!Slots
<1>4. table' = [table EXCEPT ![s] = row] /\ tpc' = [tpc EXCEPT ![c] = Lv2!Idle]
  BY <1>0 DEF Lv2!JoinReaps, RuntimeTypes
<1> HIDE DEF s, row
<1>5. /\ table' \in [Lv2!Slots -> TableRec] /\ tpc' \in [Callers -> CallerRec]
      /\ table'[s] = row /\ \A t \in Lv2!Slots : t # s => table'[t] = table[t]
      /\ tpc'[c] = Lv2!Idle /\ \A d \in Callers : d # c => tpc'[d] = tpc[d]
      /\ lives' = lives /\ returned' = returned
  BY <1>0, <1>1, <1>2, <1>3, <1>4 DEF RuntimeTypes, Lv2!JoinReaps
<1>6. ASSUME NEW k \in Lv2!Lives PROVE LifeKept(k)'
  BY <1>0, <1>1, <1>2, <1>5 DEF RuntimeInv, LifeKept
<1>7. ASSUME NEW t \in Lv2!Slots PROVE SlotTrue(t)'
  BY <1>0, <1>1, <1>2, <1>5 DEF RuntimeInv, SlotTrue
<1>8. ASSUME NEW d \in Callers PROVE JoinerTrue(d)'
  BY <1>0, <1>1, <1>2, <1>3, <1>5 DEF RuntimeInv, JoinerTrue
<1> QED BY <1>0, <1>5, <1>6, <1>7, <1>8 DEF RuntimeInv, RuntimeTypes, Lv2!JoinsTrue

LEMMA Lv2DetachKeeps ==
    ASSUME RuntimeSizes, RuntimeInv, NEW c \in Callers, NEW s \in Lv2!Slots, Lv2!Detach(c, s)
    PROVE  RuntimeInv'
<1>0. RuntimeTypes /\ Lv2!JoinsTrue
  BY DEF RuntimeInv
<1> DEFINE row == [table[s] EXCEPT !.state = Lv2!Detached(@),
                                   !.joinable = @ /\ table[s].state = "finished"]
<1>1. /\ table[s] \in TableRec /\ table[s].state \in {"running", "finished"}
      /\ \A d \in Callers : tpc[d].slot # s
  BY <1>0 DEF Lv2!Detach, Lv2!Joined, RuntimeTypes, RuntimeSizes, TableRec
<1>2. /\ row \in TableRec /\ row.state = Lv2!Detached(table[s].state)
      /\ row.life = table[s].life /\ row.event = table[s].event
  BY <1>1 DEF TableRec, Lv2!Detached
<1>3. table' = [table EXCEPT ![s] = row]
  BY <1>0 DEF Lv2!Detach, RuntimeTypes
<1> HIDE DEF row
<1>4. /\ table' \in [Lv2!Slots -> TableRec]
      /\ table'[s] = row /\ \A t \in Lv2!Slots : t # s => table'[t] = table[t]
      /\ lives' = lives /\ tpc' = tpc /\ returned' = returned
  BY <1>0, <1>1, <1>2, <1>3 DEF RuntimeTypes, Lv2!Detach
<1>5. ASSUME NEW k \in Lv2!Lives PROVE LifeKept(k)'
  BY <1>0, <1>1, <1>2, <1>4 DEF RuntimeInv, LifeKept, SlotTrue, Lv2!Detached
<1>6. ASSUME NEW t \in Lv2!Slots PROVE SlotTrue(t)'
  BY <1>0, <1>1, <1>2, <1>4 DEF RuntimeInv, SlotTrue, Lv2!Detached
<1>7. ASSUME NEW d \in Callers PROVE JoinerTrue(d)'
  BY <1>0, <1>1, <1>2, <1>4 DEF RuntimeInv, JoinerTrue
<1> QED BY <1>0, <1>4, <1>5, <1>6, <1>7 DEF RuntimeInv, RuntimeTypes, Lv2!JoinsTrue

LEMMA RuntimeNext == RuntimeSizes /\ RuntimeInv /\ [Lv2!Next]_(Lv2!lv2Threads) => RuntimeInv'
<1> SUFFICES ASSUME RuntimeSizes, RuntimeInv, [Lv2!Next]_(Lv2!lv2Threads) PROVE RuntimeInv'
  OBVIOUS
<1>1. CASE UNCHANGED Lv2!lv2Threads
  BY <1>1 DEF Lv2!lv2Threads, RuntimeInv, RuntimeTypes, LifeKept, SlotTrue, JoinerTrue,
     Lv2!JoinsTrue
<1>2. ASSUME NEW c \in Callers, Lv2!Create(c) \/ Lv2!JoinWoken(c) \/ Lv2!JoinReaps(c)
      PROVE  RuntimeInv'
  BY <1>2, CreateKeeps, JoinWokenKeeps, Lv2JoinReapsKeeps
<1>3. ASSUME NEW c \in Callers, NEW s \in Lv2!Slots, Lv2!JoinCall(c, s) \/ Lv2!Detach(c, s)
      PROVE  RuntimeInv'
  BY <1>3, Lv2JoinCallKeeps, Lv2DetachKeeps
<1>4. ASSUME NEW l \in Lv2!Lives, Lv2!Marks(l) \/ Lv2!Signals(l) PROVE RuntimeInv'
  BY <1>4, MarksKeeps, SignalsKeeps
<1> QED BY <1>1, <1>2, <1>3, <1>4 DEF Lv2!Next

RuntimeRuns == Lv2!Init /\ [][Lv2!Next]_(Lv2!lv2Threads)

(* A join of the runtime gives the status of the thread it named, after its end, and
   every slot comes back: none is left over that no join or detach can free.  *)
THEOREM RuntimeThreadsSound == RuntimeSizes => (RuntimeRuns => []Lv2!ThreadsSound)
<1> SUFFICES ASSUME RuntimeSizes PROVE RuntimeRuns => []Lv2!ThreadsSound
  OBVIOUS
<1>1. Lv2!Init => RuntimeInv
  BY RuntimeInit
<1>2. RuntimeInv /\ [Lv2!Next]_(Lv2!lv2Threads) => RuntimeInv'
  BY RuntimeNext
<1>3. RuntimeInv => Lv2!ThreadsSound
  BY RuntimeFollows
<1> QED BY <1>1, <1>2, <1>3, PTL DEF RuntimeRuns

-----------------------------------------------------------------------------
(* Timers *)

\* A timer whose calls come from one thread, and a host thread that ends in time.
TimerSizes ==
    /\ MaxStarts \in Nat /\ Capacity \in Nat /\ SlowHost = FALSE
    /\ \E c : TimerCallers = {c}

LivePcs  == {"begin", "base", "check", "loop", "wait", "send", "push", "clear"}
TimerRec == [active : BOOLEAN, running : BOOLEAN, conn : BOOLEAN, base : BOOLEAN,
             oneShot : BOOLEAN, event : 0..MaxStarts, thread : 0..MaxStarts]
HostRec  == [pc : LivePcs \cup {"none", "ended"}, base : BOOLEAN, oneShot : BOOLEAN]

TimerTypes ==
    /\ timer \in TimerRec
    /\ started \in 0..MaxStarts /\ signalled \subseteq 0..started
    /\ host \in [Timer!Starts -> HostRec]
    /\ tcall \in [TimerCallers -> {"idle", "event", "thread", "stops", "destroys"}]
    /\ equeue \in [active : BOOLEAN, count : 0..Capacity]

Quiet == \A h \in Timer!Starts : host[h].pc \notin LivePcs

\* The last start has a stop event of its own that nobody has set.
Fresh == timer.event = started /\ started \notin signalled /\ started # 0

\* Between the calls a timer runs exactly while it has a host thread, which its stop
\* event reaches; within one it has no thread yet, or waits for the one it has stopped.
TimerAt(c) ==
    /\ tcall[c] = "idle" => (timer.running <=> ~Quiet)
    /\ tcall[c] = "idle" /\ timer.running => timer.active /\ Fresh /\ timer.thread = started
    /\ tcall[c] \in {"event", "thread"} => timer.running /\ timer.active /\ Quiet
    /\ tcall[c] = "thread" => Fresh
    /\ tcall[c] \in {"stops", "destroys"} =>
          ~timer.running /\ timer.thread = started /\ started # 0

TimerInv ==
    /\ TimerTypes
    /\ \A h \in Timer!Starts : host[h].pc \in LivePcs => h = started
    /\ \A c \in TimerCallers : TimerAt(c)

LEMMA TimerFollows == TimerSizes /\ TimerInv => Timer!StopIsQuiet /\ Timer!TypeOK
<1> SUFFICES ASSUME TimerSizes, TimerInv PROVE Timer!StopIsQuiet /\ Timer!TypeOK
  OBVIOUS
<1>0. TimerTypes
  BY DEF TimerInv
<1>1. Timer!TypeOK
  <2>1. \A h \in Timer!Starts : host[h].pc \in LivePcs \cup {"none", "ended"}
    BY <1>0 DEF TimerTypes, HostRec
  <2>2. signalled \subseteq 0..MaxStarts
    BY <1>0 DEF TimerTypes, TimerSizes
  <2> QED BY <1>0, <2>1, <2>2 DEF TimerTypes, Timer!TypeOK, TimerRec, LivePcs
<1>2. Timer!Living \subseteq {started} /\ (Timer!Living = {} <=> Quiet)
  BY <1>0 DEF TimerInv, TimerTypes, HostRec, LivePcs, Timer!Living, Quiet
<1>3. Cardinality(Timer!Living) <= 1
  <2>1. IsFiniteSet({started}) /\ Cardinality({started}) = 1
    BY FS_Singleton
  <2>2. Cardinality(Timer!Living) <= Cardinality({started})
    BY <1>2, <2>1, FS_Subset
  <2>3. Cardinality(Timer!Living) \in Nat
    BY <1>2, <2>1, FS_Subset, FS_CardinalityType
  <2> QED BY <2>1, <2>2, <2>3
<1>4. Timer!NoCaller => (timer.running <=> Timer!Living # {})
  <2>1. PICK c : TimerCallers = {c}
    BY DEF TimerSizes
  <2>2. tcall[c] = "idle" => (timer.running <=> ~Quiet)
    BY <2>1 DEF TimerInv, TimerAt
  <2> QED BY <1>2, <2>1, <2>2 DEF Timer!NoCaller
<1> QED BY <1>1, <1>3, <1>4, SameCardinality DEF Timer!StopIsQuiet

LEMMA FreshTimer ==
    ASSUME TimerSizes
    PROVE  Timer!NoTimer \in TimerRec /\ Timer!NoTimer.running = FALSE
  BY DEF TimerSizes, Timer!NoTimer, TimerRec

LEMMA TimerInit == TimerSizes /\ Timer!Init => TimerInv
<1> SUFFICES ASSUME TimerSizes, Timer!Init PROVE TimerInv
  OBVIOUS
<1>1. Timer!NoHost \in HostRec /\ Timer!NoHost.pc = "none"
  BY DEF Timer!NoHost, HostRec
<1>2. TimerTypes
  <2>1. equeue \in [active : BOOLEAN, count : 0..Capacity]
    BY DEF TimerSizes, Timer!Init
  <2>2. host \in [Timer!Starts -> HostRec]
    BY <1>1 DEF Timer!Init
  <2>3. started \in 0..MaxStarts /\ signalled \subseteq 0..started
    BY DEF TimerSizes, Timer!Init
  <2>4. tcall \in [TimerCallers -> {"idle", "event", "thread", "stops", "destroys"}]
    BY DEF Timer!Init
  <2>5. timer \in TimerRec
    BY FreshTimer DEF Timer!Init
  <2> QED BY <2>1, <2>2, <2>3, <2>4, <2>5 DEF TimerTypes
<1>3. Quiet
  BY <1>1 DEF Timer!Init, Quiet, LivePcs
<1>4. \A c \in TimerCallers : TimerAt(c)
  BY <1>3, FreshTimer DEF Timer!Init, TimerAt
<1> QED BY <1>2, <1>3, <1>4 DEF TimerInv, Quiet

\* A host thread goes on, finds that it is to end, or is the end of a one-shot timer.
LEMMA HostMoves ==
    ASSUME TimerSizes, TimerInv, NEW h \in Timer!Starts, Timer!Host(h)
    PROVE  /\ UNCHANGED <<started, signalled, tcall>>
           /\ host[h].pc \in LivePcs
           /\ host' \in [Timer!Starts -> HostRec] /\ \A k \in Timer!Starts : k # h => host'[k] = host[k]
           /\ equeue' \in [active : BOOLEAN, count : 0..Capacity]
           /\ timer' \in TimerRec
           /\ \/ host'[h].pc \in LivePcs /\ timer' = timer
              \/ /\ host'[h].pc = "ended" /\ timer' = timer
                 /\ ~timer.running \/ timer.event \in signalled
              \/ host'[h].pc = "ended" /\ ~timer'.running
<1>0. TimerTypes /\ host[h] \in HostRec /\ timer \in TimerRec
  BY DEF TimerInv, TimerTypes
<1>1. ASSUME NEW pc \in LivePcs \cup {"ended"}, Timer!To(h, pc)
      PROVE  /\ host' \in [Timer!Starts -> HostRec] /\ \A k \in Timer!Starts : k # h => host'[k] = host[k]
             /\ host'[h].pc = pc
  BY <1>0, <1>1 DEF Timer!To, TimerTypes, HostRec
<1>2. CASE Timer!Begins(h)
  <2> DEFINE row == [pc |-> IF timer.base THEN "base" ELSE "check",
                     base |-> timer.base, oneShot |-> timer.oneShot]
  <2>1. row \in HostRec /\ row.pc \in LivePcs
    BY <1>0 DEF HostRec, LivePcs, TimerRec
  <2>2. host' = [host EXCEPT ![h] = row]
    BY <1>2 DEF Timer!Begins
  <2> HIDE DEF row
  <2>3. /\ host' \in [Timer!Starts -> HostRec] /\ host'[h] = row
        /\ \A k \in Timer!Starts : k # h => host'[k] = host[k]
    BY <1>0, <2>1, <2>2 DEF TimerTypes
  <2> QED BY <1>0, <1>2, <2>1, <2>3 DEF Timer!Begins, Timer!At, LivePcs, TimerTypes
<1>3. CASE Timer!WaitsForBase(h)
  BY <1>0, <1>1, <1>3 DEF Timer!WaitsForBase, Timer!At, Timer!StopIsSet, LivePcs, TimerTypes
<1>4. CASE Timer!Checks(h)
  BY <1>0, <1>1, <1>4 DEF Timer!Checks, Timer!At, LivePcs, TimerTypes
<1>5. CASE Timer!Loops(h)
  BY <1>0, <1>1, <1>5 DEF Timer!Loops, Timer!At, LivePcs, TimerTypes
<1>6. CASE Timer!WaitsForPeriod(h)
  BY <1>0, <1>1, <1>6 DEF Timer!WaitsForPeriod, Timer!At, Timer!StopIsSet, LivePcs, TimerTypes
<1>7. CASE Timer!Sends(h)
  BY <1>0, <1>1, <1>7 DEF Timer!Sends, Timer!AfterSend, Timer!At, LivePcs, TimerTypes
<1>8. CASE Timer!Pushes(h)
  <2>1. equeue' \in [active : BOOLEAN, count : 0..Capacity]
    BY <1>0, <1>8 DEF Timer!Pushes, TimerTypes, TimerSizes
  <2> QED BY <1>0, <1>1, <1>8, <2>1 DEF Timer!Pushes, Timer!AfterSend, Timer!At, LivePcs
<1>9. CASE Timer!Clears(h)
  <2>1. timer' \in TimerRec /\ ~timer'.running
    BY <1>0, <1>9 DEF Timer!Clears, TimerRec
  <2> QED BY <1>0, <1>1, <1>9, <2>1 DEF Timer!Clears, Timer!At, LivePcs, TimerTypes
<1> QED BY <1>2, <1>3, <1>4, <1>5, <1>6, <1>7, <1>8, <1>9 DEF Timer!Host

LEMMA HostKeeps ==
    ASSUME TimerSizes, TimerInv, NEW h \in Timer!Starts, Timer!Host(h)
    PROVE  TimerInv'
<1>0. TimerTypes /\ h = started
  BY HostMoves DEF TimerInv
<1>1. TimerTypes'
  BY <1>0, HostMoves DEF TimerTypes
<1>2. \A k \in Timer!Starts : host'[k].pc \in LivePcs => k = started'
  BY <1>0, HostMoves DEF TimerInv
<1>3. ~Quiet
  BY HostMoves DEF Quiet
<1>4. Quiet' <=> host'[h].pc \notin LivePcs
  BY <1>0, HostMoves DEF Quiet, TimerInv
<1>5. "ended" \notin LivePcs
  BY DEF LivePcs
<1>6. ASSUME NEW c \in TimerCallers PROVE TimerAt(c)'
  <2>1. TimerAt(c) /\ tcall' = tcall /\ started' = started /\ signalled' = signalled
    BY HostMoves DEF TimerInv
  <2>2. CASE timer' = timer
    BY <1>0, <1>3, <1>4, <1>5, <2>1, <2>2, HostMoves DEF TimerAt, Fresh
  <2>3. CASE host'[h].pc = "ended" /\ ~timer'.running
    <3>1. tcall[c] # "event" /\ tcall[c] # "thread"
      BY <1>3, <2>1 DEF TimerAt
    <3>2. tcall[c] \in {"stops", "destroys"} => timer'.thread = timer.thread
      BY <2>1, HostMoves DEF TimerAt, Timer!Host, Timer!Begins, Timer!WaitsForBase,
         Timer!Checks, Timer!Loops, Timer!WaitsForPeriod, Timer!Sends, Timer!Pushes,
         Timer!Clears, TimerTypes, TimerRec
    <3> QED BY <1>4, <1>5, <2>1, <2>3, <3>1, <3>2 DEF TimerAt
  <2> QED BY <2>2, <2>3, HostMoves
<1> QED BY <1>1, <1>2, <1>6 DEF TimerInv

LEMMA CallKeeps ==
    ASSUME TimerSizes, TimerInv, NEW c \in TimerCallers,
           \/ Timer!Create(c) \/ Timer!Destroy(c) \/ Timer!DestroyReturns(c) \/ Timer!Connect(c) \/ Timer!Disconnect(c)
           \/ Timer!StartEvent(c) \/ Timer!StartThread(c) \/ Timer!Stop(c) \/ Timer!StopReturns(c)
           \/ \E base, oneShot \in BOOLEAN : Timer!Start(c, base, oneShot)
    PROVE  TimerInv'
<1>0. /\ TimerTypes /\ TimerAt(c) /\ timer \in TimerRec
      /\ \A h \in Timer!Starts : host[h].pc \in LivePcs => h = started
  BY DEF TimerInv, TimerTypes
<1>1. \A d \in TimerCallers : d = c
  BY DEF TimerSizes
<1>2. \A to \in {"idle", "event", "thread", "stops", "destroys"} :
         tcall' = [tcall EXCEPT ![c] = to] =>
            /\ tcall' \in [TimerCallers -> {"idle", "event", "thread", "stops", "destroys"}]
            /\ tcall'[c] = to
  BY <1>0 DEF TimerTypes
<1>3. SUFFICES TimerTypes' /\ TimerAt(c)'
               /\ \A h \in Timer!Starts : host'[h].pc \in LivePcs => h = started'
  BY <1>1 DEF TimerInv
<1>4. host' = host => (Quiet' <=> Quiet)
  BY DEF Quiet
<1>5. CASE Timer!Create(c)
  <2>1. timer' \in TimerRec /\ ~timer'.running
    BY <1>5, FreshTimer DEF Timer!Create, TimerRec
  <2>2. ~timer.running
    BY <1>0, <1>5 DEF Timer!Create, Timer!Go, TimerAt
  <2> QED BY <1>0, <1>2, <1>4, <1>5, <2>1, <2>2 DEF Timer!Create, Timer!Go, TimerTypes, TimerAt
<1>6. CASE Timer!Destroy(c) \/ Timer!Stop(c)
  <2>1. CASE ~timer.running
    <3>1. timer' \in TimerRec /\ ~timer'.running /\ signalled' = signalled
      BY <1>0, <1>6, <2>1 DEF Timer!Destroy, Timer!Stop, TimerRec
    <3> QED BY <1>0, <1>2, <1>4, <1>6, <2>1, <3>1 DEF Timer!Destroy, Timer!Stop, Timer!Go,
               TimerTypes, TimerAt
  <2>2. CASE timer.running
    <3>1. timer' = [timer EXCEPT !.running = FALSE]
      BY <1>6, <2>2 DEF Timer!Destroy, Timer!Stop
    <3>2. timer' \in TimerRec /\ ~timer'.running /\ timer'.thread = timer.thread
      BY <1>0, <3>1 DEF TimerRec
    <3>3. tcall[c] = "idle" /\ signalled' = signalled \cup {timer.event}
          /\ (tcall' = [tcall EXCEPT ![c] = "stops"] \/ tcall' = [tcall EXCEPT ![c] = "destroys"])
          /\ UNCHANGED <<started, host, equeue>>
      BY <1>6, <2>2 DEF Timer!Destroy, Timer!Stop, Timer!Go
    <3>4. Fresh /\ timer.thread = started
      BY <1>0, <2>2, <3>3 DEF TimerAt
    <3>5. TimerTypes'
      BY <1>0, <1>2, <3>2, <3>3, <3>4 DEF TimerTypes, Fresh, TimerSizes
    <3>6. TimerAt(c)'
      BY <1>2, <3>2, <3>3, <3>4 DEF TimerAt, Fresh
    <3> QED BY <1>0, <3>3, <3>5, <3>6
  <2> QED BY <1>0, <2>1, <2>2 DEF TimerRec
<1>7. CASE Timer!DestroyReturns(c) \/ Timer!StopReturns(c)
  <2>1. timer' \in TimerRec /\ timer'.running = timer.running
    <3>1. CASE Timer!DestroyReturns(c)
      BY <1>0, <3>1 DEF Timer!DestroyReturns, TimerRec
    <3>2. CASE Timer!StopReturns(c)
      <4>1. PICK zero \in 0..MaxStarts : zero = 0
        BY DEF TimerSizes
      <4>2. timer' = [timer EXCEPT !.event = zero, !.thread = zero]
        BY <3>2, <4>1 DEF Timer!StopReturns
      <4> QED BY <1>0, <4>2 DEF TimerRec
    <3> QED BY <1>7, <3>1, <3>2
  <2>2. ~timer.running /\ timer.thread = started /\ started \in Timer!Starts
    BY <1>0, <1>7 DEF Timer!DestroyReturns, Timer!StopReturns, Timer!Go, TimerAt, TimerTypes,
       Timer!Starts, TimerSizes
  <2>3. host[started].pc = "ended"
    BY <1>7, <2>2 DEF Timer!DestroyReturns, Timer!StopReturns, Timer!ThreadOver, Timer!At,
       TimerSizes, Timer!Starts
  <2>4. Quiet
    BY <1>0, <2>3 DEF Quiet, LivePcs
  <2> QED BY <1>0, <1>2, <1>4, <1>7, <2>1, <2>2, <2>4
          DEF Timer!DestroyReturns, Timer!StopReturns, Timer!Go, TimerTypes, TimerAt
<1>8. CASE Timer!Connect(c) \/ Timer!Disconnect(c)
  <2>1. /\ timer' \in TimerRec /\ timer'.running = timer.running
        /\ timer'.active = timer.active /\ timer'.event = timer.event
        /\ timer'.thread = timer.thread
    BY <1>0, <1>8 DEF Timer!Connect, Timer!Disconnect, TimerRec
  <2> QED BY <1>0, <1>2, <1>4, <1>8, <2>1
          DEF Timer!Connect, Timer!Disconnect, Timer!Go, TimerTypes, TimerAt, Fresh
<1>9. ASSUME NEW base \in BOOLEAN, NEW oneShot \in BOOLEAN, Timer!Start(c, base, oneShot)
      PROVE  TimerTypes' /\ TimerAt(c)'
             /\ \A h \in Timer!Starts : host'[h].pc \in LivePcs => h = started'
  <2>1. timer' \in TimerRec /\ timer'.running /\ timer'.active
    BY <1>0, <1>9 DEF Timer!Start, TimerRec
  <2>2. Quiet
    BY <1>0, <1>9 DEF Timer!Start, Timer!Go, TimerAt
  <2> QED BY <1>0, <1>2, <1>4, <1>9, <2>1, <2>2 DEF Timer!Start, Timer!Go, TimerTypes, TimerAt
<1>10. CASE Timer!StartEvent(c)
  <2>1. started + 1 \in 0..MaxStarts /\ started + 1 \notin signalled /\ started + 1 # 0
        /\ signalled \subseteq 0 .. started + 1
    BY <1>0, <1>10 DEF Timer!StartEvent, TimerTypes, TimerSizes
  <2>2. /\ timer' \in TimerRec /\ timer'.event = started + 1
        /\ timer'.running = timer.running /\ timer'.active = timer.active
    BY <1>0, <1>10, <2>1 DEF Timer!StartEvent, TimerRec
  <2>3. timer.running /\ timer.active /\ Quiet
    BY <1>0, <1>10 DEF Timer!StartEvent, Timer!Go, TimerAt
  <2> QED BY <1>0, <1>2, <1>4, <1>10, <2>1, <2>2, <2>3
          DEF Timer!StartEvent, Timer!Go, TimerTypes, TimerAt, Fresh, Quiet
<1>11. CASE Timer!StartThread(c)
  <2>1. started \in Timer!Starts /\ Fresh /\ timer.running /\ timer.active /\ Quiet
    BY <1>0, <1>11 DEF Timer!StartThread, Timer!Go, TimerAt, Fresh, TimerTypes, Timer!Starts,
       TimerSizes
  <2>2. /\ timer' \in TimerRec /\ timer'.thread = started /\ timer'.event = timer.event
        /\ timer'.running /\ timer'.active
    BY <1>0, <1>11, <2>1 DEF Timer!StartThread, TimerRec, Timer!Starts, TimerTypes
  <2>3. /\ host' \in [Timer!Starts -> HostRec] /\ host'[started].pc = "begin"
        /\ \A k \in Timer!Starts : k # started => host'[k] = host[k]
    BY <1>0, <1>11, <2>1 DEF Timer!StartThread, Timer!To, TimerTypes, HostRec, LivePcs
  <2>4. ~Quiet'
    BY <2>1, <2>3 DEF Quiet, LivePcs
  <2> QED BY <1>0, <1>2, <1>11, <2>1, <2>2, <2>3, <2>4
          DEF Timer!StartThread, Timer!Go, TimerTypes, TimerAt, Fresh, Quiet
<1> QED BY <1>5, <1>6, <1>7, <1>8, <1>9, <1>10, <1>11

LEMMA TimerNext == TimerSizes /\ TimerInv /\ [Timer!Next]_(Timer!timerVars) => TimerInv'
<1> SUFFICES ASSUME TimerSizes, TimerInv, [Timer!Next]_(Timer!timerVars) PROVE TimerInv'
  OBVIOUS
<1>1. CASE UNCHANGED Timer!timerVars
  BY <1>1 DEF Timer!timerVars, TimerInv, TimerTypes, TimerAt, Quiet, Fresh
<1>2. CASE Timer!QueueChanges
  <2>1. equeue' \in [active : BOOLEAN, count : 0..Capacity]
    <3>0. equeue \in [active : BOOLEAN, count : 0..Capacity] /\ Capacity \in Nat
      BY DEF TimerInv, TimerTypes, TimerSizes
    <3>1. CASE equeue.count > 0 /\ equeue' = [equeue EXCEPT !.count = @ - 1]
      <4>1. equeue.count - 1 \in 0..Capacity
        BY <3>0, <3>1
      <4> QED BY <3>0, <3>1, <4>1
    <3>2. PICK zero \in 0..Capacity : zero = 0
      BY <3>0
    <3>3. \A b \in BOOLEAN : [active |-> b, count |-> zero] \in [active : BOOLEAN, count : 0..Capacity]
      OBVIOUS
    <3>4. CASE \E b \in BOOLEAN : equeue' = [active |-> b, count |-> zero]
      BY <3>3, <3>4
    <3>5. \/ equeue' = [equeue EXCEPT !.count = @ - 1] /\ equeue.count > 0
          \/ \E b \in BOOLEAN : equeue' = [active |-> b, count |-> zero]
      BY <1>2, <3>2 DEF Timer!QueueChanges
    <3> QED BY <3>1, <3>4, <3>5
  <2> QED BY <1>2, <2>1 DEF Timer!QueueChanges, TimerInv, TimerTypes, TimerAt, Quiet, Fresh
<1>3. ASSUME NEW h \in Timer!Starts, Timer!Host(h) PROVE TimerInv'
  BY <1>3, HostKeeps
<1> QED BY <1>1, <1>2, <1>3, CallKeeps DEF Timer!Next

(* A timer has at most one host thread, and between the calls it has one exactly while
   it runs: none is left that could send or clear running under a later start. *)
THEOREM StoppedIsQuiet == TimerSizes => (Timer!Spec => []Timer!StopIsQuiet)
<1> SUFFICES ASSUME TimerSizes PROVE Timer!Spec => []Timer!StopIsQuiet
  OBVIOUS
<1>1. Timer!Init => TimerInv
  BY TimerInit
<1>2. TimerInv /\ [Timer!Next]_(Timer!timerVars) => TimerInv'
  BY TimerNext
<1>3. TimerInv => Timer!StopIsQuiet
  BY TimerFollows
<1> QED BY <1>1, <1>2, <1>3, PTL DEF Timer!Spec

-----------------------------------------------------------------------------
(* SPU thread groups *)

\* Some groups and threads, and a guest that starts a group again, changes it or destroys
\* it after its host threads have ended.
GroupSizes ==
    /\ NumGroups \in Nat \ {0} /\ NumThreads \in Nat \ {0} /\ Size \in Nat \ {0}
    /\ MaxRuns \in Nat /\ MaxGroups \in Nat /\ Statuses \subseteq Int /\ Eager = FALSE

Live     == {"runs", "stopped", "cleared"}
Working  == {"runs", "stopped"}
Starting == {"start", "started"}

GroupRec == [id : 0..MaxGroups, state : {"init", "running", "stopped"},
             index : [Spu!Members -> Spu!Slots], given : SUBSET Spu!Members, status : Int,
             cause : {"none", "all", "exit", "terminated"},
             joiner : BOOLEAN, runQueue : BOOLEAN]
SpuRec   == [inUse : BOOLEAN, running : BOOLEAN, status : Int, event : BOOLEAN, code : BOOLEAN]
RunRec   == [pc : Live \cup {"none", "ended"}, slot : Spu!Slots, group : Nat]
SCallRec == [pc : Starting \cup {"idle", "take", "join", "joined", "report"}, group : Spu!Groups,
             member : Spu!Members, worst : Int, spawned : Nat]

GroupTypes ==
    /\ groups \in [Spu!Groups -> GroupRec]
    /\ sthreads \in [Spu!Slots -> SpuRec]
    /\ runs \in [Spu!Runs -> RunRec]
    /\ nextRun \in 1 .. MaxRuns + 1 /\ nextGroup \in 1 .. MaxGroups + 1
    /\ scall \in [Callers -> SCallRec]

Exists(g)   == groups[g].id # 0
Complete(g) == groups[g].id # 0 /\ groups[g].given = Spu!Members
Of(g, i)    == groups[g].index[i]

\* Groups have ids and slots of their own.
GroupsApart ==
    /\ \A g \in Spu!Groups : groups[g].id < nextGroup
    /\ \A g, h \in Spu!Groups : Exists(g) /\ groups[g].id = groups[h].id => g = h
    /\ \A g \in Spu!Groups : Exists(g) => \A i \in groups[g].given : sthreads[Of(g, i)].inUse
    /\ \A g, h \in Spu!Groups : Exists(g) /\ Exists(h) =>
          \A i \in groups[g].given, j \in groups[h].given : Of(g, i) = Of(h, j) => g = h /\ i = j

\* A host thread has a slot of its group to itself, marked running until it is over.
RunTrue(x) ==
    /\ runs[x].pc # "none" => x < nextRun
    /\ runs[x].pc \in Live =>
          /\ \E g \in Spu!Groups : Complete(g) /\ groups[g].id = runs[x].group
                               /\ \E i \in Spu!Members : Of(g, i) = runs[x].slot
          /\ \A y \in Spu!Runs : runs[y].pc \in Live /\ runs[y].slot = runs[x].slot => x = y
    /\ runs[x].pc \in Working => sthreads[runs[x].slot].running /\ ~sthreads[runs[x].slot].event

\* A call has its group whole, and a start has it alone.
Engaged(c) ==
    /\ scall[c].pc # "idle" => Complete(scall[c].group)
    /\ \A d \in Callers : c # d /\ scall[c].pc \in Starting /\ scall[d].pc # "idle" =>
          scall[c].group # scall[d].group

\* The members that the call is through with, and the statuses there.
Done(c) == {i \in Spu!Members : scall[c].pc \in {"started", "joined"} \/ i < scall[c].member}
StatusesOf(g, D) == {0} \cup {sthreads[Of(g, i)].status : i \in D}
Least(w, S) == w \in S /\ \A y \in S : w <= y

\* The host threads of a group being started are those the start has made.
StartTrue(c) ==
    scall[c].pc \in Starting =>
       /\ \A x \in Spu!Running(scall[c].group, Live) :
             \E i \in Done(c) : runs[x].slot = Of(scall[c].group, i)
       /\ scall[c].spawned = 0 =>
             /\ Spu!Running(scall[c].group, Live) = {}
             /\ \A i \in Done(c) : sthreads[Of(scall[c].group, i)].status = 0
       /\ groups[scall[c].group].cause = "all" => groups[scall[c].group].state = "running"

\* Behind a join nothing works any more, and it carries the worst status from there.
JoinTrue(c) ==
    /\ scall[c].pc = "take" => scall[c].member = 1 /\ scall[c].worst = 0
    /\ scall[c].pc \in {"join", "joined"} =>
          /\ \A x \in Spu!Running(scall[c].group, Working), i \in Done(c) :
                runs[x].slot # Of(scall[c].group, i)
          /\ Least(scall[c].worst, StatusesOf(scall[c].group, Done(c)))
    /\ scall[c].pc = "report" => groups[scall[c].group].state # "running"

\* What "all threads exited" says of a group that no start has begun again.
Settled(g) ==
    Exists(g) /\ groups[g].cause = "all" /\ groups[g].state # "running" =>
       /\ Complete(g) /\ Spu!Running(g, Working) = {}
       /\ Least(groups[g].status, StatusesOf(g, Spu!Members))

GroupInv ==
    /\ GroupTypes /\ GroupsApart
    /\ \A x \in Spu!Runs : RunTrue(x)
    /\ \A c \in Callers : Engaged(c) /\ StartTrue(c) /\ JoinTrue(c)
    /\ \A g \in Spu!Groups : Settled(g)

LEMMA GroupFollows == GroupSizes /\ GroupInv => Spu!JoinIsFinal /\ Spu!WorstReported /\ Spu!TypeOK
<1> SUFFICES ASSUME GroupSizes, GroupInv PROVE Spu!JoinIsFinal /\ Spu!WorstReported /\ Spu!TypeOK
  OBVIOUS
<1>0. GroupTypes
  BY DEF GroupInv
<1>1. Spu!TypeOK
  BY <1>0 DEF GroupTypes, Spu!TypeOK, GroupRec, RunRec, SCallRec, Live, Starting
<1>2. ASSUME NEW c \in Callers, Spu!AllEnded(c)
      PROVE  /\ Spu!Running(scall[c].group, {"runs", "stopped"}) = {}
             /\ Least(groups[scall[c].group].status, StatusesOf(scall[c].group, Spu!Members))
             /\ StatusesOf(scall[c].group, Spu!Members) \subseteq Int
  <2>1. /\ scall[c].pc = "report" /\ scall[c].group \in Spu!Groups
        /\ groups[scall[c].group].cause = "all"
    BY <1>0, <1>2 DEF Spu!AllEnded, Spu!At, GroupTypes, SCallRec
  <2>2. /\ Settled(scall[c].group) /\ Exists(scall[c].group)
        /\ groups[scall[c].group].state # "running"
    BY <2>1 DEF GroupInv, Engaged, Complete, JoinTrue, Exists
  <2>3. StatusesOf(scall[c].group, Spu!Members) \subseteq Int
    BY <1>0, <2>1 DEF GroupTypes, GroupRec, SpuRec, StatusesOf, Of
  <2> QED BY <2>1, <2>2, <2>3 DEF Settled, Working
<1>3. ASSUME NEW S \in SUBSET Int, NEW w \in S, \A y \in S : w <= y
      PROVE  w = Spu!Lowest(S)
  <2> DEFINE least == CHOOSE x \in S : \A y \in S : x <= y
  <2>1. least \in S /\ \A y \in S : least <= y
    BY <1>3
  <2>2. least = Spu!Lowest(S)
    BY DEF Spu!Lowest
  <2> HIDE DEF least
  <2>3. w <= least /\ least <= w /\ w \in Int /\ least \in Int
    BY <1>3, <2>1
  <2> QED BY <2>2, <2>3
<1>4. ASSUME NEW c \in Callers, Spu!AllEnded(c)
      PROVE  groups[scall[c].group].status = Spu!Lowest(StatusesOf(scall[c].group, Spu!Members))
  BY <1>2, <1>3, <1>4 DEF Least
<1>5. Spu!WorstReported
  BY <1>4 DEF Spu!WorstReported, StatusesOf, Of
<1> QED BY <1>1, <1>2, <1>5 DEF Spu!JoinIsFinal

LEMMA GroupInit == GroupSizes /\ Spu!Init => GroupInv
<1> SUFFICES ASSUME GroupSizes, Spu!Init PROVE GroupInv
  OBVIOUS
<1>1. Spu!NoGroup \in GroupRec /\ Spu!NoGroup.id = 0
  BY DEF GroupSizes, Spu!NoGroup, GroupRec, Spu!Slots, Spu!Members
<1>2. /\ Spu!NoThread \in SpuRec /\ Spu!NoRun \in RunRec /\ Spu!NoRun.pc = "none"
      /\ Spu!NoCall \in SCallRec /\ Spu!NoCall.pc = "idle"
  BY DEF GroupSizes, Spu!NoThread, Spu!NoRun, Spu!NoCall, SpuRec, RunRec, SCallRec, Spu!Slots,
     Spu!Groups, Spu!Members
<1>3. GroupTypes
  BY <1>1, <1>2 DEF Spu!Init, GroupTypes, GroupSizes
<1>4. GroupsApart /\ \A g \in Spu!Groups : Settled(g)
  BY <1>1 DEF Spu!Init, GroupsApart, Settled, Exists
<1>5. \A x \in Spu!Runs : RunTrue(x)
  BY <1>2 DEF Spu!Init, RunTrue, Live, Working
<1>6. \A c \in Callers : Engaged(c) /\ StartTrue(c) /\ JoinTrue(c)
  BY <1>2 DEF Spu!Init, Engaged, StartTrue, JoinTrue, Starting
<1> QED BY <1>3, <1>4, <1>5, <1>6 DEF GroupInv

-----------------------------------------------------------------------------
(* What a step leaves alone *)

LEMMA LowestIsIn == ASSUME NEW S \in SUBSET Nat, S # {} PROVE Spu!Lowest(S) \in S
  BY LeastExists DEF Spu!Lowest

SameShape(g) ==
    /\ groups'[g].id = groups[g].id /\ groups'[g].index = groups[g].index
    /\ groups'[g].given = groups[g].given
SameStatus(g, D) ==
    \A i \in D : sthreads'[groups[g].index[i]].status = sthreads[groups[g].index[i]].status

\* No host thread of g is new.
NoneNew(g) ==
    \A x \in Spu!Runs : runs'[x].pc \in Live /\ runs'[x].group = groups[g].id =>
        /\ runs[x].pc \in Live /\ runs[x].group = runs'[x].group /\ runs[x].slot = runs'[x].slot
        /\ runs'[x].pc \in Working => runs[x].pc \in Working

\* A start whose group keeps its shape, with no new host thread, is as true as it was.
LEMMA StartKept ==
  ASSUME NEW c \in Callers, StartTrue(c), scall'[c] = scall[c],
         NEW g, g = scall[c].group, SameShape(g), NoneNew(g),
         scall[c].pc \in Starting /\ scall[c].spawned = 0 => SameStatus(g, Done(c)),
         scall[c].pc \in Starting /\ groups'[g].cause = "all" => groups'[g].state = "running"
  PROVE  StartTrue(c)'
<1>1. Done(c)' = Done(c) /\ \A i : Of(g, i)' = Of(g, i)
  BY DEF Done, Of, SameShape
<1>2. \A x \in Spu!Running(g, Live)' : x \in Spu!Running(g, Live) /\ runs'[x].slot = runs[x].slot
  BY DEF Spu!Running, SameShape, NoneNew
<1> QED BY <1>1, <1>2 DEF StartTrue, SameStatus, Of

LEMMA JoinKept ==
  ASSUME NEW c \in Callers, JoinTrue(c), scall'[c] = scall[c],
         NEW g, g = scall[c].group, SameShape(g), NoneNew(g),
         scall[c].pc \in {"join", "joined"} => SameStatus(g, Done(c)),
         scall[c].pc = "report" => groups'[g].state # "running"
  PROVE  JoinTrue(c)'
<1>1. Done(c)' = Done(c) /\ \A i : Of(g, i)' = Of(g, i)
  BY DEF Done, Of, SameShape
<1>2. \A x \in Spu!Running(g, Working)' :
         x \in Spu!Running(g, Working) /\ runs'[x].slot = runs[x].slot
  BY DEF Spu!Running, SameShape, NoneNew, Live, Working
<1>3. scall[c].pc \in {"join", "joined"} => StatusesOf(g, Done(c))' = StatusesOf(g, Done(c))
  BY <1>1 DEF StatusesOf, SameStatus, Of
<1> QED BY <1>1, <1>2, <1>3 DEF JoinTrue, Least

LEMMA SettledKept ==
  ASSUME NEW g \in Spu!Groups, Settled(g), SameShape(g), NoneNew(g),
         groups'[g].cause = "all" /\ groups'[g].state # "running" =>
            /\ groups[g].cause = "all" /\ groups[g].state # "running"
            /\ groups'[g].status = groups[g].status /\ SameStatus(g, Spu!Members)
  PROVE  Settled(g)'
<1>1. \A i : Of(g, i)' = Of(g, i)
  BY DEF Of, SameShape
<1>2. \A x \in Spu!Running(g, Working)' : x \in Spu!Running(g, Working)
  BY DEF Spu!Running, SameShape, NoneNew, Live, Working
<1>3. SameStatus(g, Spu!Members) => StatusesOf(g, Spu!Members)' = StatusesOf(g, Spu!Members)
  BY <1>1 DEF StatusesOf, SameStatus, Of
<1> QED BY <1>1, <1>2, <1>3 DEF Settled, Least, Exists, Complete, SameShape

\* A live run is of the group whose slot it has.
LEMMA RunsOwned ==
  ASSUME GroupInv, NEW x \in Spu!Runs, runs[x].pc \in Live, NEW g \in Spu!Groups, Complete(g)
  PROVE  /\ runs[x].group = groups[g].id => \E i \in Spu!Members : Of(g, i) = runs[x].slot
         /\ \A i \in Spu!Members : Of(g, i) = runs[x].slot => runs[x].group = groups[g].id
  BY DEF GroupInv, RunTrue, GroupsApart, Complete, Exists

LEMMA ShapeKept ==
  ASSUME GroupInv, \A g \in Spu!Groups : SameShape(g), nextGroup' = nextGroup,
         \A s \in Spu!Slots : sthreads'[s].inUse = sthreads[s].inUse
  PROVE  GroupsApart'
<1>1. \A g \in Spu!Groups : \A i \in groups[g].given : Of(g, i)' = Of(g, i) /\ Of(g, i) \in Spu!Slots
  BY DEF GroupInv, GroupTypes, GroupRec, Of, SameShape
<1> QED BY <1>1 DEF GroupInv, GroupsApart, SameShape, Exists

LEMMA RunsKept ==
  ASSUME GroupInv, \A g \in Spu!Groups : SameShape(g), UNCHANGED <<sthreads, runs, nextRun>>
  PROVE  \A x \in Spu!Runs : RunTrue(x)'
  BY DEF GroupInv, RunTrue, SameShape, Complete, Of

LEMMA EngagedKept ==
  ASSUME GroupInv, \A g \in Spu!Groups : SameShape(g),
         \A c \in Callers : scall'[c].pc # "idle" =>
            /\ scall[c].pc # "idle" /\ scall'[c].group = scall[c].group
            /\ scall'[c].pc \in Starting => scall[c].pc \in Starting
  PROVE  \A c \in Callers : Engaged(c)'
<1>1. \A c \in Callers : scall[c].group \in Spu!Groups
  BY DEF GroupInv, GroupTypes, SCallRec
<1> QED BY <1>1 DEF GroupInv, Engaged, SameShape, Complete, Starting

\* A step that moves no host thread and changes no status of one: what is left to show.
LEMMA QuietStep ==
  ASSUME GroupInv, GroupTypes', \A g \in Spu!Groups : SameShape(g),
         UNCHANGED <<sthreads, runs, nextRun, nextGroup>>,
         NEW c \in Callers, \A d \in Callers \ {c} : scall'[d] = scall[d],
         \A d \in Callers : Engaged(d)', StartTrue(c)', JoinTrue(c)',
         \A d \in Callers \ {c} :
            /\ scall[d].pc \in Starting /\ groups'[scall[d].group].cause = "all" =>
                  groups'[scall[d].group].state = "running"
            /\ scall[d].pc = "report" => groups'[scall[d].group].state # "running",
         \A g \in Spu!Groups : Settled(g)'
  PROVE  GroupInv'
<1>1. GroupsApart' /\ \A x \in Spu!Runs : RunTrue(x)'
  BY ShapeKept, RunsKept
<1>2. \A g \in Spu!Groups : NoneNew(g) /\ \A D : SameStatus(g, D)
  BY DEF NoneNew, SameStatus
<1>3. ASSUME NEW d \in Callers \ {c} PROVE StartTrue(d)' /\ JoinTrue(d)'
  <2>1. scall[d].group \in Spu!Groups /\ StartTrue(d) /\ JoinTrue(d)
    BY DEF GroupInv, GroupTypes, SCallRec
  <2>2. StartTrue(d)'
    BY <1>2, <2>1, StartKept
  <2>3. JoinTrue(d)'
    BY <1>2, <2>1, JoinKept
  <2> QED BY <2>2, <2>3
<1> QED BY <1>1, <1>3 DEF GroupInv

\* A group whose state, cause and status rest is as settled as it was.
LEMMA QuietSettled ==
  ASSUME GroupInv, NEW g \in Spu!Groups, SameShape(g), UNCHANGED <<sthreads, runs>>,
         groups'[g].cause = "all" /\ groups'[g].state # "running" =>
            /\ groups[g].cause = "all" /\ groups[g].state # "running"
            /\ groups'[g].status = groups[g].status
  PROVE  Settled(g)'
<1>1. NoneNew(g) /\ SameStatus(g, Spu!Members)
  BY DEF NoneNew, SameStatus
<1> QED BY <1>1, SettledKept DEF GroupInv

-----------------------------------------------------------------------------
(* The calls on the record of a group *)

LEMMA OneGroup ==
  ASSUME GroupTypes, NEW g \in Spu!Groups, NEW r \in GroupRec,
         r.id = groups[g].id, r.index = groups[g].index, r.given = groups[g].given,
         groups' = [groups EXCEPT ![g] = r]
  PROVE  /\ groups' \in [Spu!Groups -> GroupRec] /\ groups'[g] = r
         /\ \A h \in Spu!Groups : SameShape(h) /\ (h # g => groups'[h] = groups[h])
  BY DEF GroupTypes, SameShape

LEMMA ConnectKept ==
  ASSUME GroupSizes, GroupInv, NEW c \in Callers, NEW g \in Spu!Groups,
         Spu!ConnectRun(c, g) \/ Spu!DisconnectRun(c, g)
  PROVE  GroupInv'
<1>0. groups \in [Spu!Groups -> GroupRec] /\ GroupTypes
  BY DEF GroupInv, GroupTypes
<1>1. PICK q \in BOOLEAN : groups' = [groups EXCEPT ![g] = [groups[g] EXCEPT !.runQueue = q]]
  BY <1>0 DEF Spu!ConnectRun, Spu!DisconnectRun
<1> DEFINE r == [groups[g] EXCEPT !.runQueue = q]
<1>2. /\ r \in GroupRec /\ r.id = groups[g].id /\ r.index = groups[g].index
      /\ r.given = groups[g].given /\ r.state = groups[g].state /\ r.cause = groups[g].cause
      /\ r.status = groups[g].status
  BY <1>0 DEF GroupRec
<1> HIDE DEF r
<1>3. /\ groups' \in [Spu!Groups -> GroupRec] /\ groups'[g] = r
      /\ \A h \in Spu!Groups : SameShape(h) /\ (h # g => groups'[h] = groups[h])
  BY <1>0, <1>1, <1>2, OneGroup DEF r
<1>4. /\ UNCHANGED <<sthreads, runs, nextRun, nextGroup, scall>>
      /\ \A h \in Spu!Groups : /\ groups'[h].state = groups[h].state
                               /\ groups'[h].cause = groups[h].cause
                               /\ groups'[h].status = groups[h].status
  BY <1>2, <1>3 DEF Spu!ConnectRun, Spu!DisconnectRun
<1>5. GroupTypes'
  BY <1>0, <1>3, <1>4 DEF GroupTypes
<1>6. \A d \in Callers : Engaged(d)'
  BY <1>3, <1>4, EngagedKept
<1>7. \A h \in Spu!Groups : Settled(h)'
  BY <1>3, <1>4, QuietSettled
<1>8. \A h \in Spu!Groups : NoneNew(h) /\ \A D : SameStatus(h, D)
  BY <1>4 DEF NoneNew, SameStatus
<1>9. \A d \in Callers : StartTrue(d) /\ JoinTrue(d) /\ scall[d].group \in Spu!Groups
  BY <1>0 DEF GroupInv, GroupTypes, SCallRec
<1>10. StartTrue(c)' /\ JoinTrue(c)'
  <2>1. scall[c].group \in Spu!Groups /\ StartTrue(c) /\ JoinTrue(c) /\ scall'[c] = scall[c]
    BY <1>4, <1>9
  <2>2. StartTrue(c)'
    BY <1>3, <1>4, <1>8, <2>1, StartKept DEF StartTrue
  <2>3. JoinTrue(c)'
    BY <1>3, <1>4, <1>8, <2>1, JoinKept DEF JoinTrue
  <2> QED BY <2>2, <2>3
<1>11. \A d \in Callers \ {c} :
            /\ scall'[d] = scall[d]
            /\ scall[d].pc \in Starting /\ groups'[scall[d].group].cause = "all" =>
                  groups'[scall[d].group].state = "running"
            /\ scall[d].pc = "report" => groups'[scall[d].group].state # "running"
  BY <1>4, <1>9 DEF StartTrue, JoinTrue
<1> QED BY <1>3, <1>4, <1>5, <1>6, <1>7, <1>10, <1>11, QuietStep

LEMMA TerminateKept ==
  ASSUME GroupSizes, GroupInv, NEW c \in Callers, NEW g \in Spu!Groups, NEW status \in Statuses,
         Spu!Terminate(c, g, status)
  PROVE  GroupInv'
<1>0. /\ groups \in [Spu!Groups -> GroupRec] /\ GroupTypes /\ status \in Int
      /\ groups[g] \in GroupRec
  BY DEF GroupInv, GroupTypes, GroupSizes
<1> DEFINE r == [groups[g] EXCEPT !.state = "stopped", !.cause = "terminated", !.status = status]
<1>1. groups' = [groups EXCEPT ![g] = r]
  BY <1>0 DEF Spu!Terminate
<1>2. /\ r \in GroupRec /\ r.id = groups[g].id /\ r.index = groups[g].index
      /\ r.given = groups[g].given /\ r.state = "stopped" /\ r.cause = "terminated"
  BY <1>0 DEF GroupRec
<1> HIDE DEF r
<1>3. /\ groups' \in [Spu!Groups -> GroupRec] /\ groups'[g] = r
      /\ \A h \in Spu!Groups : SameShape(h) /\ (h # g => groups'[h] = groups[h])
  BY <1>0, <1>1, <1>2, OneGroup
<1>4. UNCHANGED <<sthreads, runs, nextRun, nextGroup, scall>> /\ scall[c].pc = "idle"
  BY DEF Spu!Terminate, Spu!At
<1>5. GroupTypes'
  BY <1>0, <1>3, <1>4 DEF GroupTypes
<1>6. \A d \in Callers : Engaged(d)'
  BY <1>3, <1>4, EngagedKept
<1>7. \A h \in Spu!Groups : Settled(h)'
  BY <1>2, <1>3, <1>4, QuietSettled
<1>9. \A d \in Callers : StartTrue(d) /\ JoinTrue(d) /\ scall[d].group \in Spu!Groups
  BY <1>0 DEF GroupInv, GroupTypes, SCallRec
<1>10. StartTrue(c)' /\ JoinTrue(c)'
  BY <1>4 DEF StartTrue, JoinTrue, Starting
<1>11. \A d \in Callers \ {c} :
            /\ scall'[d] = scall[d]
            /\ scall[d].pc \in Starting /\ groups'[scall[d].group].cause = "all" =>
                  groups'[scall[d].group].state = "running"
            /\ scall[d].pc = "report" => groups'[scall[d].group].state # "running"
  BY <1>2, <1>3, <1>4, <1>9 DEF StartTrue, JoinTrue
<1> QED BY <1>3, <1>4, <1>5, <1>6, <1>7, <1>10, <1>11, QuietStep

LEMMA StartCallKept ==
  ASSUME GroupSizes, GroupInv, NEW c \in Callers, NEW g \in Spu!Groups, Spu!StartCall(c, g)
  PROVE  GroupInv'
<1>0. groups \in [Spu!Groups -> GroupRec] /\ GroupTypes /\ groups[g] \in GroupRec
  BY DEF GroupInv, GroupTypes
<1> DEFINE r == [groups[g] EXCEPT !.state = "running"]
<1> DEFINE k == [Spu!NoCall EXCEPT !.pc = "start", !.group = g]
<1>1. groups' = [groups EXCEPT ![g] = r] /\ scall' = [scall EXCEPT ![c] = k]
  BY <1>0 DEF Spu!StartCall
<1>2. /\ r \in GroupRec /\ r.id = groups[g].id /\ r.index = groups[g].index
      /\ r.given = groups[g].given /\ r.state = "running"
  BY <1>0 DEF GroupRec
<1>21. /\ k \in SCallRec /\ k.pc = "start" /\ k.group = g /\ k.member = 1
       /\ k.spawned = 0 /\ k.worst = 0
  <2>1. Spu!NoCall \in SCallRec /\ Spu!NoCall.member = 1 /\ Spu!NoCall.spawned = 0 /\ Spu!NoCall.worst = 0
    BY DEF Spu!NoCall, SCallRec, GroupSizes, Spu!Groups, Spu!Members
  <2> QED BY <2>1 DEF SCallRec, Starting
<1> HIDE DEF r, k
<1>3. /\ groups' \in [Spu!Groups -> GroupRec] /\ groups'[g] = r
      /\ \A h \in Spu!Groups : SameShape(h) /\ (h # g => groups'[h] = groups[h])
  BY <1>0, <1>1, <1>2, OneGroup
<1>4. UNCHANGED <<sthreads, runs, nextRun, nextGroup>> /\ scall[c].pc = "idle"
  BY DEF Spu!StartCall, Spu!MayChange, Spu!At
<1>41. scall'[c] = k /\ \A d \in Callers \ {c} : scall'[d] = scall[d]
  BY <1>0, <1>1 DEF GroupTypes
<1>5. GroupTypes'
  BY <1>0, <1>1, <1>21, <1>3, <1>4 DEF GroupTypes
<1>6. /\ \A d \in Callers : scall[d].pc # "idle" => scall[d].group # g
      /\ Spu!Running(g, Live) = {} /\ Complete(g)
  BY DEF Spu!StartCall, Spu!MayChange, GroupSizes, Live, Complete
<1>7. \A d \in Callers : StartTrue(d) /\ JoinTrue(d) /\ Engaged(d) /\ scall[d].group \in Spu!Groups
  BY <1>0 DEF GroupInv, GroupTypes, SCallRec
<1>8. \A d \in Callers : Engaged(d)'
  BY <1>21, <1>3, <1>41, <1>6, <1>7 DEF Engaged, Complete, SameShape, Starting
<1>9. \A h \in Spu!Groups : Settled(h)'
  BY <1>2, <1>3, <1>4, QuietSettled
<1>10. StartTrue(c)' /\ JoinTrue(c)'
  <2>1. Spu!Running(g, Live)' = {} /\ Done(c)' = {}
    BY <1>21, <1>3, <1>4, <1>41, <1>6 DEF Spu!Running, SameShape, Done, Spu!Members
  <2> QED BY <1>2, <1>21, <1>3, <1>41, <2>1 DEF StartTrue, JoinTrue
<1>11. \A d \in Callers \ {c} :
            /\ scall[d].pc \in Starting /\ groups'[scall[d].group].cause = "all" =>
                  groups'[scall[d].group].state = "running"
            /\ scall[d].pc = "report" => groups'[scall[d].group].state # "running"
  BY <1>3, <1>6, <1>7 DEF StartTrue, JoinTrue, Starting
<1> QED BY <1>3, <1>4, <1>41, <1>5, <1>8, <1>9, <1>10, <1>11, QuietStep

LEMMA StartReturnsKept ==
  ASSUME GroupSizes, GroupInv, NEW c \in Callers, Spu!StartReturns(c)
  PROVE  GroupInv'
<1> PICK g \in Spu!Groups : g = scall[c].group
  BY DEF GroupInv, GroupTypes, SCallRec
<1>0. groups \in [Spu!Groups -> GroupRec] /\ GroupTypes /\ groups[g] \in GroupRec
  BY DEF GroupInv, GroupTypes
<1>7. \A d \in Callers : StartTrue(d) /\ JoinTrue(d) /\ Engaged(d) /\ scall[d].group \in Spu!Groups
  BY <1>0 DEF GroupInv, GroupTypes, SCallRec
<1> DEFINE r == IF scall[c].spawned = 0
                THEN [groups[g] EXCEPT !.state = "stopped", !.cause = "all", !.status = 0]
                ELSE groups[g]
<1>1. groups' = [groups EXCEPT ![g] = r] /\ scall' = [scall EXCEPT ![c] = Spu!NoCall]
  BY <1>0 DEF Spu!StartReturns
<1>2. /\ r \in GroupRec /\ r.id = groups[g].id /\ r.index = groups[g].index
      /\ r.given = groups[g].given
      /\ scall[c].spawned = 0 => r.status = 0
      /\ scall[c].spawned # 0 => r = groups[g]
  <2>1. CASE scall[c].spawned # 0
    BY <1>0, <2>1
  <2>2. CASE scall[c].spawned = 0
    <3> PICK zero \in Int : zero = 0
      OBVIOUS
    <3> DEFINE q == [groups[g] EXCEPT !.state = "stopped", !.cause = "all", !.status = zero]
    <3>1. /\ q \in GroupRec /\ q.id = groups[g].id /\ q.index = groups[g].index
          /\ q.given = groups[g].given /\ q.status = zero
      BY <1>0 DEF GroupRec
    <3>2. r = q
      BY <2>2
    <3> HIDE DEF q, r
    <3> QED BY <2>2, <3>1, <3>2
  <2> QED BY <2>1, <2>2
<1>21. Spu!NoCall \in SCallRec /\ Spu!NoCall.pc = "idle"
  BY DEF Spu!NoCall, SCallRec, GroupSizes, Spu!Groups, Spu!Members
<1> HIDE DEF r
<1>3. /\ groups' \in [Spu!Groups -> GroupRec] /\ groups'[g] = r
      /\ \A h \in Spu!Groups : SameShape(h) /\ (h # g => groups'[h] = groups[h])
  BY <1>0, <1>1, <1>2, OneGroup
<1>4. UNCHANGED <<sthreads, runs, nextRun, nextGroup>> /\ scall[c].pc = "started"
  BY DEF Spu!StartReturns, Spu!At
<1>41. scall'[c].pc = "idle" /\ \A d \in Callers \ {c} : scall'[d] = scall[d]
  BY <1>0, <1>1, <1>21 DEF GroupTypes
<1>5. GroupTypes'
  BY <1>0, <1>1, <1>21, <1>3, <1>4 DEF GroupTypes
<1>6. \A d \in Callers \ {c} : scall[d].pc # "idle" => scall[d].group # g
  BY <1>4, <1>7 DEF Engaged, Starting
<1>8. \A d \in Callers : Engaged(d)'
  BY <1>3, <1>41, EngagedKept
<1>9. \A h \in Spu!Groups : Settled(h)'
  <2>1. CASE scall[c].spawned # 0
    BY <1>2, <1>3, <1>4, <2>1, QuietSettled
  <2>2. CASE scall[c].spawned = 0
    <3>1. ASSUME NEW h \in Spu!Groups \ {g} PROVE Settled(h)'
      BY <1>3, <1>4, QuietSettled
    <3>2. Spu!Running(g, Live) = {} /\ \A i \in Spu!Members : sthreads[Of(g, i)].status = 0
      BY <1>4, <1>7, <2>2 DEF StartTrue, Done, Starting
    <3>3. Complete(g)'
      BY <1>3, <1>4, <1>7 DEF Engaged, Complete, SameShape
    <3>4. Spu!Running(g, Working)' = {}
      BY <1>3, <1>4, <3>2 DEF Spu!Running, Live, Working, SameShape
    <3>5. \A y \in StatusesOf(g, Spu!Members)' : y = 0
      BY <1>3, <1>4, <3>2 DEF StatusesOf, SameShape, Of
    <3>6. Least(groups[g].status, StatusesOf(g, Spu!Members))'
      <4>1. groups'[g].status = 0 /\ 0 \in StatusesOf(g, Spu!Members)'
        BY <1>2, <1>3, <2>2 DEF StatusesOf
      <4>2. \A y \in StatusesOf(g, Spu!Members)' : groups'[g].status <= y
        BY <3>5, <4>1
      <4> QED BY <4>1, <4>2 DEF Least
    <3>7. Settled(g)'
      BY <3>3, <3>4, <3>6 DEF Settled
    <3> QED BY <3>1, <3>7
  <2> QED BY <2>1, <2>2
<1>10. StartTrue(c)' /\ JoinTrue(c)'
  BY <1>41 DEF StartTrue, JoinTrue, Starting
<1>11. \A d \in Callers \ {c} :
            /\ scall[d].pc \in Starting /\ groups'[scall[d].group].cause = "all" =>
                  groups'[scall[d].group].state = "running"
            /\ scall[d].pc = "report" => groups'[scall[d].group].state # "running"
  BY <1>3, <1>6, <1>7 DEF StartTrue, JoinTrue, Starting
<1> QED BY <1>3, <1>4, <1>41, <1>5, <1>8, <1>9, <1>10, <1>11, QuietStep

LEMMA JoinCallKept ==
  ASSUME GroupSizes, GroupInv, NEW c \in Callers, NEW g \in Spu!Groups, Spu!JoinCall(c, g)
  PROVE  GroupInv'
<1>0. GroupTypes
  BY DEF GroupInv
<1> DEFINE k == [Spu!NoCall EXCEPT !.pc = "take", !.group = g]
<1>1. UNCHANGED <<groups, sthreads, runs, nextRun, nextGroup>> /\ scall[c].pc = "idle"
  BY DEF Spu!JoinCall, Spu!At
<1>2. k \in SCallRec /\ k.pc = "take" /\ k.group = g /\ k.member = 1 /\ k.worst = 0
  <2>1. Spu!NoCall \in SCallRec /\ Spu!NoCall.member = 1 /\ Spu!NoCall.worst = 0
    BY DEF Spu!NoCall, SCallRec, GroupSizes, Spu!Groups, Spu!Members
  <2> QED BY <2>1 DEF SCallRec
<1>3. scall' = [scall EXCEPT ![c] = k]
  BY DEF Spu!JoinCall
<1> HIDE DEF k
<1>4. scall'[c] = k /\ \A d \in Callers \ {c} : scall'[d] = scall[d]
  BY <1>0, <1>3 DEF GroupTypes
<1>5. GroupTypes'
  BY <1>0, <1>1, <1>2, <1>3 DEF GroupTypes
<1>6. \A h \in Spu!Groups : SameShape(h)
  BY <1>1 DEF SameShape
<1>7. \A d \in Callers : StartTrue(d) /\ JoinTrue(d) /\ Engaged(d) /\ scall[d].group \in Spu!Groups
  BY <1>0 DEF GroupInv, GroupTypes, SCallRec
<1>8. Complete(g) /\ \A d \in Callers : scall[d].pc \in Starting => scall[d].group # g
  BY DEF Spu!JoinCall, Complete, Starting
<1>9. \A d \in Callers : Engaged(d)'
  BY <1>1, <1>2, <1>4, <1>7, <1>8 DEF Engaged, Complete, Starting
<1>10. \A h \in Spu!Groups : Settled(h)'
  BY <1>1, <1>6, QuietSettled
<1>11. StartTrue(c)' /\ JoinTrue(c)'
  BY <1>2, <1>4 DEF StartTrue, JoinTrue, Starting
<1>12. \A d \in Callers \ {c} :
            /\ scall[d].pc \in Starting /\ groups'[scall[d].group].cause = "all" =>
                  groups'[scall[d].group].state = "running"
            /\ scall[d].pc = "report" => groups'[scall[d].group].state # "running"
  BY <1>1, <1>7 DEF StartTrue, JoinTrue
<1> QED BY <1>1, <1>4, <1>5, <1>6, <1>9, <1>10, <1>11, <1>12, QuietStep

LEMMA JoinTakesKept ==
  ASSUME GroupSizes, GroupInv, NEW c \in Callers, Spu!JoinTakes(c)
  PROVE  GroupInv'
<1> PICK g \in Spu!Groups : g = scall[c].group
  BY DEF GroupInv, GroupTypes, SCallRec
<1> PICK st \in {"init", "running", "stopped"} : st = groups[g].state
  BY DEF GroupInv, GroupTypes, GroupRec
<1>0. groups \in [Spu!Groups -> GroupRec] /\ GroupTypes /\ groups[g] \in GroupRec
  BY DEF GroupInv, GroupTypes
<1>7. \A d \in Callers : StartTrue(d) /\ JoinTrue(d) /\ Engaged(d) /\ scall[d].group \in Spu!Groups
  BY <1>0 DEF GroupInv, GroupTypes, SCallRec
<1> DEFINE r == [groups[g] EXCEPT !.joiner = TRUE,
                                  !.state = IF st = "init" THEN "stopped" ELSE st]
<1> DEFINE k == [scall[c] EXCEPT !.pc = IF st = "running" THEN "join" ELSE "report"]
<1>1. groups' = [groups EXCEPT ![g] = r] /\ scall' = [scall EXCEPT ![c] = k]
  BY <1>0 DEF Spu!JoinTakes, GroupRec
<1>2. /\ r \in GroupRec /\ r.id = groups[g].id /\ r.index = groups[g].index
      /\ r.given = groups[g].given /\ r.status = groups[g].status /\ r.cause = groups[g].cause
      /\ r.state = IF st = "init" THEN "stopped" ELSE st
  BY <1>0 DEF GroupRec
<1>20. scall[c].pc = "take" /\ scall[c] \in SCallRec
  BY <1>0 DEF Spu!JoinTakes, Spu!At, GroupTypes
<1>21. /\ k \in SCallRec /\ k.pc = IF st = "running" THEN "join" ELSE "report"
       /\ k.group = g /\ k.member = 1 /\ k.worst = 0
  BY <1>20, <1>7 DEF SCallRec, JoinTrue
<1> HIDE DEF r, k
<1>3. /\ groups' \in [Spu!Groups -> GroupRec] /\ groups'[g] = r
      /\ \A h \in Spu!Groups : SameShape(h) /\ (h # g => groups'[h] = groups[h])
  BY <1>0, <1>1, <1>2, OneGroup
<1>4. UNCHANGED <<sthreads, runs, nextRun, nextGroup>>
  BY DEF Spu!JoinTakes
<1>41. scall'[c] = k /\ \A d \in Callers \ {c} : scall'[d] = scall[d]
  BY <1>0, <1>1 DEF GroupTypes
<1>5. GroupTypes'
  BY <1>0, <1>1, <1>21, <1>3, <1>4 DEF GroupTypes
<1>6. \A d \in Callers \ {c} : scall[d].pc \in Starting => scall[d].group # g
  BY <1>20, <1>7 DEF Engaged
<1>8. \A d \in Callers : Engaged(d)'
  BY <1>20, <1>21, <1>3, <1>41, EngagedKept DEF Starting
<1>9. \A h \in Spu!Groups : Settled(h)'
  BY <1>2, <1>3, <1>4, QuietSettled
<1>10. StartTrue(c)' /\ JoinTrue(c)'
  <2>1. k.pc = "join" => Done(c)' = {}
    BY <1>21, <1>41 DEF Done, Spu!Members
  <2>2. k.pc = "join" => StatusesOf(g, Done(c))' = {0}
    BY <2>1 DEF StatusesOf
  <2>3. k.pc = "report" => r.state # "running"
    BY <1>2, <1>21
  <2> QED BY <1>21, <1>3, <1>41, <2>1, <2>2, <2>3 DEF StartTrue, JoinTrue, Starting, Least
<1>11. \A d \in Callers \ {c} :
            /\ scall[d].pc \in Starting /\ groups'[scall[d].group].cause = "all" =>
                  groups'[scall[d].group].state = "running"
            /\ scall[d].pc = "report" => groups'[scall[d].group].state # "running"
  BY <1>2, <1>3, <1>6, <1>7 DEF StartTrue, JoinTrue
<1> QED BY <1>3, <1>4, <1>41, <1>5, <1>8, <1>9, <1>10, <1>11, QuietStep

\* The next member of a call that is at one.
LEMMA NextMemberIs ==
  ASSUME GroupSizes, GroupTypes, NEW c \in Callers, scall[c].pc \in {"start", "join"},
         NEW k, k = Spu!NextMember(c)
  PROVE  /\ k \in SCallRec /\ k.group = scall[c].group /\ k.worst = scall[c].worst
         /\ k.spawned = scall[c].spawned
         /\ scall[c].pc = "start" => k.pc \in Starting
         /\ scall[c].pc = "join" => k.pc \in {"join", "joined"}
         /\ {i \in Spu!Members : k.pc \in {"started", "joined"} \/ i < k.member}
               = Done(c) \cup {scall[c].member}
<1>1. scall[c] \in SCallRec /\ Size \in Nat \ {0} /\ scall[c].member \in Spu!Members
  BY DEF GroupTypes, GroupSizes, SCallRec
<1>2. CASE scall[c].member < Size
  <2>1. k = [scall[c] EXCEPT !.member = scall[c].member + 1] /\ scall[c].member + 1 \in Spu!Members
    BY <1>1, <1>2 DEF Spu!NextMember, Spu!Members
  <2>2. /\ k \in SCallRec /\ k.group = scall[c].group /\ k.worst = scall[c].worst
        /\ k.spawned = scall[c].spawned /\ k.pc = scall[c].pc /\ k.member = scall[c].member + 1
    BY <1>1, <2>1 DEF SCallRec
  <2> QED BY <1>1, <2>2 DEF Done, Spu!Members, Starting
<1>3. CASE ~(scall[c].member < Size)
  <2>1. k = [scall[c] EXCEPT !.pc = IF scall[c].pc = "start" THEN "started" ELSE "joined"]
    BY <1>1, <1>3 DEF Spu!NextMember, SCallRec
  <2>2. /\ k \in SCallRec /\ k.group = scall[c].group /\ k.worst = scall[c].worst
        /\ k.spawned = scall[c].spawned /\ k.member = scall[c].member
        /\ k.pc = IF scall[c].pc = "start" THEN "started" ELSE "joined"
    BY <1>1, <2>1 DEF SCallRec, Starting
  <2> QED BY <1>1, <1>3, <2>2 DEF Done, Spu!Members, Starting
<1> QED BY <1>2, <1>3

LEMMA JoinMemberKept ==
  ASSUME GroupSizes, GroupInv, NEW c \in Callers, Spu!JoinMember(c)
  PROVE  GroupInv'
<1> PICK g \in Spu!Groups : g = scall[c].group
  BY DEF GroupInv, GroupTypes, SCallRec
<1>0. GroupTypes /\ scall[c] \in SCallRec /\ scall[c].pc = "join"
  BY DEF GroupInv, GroupTypes, Spu!JoinMember, Spu!At
<1> PICK m \in Spu!Members : m = scall[c].member
  BY <1>0 DEF SCallRec
<1>1. \A d \in Callers : StartTrue(d) /\ JoinTrue(d) /\ Engaged(d) /\ scall[d].group \in Spu!Groups
  BY <1>0 DEF GroupInv, GroupTypes, SCallRec
<1>2. Complete(g) /\ Spu!Member(c) = Of(g, m) /\ Of(g, m) \in Spu!Slots
  BY <1>0, <1>1 DEF Engaged, Spu!Member, Of, GroupTypes, GroupRec
<1>3. sthreads[Of(g, m)].inUse /\ sthreads[Of(g, m)].status \in Int /\ Spu!OverFor(Of(g, m))
  BY <1>0, <1>2 DEF GroupInv, GroupsApart, Complete, Exists, GroupTypes, SpuRec, Spu!JoinMember
<1> DEFINE w == Spu!Smaller(scall[c].worst, sthreads[Of(g, m)].status)
<1> DEFINE b == Spu!NextMember(c)
<1> DEFINE k == [b EXCEPT !.worst = w]
<1>4. /\ b \in SCallRec /\ b.group = g /\ b.worst = scall[c].worst /\ b.pc \in {"join", "joined"}
      /\ {i \in Spu!Members : b.pc \in {"started", "joined"} \/ i < b.member} = Done(c) \cup {m}
  BY <1>0, NextMemberIs
<1>5. scall' = [scall EXCEPT ![c] = k] /\ UNCHANGED <<groups, sthreads, runs, nextRun, nextGroup>>
  BY <1>2, <1>3, <1>4 DEF Spu!JoinMember, SCallRec
<1>6. /\ w \in Int /\ w <= scall[c].worst /\ w <= sthreads[Of(g, m)].status
      /\ (w = scall[c].worst \/ w = sthreads[Of(g, m)].status)
  BY <1>0, <1>3 DEF Spu!Smaller, SCallRec
<1> HIDE DEF b, w
<1>7. k \in SCallRec /\ k.group = g /\ k.worst = w /\ k.pc = b.pc /\ k.member = b.member
  BY <1>4, <1>6 DEF SCallRec
<1> HIDE DEF k
<1>8. scall'[c] = k /\ \A d \in Callers \ {c} : scall'[d] = scall[d]
  BY <1>0, <1>5 DEF GroupTypes
<1>9. GroupTypes'
  BY <1>0, <1>5, <1>7 DEF GroupTypes
<1>10. \A h \in Spu!Groups : SameShape(h)
  BY <1>5 DEF SameShape
<1>11. \A d \in Callers : Engaged(d)'
  BY <1>0, <1>4, <1>7, <1>8, <1>10, EngagedKept DEF Starting
<1>12. \A h \in Spu!Groups : Settled(h)'
  BY <1>5, <1>10, QuietSettled
<1>13. StartTrue(c)' /\ JoinTrue(c)'
  <2>1. Done(c)' = Done(c) \cup {m}
    BY <1>4, <1>7, <1>8 DEF Done
  <2>2. Spu!Running(g, Working)' = Spu!Running(g, Working) /\ \A i : Of(g, i)' = Of(g, i)
    BY <1>5 DEF Spu!Running, Of
  <2>3. \A x \in Spu!Running(g, Working) : runs[x].slot # Of(g, m)
    BY <1>3 DEF Spu!Running, Spu!OverFor, GroupInv, RunTrue
  <2>4. /\ \A x \in Spu!Running(g, Working), i \in Done(c) : runs[x].slot # Of(g, i)
        /\ Least(scall[c].worst, StatusesOf(g, Done(c)))
    BY <1>0, <1>1 DEF JoinTrue
  <2>5. StatusesOf(g, Done(c))' = StatusesOf(g, Done(c)) \cup {sthreads[Of(g, m)].status}
    BY <1>5, <2>1, <2>2 DEF StatusesOf
  <2>6. StatusesOf(g, Done(c)) \subseteq Int
    <3>1. \A i \in Spu!Members : Of(g, i) \in Spu!Slots
      BY <1>0 DEF GroupTypes, GroupRec, Of
    <3> QED BY <1>0, <3>1 DEF StatusesOf, GroupTypes, SpuRec, Done
  <2>7. Least(w, StatusesOf(g, Done(c)) \cup {sthreads[Of(g, m)].status})
    <3>1. w \in StatusesOf(g, Done(c)) \cup {sthreads[Of(g, m)].status}
      BY <1>6, <2>4 DEF Least
    <3>2. ASSUME NEW y \in StatusesOf(g, Done(c)) PROVE w <= y
      <4>1. scall[c].worst <= y /\ y \in Int /\ scall[c].worst \in Int
        BY <1>0, <2>4, <2>6 DEF Least, SCallRec
      <4> QED BY <1>6, <4>1
    <3> QED BY <1>6, <3>1, <3>2 DEF Least
  <2>8. StartTrue(c)'
    BY <1>4, <1>7, <1>8 DEF StartTrue, Starting
  <2>9. JoinTrue(c)'
    <3>1. scall'[c].group = g /\ scall'[c].pc \in {"join", "joined"} /\ scall'[c].worst = w
      BY <1>4, <1>7, <1>8
    <3>2. \A x \in Spu!Running(g, Working)', i \in Done(c)' : runs'[x].slot # Of(g, i)'
      BY <1>5, <2>1, <2>2, <2>3, <2>4
    <3>3. Least(w, StatusesOf(g, Done(c))')
      BY <2>5, <2>7
    <3> QED BY <3>1, <3>2, <3>3 DEF JoinTrue, Least
  <2> QED BY <2>8, <2>9
<1>14. \A d \in Callers \ {c} :
            /\ scall[d].pc \in Starting /\ groups'[scall[d].group].cause = "all" =>
                  groups'[scall[d].group].state = "running"
            /\ scall[d].pc = "report" => groups'[scall[d].group].state # "running"
  BY <1>1, <1>5 DEF StartTrue, JoinTrue
<1> QED BY <1>5, <1>8, <1>9, <1>10, <1>11, <1>12, <1>13, <1>14, QuietStep

LEMMA JoinEndsKept ==
  ASSUME GroupSizes, GroupInv, NEW c \in Callers, Spu!JoinEnds(c)
  PROVE  GroupInv'
<1> PICK g \in Spu!Groups : g = scall[c].group
  BY DEF GroupInv, GroupTypes, SCallRec
<1>0. groups \in [Spu!Groups -> GroupRec] /\ GroupTypes /\ groups[g] \in GroupRec
  BY DEF GroupInv, GroupTypes
<1>20. scall[c].pc = "joined" /\ scall[c] \in SCallRec
  BY <1>0 DEF Spu!JoinEnds, Spu!At, GroupTypes
<1>7. \A d \in Callers : StartTrue(d) /\ JoinTrue(d) /\ Engaged(d) /\ scall[d].group \in Spu!Groups
  BY <1>0 DEF GroupInv, GroupTypes, SCallRec
<1> PICK w \in Int : w = scall[c].worst
  BY <1>20 DEF SCallRec
<1> PICK why \in {"none", "all", "exit", "terminated"} :
           why = IF groups[g].cause \in {"exit", "terminated"} THEN groups[g].cause ELSE "all"
  BY <1>0 DEF GroupRec
<1> DEFINE r == [groups[g] EXCEPT !.status = w, !.cause = why, !.state = "stopped"]
<1> DEFINE k == [scall[c] EXCEPT !.pc = "report"]
<1>1. groups' = [groups EXCEPT ![g] = r] /\ scall' = [scall EXCEPT ![c] = k]
  BY <1>0 DEF Spu!JoinEnds, GroupRec
<1>2. /\ r \in GroupRec /\ r.id = groups[g].id /\ r.index = groups[g].index
      /\ r.given = groups[g].given /\ r.status = w /\ r.cause = why /\ r.state = "stopped"
  BY <1>0 DEF GroupRec
<1>21. k \in SCallRec /\ k.pc = "report" /\ k.group = g
  BY <1>20 DEF SCallRec
<1> HIDE DEF r, k
<1>3. /\ groups' \in [Spu!Groups -> GroupRec] /\ groups'[g] = r
      /\ \A h \in Spu!Groups : SameShape(h) /\ (h # g => groups'[h] = groups[h])
  BY <1>0, <1>1, <1>2, OneGroup
<1>4. UNCHANGED <<sthreads, runs, nextRun, nextGroup>>
  BY DEF Spu!JoinEnds
<1>41. scall'[c] = k /\ \A d \in Callers \ {c} : scall'[d] = scall[d]
  BY <1>0, <1>1 DEF GroupTypes
<1>5. GroupTypes'
  BY <1>0, <1>1, <1>21, <1>3, <1>4 DEF GroupTypes
<1>6. \A d \in Callers \ {c} : scall[d].pc \in Starting => scall[d].group # g
  BY <1>20, <1>7 DEF Engaged
<1>8. \A d \in Callers : Engaged(d)'
  BY <1>20, <1>21, <1>3, <1>41, EngagedKept DEF Starting
<1>9. \A h \in Spu!Groups : Settled(h)'
  <2>1. ASSUME NEW h \in Spu!Groups \ {g} PROVE Settled(h)'
    BY <1>3, <1>4, QuietSettled
  <2>2. Done(c) = Spu!Members
    BY <1>20 DEF Done
  <2>3. /\ \A x \in Spu!Running(g, Working), i \in Spu!Members : runs[x].slot # Of(g, i)
        /\ Least(w, StatusesOf(g, Spu!Members))
    BY <1>7, <1>20, <2>2 DEF JoinTrue
  <2>4. Complete(g)
    BY <1>7, <1>20 DEF Engaged
  <2>5. Spu!Running(g, Working) = {}
    <3> SUFFICES ASSUME NEW x \in Spu!Running(g, Working) PROVE FALSE
      OBVIOUS
    <3>1. x \in Spu!Runs /\ runs[x].pc \in Live /\ runs[x].group = groups[g].id
      BY DEF Spu!Running, Working, Live
    <3> QED BY <2>3, <2>4, <3>1, RunsOwned
  <2>6. /\ Complete(g)' /\ Spu!Running(g, Working)' = {}
        /\ StatusesOf(g, Spu!Members)' = StatusesOf(g, Spu!Members) /\ groups'[g].status = w
    <3>1. Complete(g)' /\ groups'[g].status = w
      BY <1>2, <1>3, <2>4 DEF Complete, SameShape
    <3>2. Spu!Running(g, Working)' = {}
      BY <1>2, <1>3, <1>4, <2>5 DEF SameShape, Spu!Running
    <3>3. StatusesOf(g, Spu!Members)' = StatusesOf(g, Spu!Members)
      BY <1>2, <1>3, <1>4 DEF SameShape, StatusesOf, Of
    <3> QED BY <3>1, <3>2, <3>3
  <2>7. Settled(g)'
    BY <2>3, <2>6 DEF Settled, Least
  <2> QED BY <2>1, <2>7
<1>10. StartTrue(c)' /\ JoinTrue(c)'
  BY <1>2, <1>21, <1>3, <1>41 DEF StartTrue, JoinTrue, Starting
<1>11. \A d \in Callers \ {c} :
            /\ scall[d].pc \in Starting /\ groups'[scall[d].group].cause = "all" =>
                  groups'[scall[d].group].state = "running"
            /\ scall[d].pc = "report" => groups'[scall[d].group].state # "running"
  BY <1>2, <1>3, <1>6, <1>7 DEF StartTrue, JoinTrue
<1> QED BY <1>3, <1>4, <1>41, <1>5, <1>8, <1>9, <1>10, <1>11, QuietStep

LEMMA JoinReportsKept ==
  ASSUME GroupSizes, GroupInv, NEW c \in Callers, Spu!JoinReports(c)
  PROVE  GroupInv'
<1> PICK g \in Spu!Groups : g = scall[c].group
  BY DEF GroupInv, GroupTypes, SCallRec
<1>0. groups \in [Spu!Groups -> GroupRec] /\ GroupTypes /\ groups[g] \in GroupRec
  BY DEF GroupInv, GroupTypes
<1>7. \A d \in Callers : StartTrue(d) /\ JoinTrue(d) /\ Engaged(d) /\ scall[d].group \in Spu!Groups
  BY <1>0 DEF GroupInv, GroupTypes, SCallRec
<1> DEFINE r == [groups[g] EXCEPT !.joiner = FALSE]
<1>1. groups' = [groups EXCEPT ![g] = r] /\ scall' = [scall EXCEPT ![c] = Spu!NoCall]
  BY <1>0 DEF Spu!JoinReports
<1>2. /\ r \in GroupRec /\ r.id = groups[g].id /\ r.index = groups[g].index
      /\ r.given = groups[g].given /\ r.status = groups[g].status /\ r.cause = groups[g].cause
      /\ r.state = groups[g].state
  BY <1>0 DEF GroupRec
<1>21. Spu!NoCall \in SCallRec /\ Spu!NoCall.pc = "idle"
  BY DEF Spu!NoCall, SCallRec, GroupSizes, Spu!Groups, Spu!Members
<1> HIDE DEF r
<1>3. /\ groups' \in [Spu!Groups -> GroupRec] /\ groups'[g] = r
      /\ \A h \in Spu!Groups : SameShape(h) /\ (h # g => groups'[h] = groups[h])
  BY <1>0, <1>1, <1>2, OneGroup
<1>4. UNCHANGED <<sthreads, runs, nextRun, nextGroup>>
  BY DEF Spu!JoinReports
<1>41. scall'[c].pc = "idle" /\ \A d \in Callers \ {c} : scall'[d] = scall[d]
  BY <1>0, <1>1, <1>21 DEF GroupTypes
<1>5. GroupTypes'
  BY <1>0, <1>1, <1>21, <1>3, <1>4 DEF GroupTypes
<1>8. \A d \in Callers : Engaged(d)'
  BY <1>3, <1>41, EngagedKept
<1>9. \A h \in Spu!Groups : Settled(h)'
  BY <1>2, <1>3, <1>4, QuietSettled
<1>10. StartTrue(c)' /\ JoinTrue(c)'
  BY <1>41 DEF StartTrue, JoinTrue, Starting
<1>11. \A d \in Callers \ {c} :
            /\ scall[d].pc \in Starting /\ groups'[scall[d].group].cause = "all" =>
                  groups'[scall[d].group].state = "running"
            /\ scall[d].pc = "report" => groups'[scall[d].group].state # "running"
  BY <1>2, <1>3, <1>7 DEF StartTrue, JoinTrue
<1> QED BY <1>3, <1>4, <1>41, <1>5, <1>8, <1>9, <1>10, <1>11, QuietStep

-----------------------------------------------------------------------------
(* Steps on a slot *)

LEMMA IdleKept ==
  ASSUME NEW d \in Callers, scall[d].pc = "idle", scall'[d] = scall[d]
  PROVE  StartTrue(d)' /\ JoinTrue(d)'
  BY DEF StartTrue, JoinTrue, Starting

\* A start has the slot of its member to itself.
LEMMA StartAlone ==
  ASSUME GroupSizes, GroupInv, NEW c \in Callers, scall[c].pc = "start",
         NEW g \in Spu!Groups, g = scall[c].group, NEW m, m = scall[c].member
  PROVE  /\ m \in Spu!Members /\ Complete(g) /\ Spu!Member(c) = Of(g, m) /\ Of(g, m) \in Spu!Slots
         /\ sthreads[Of(g, m)].inUse
         /\ \A x \in Spu!Runs : runs[x].pc \in Live => runs[x].slot # Of(g, m)
         /\ \A h \in Spu!Groups \ {g} : Complete(h) => \A i \in Spu!Members : Of(h, i) # Of(g, m)
         /\ \A i \in Done(c) : Of(g, i) # Of(g, m)
         /\ \A d \in Callers \ {c} : scall[d].pc # "idle" =>
               scall[d].group \in Spu!Groups \ {g} /\ Complete(scall[d].group)
<1>0. GroupTypes /\ scall[c] \in SCallRec
  BY DEF GroupInv, GroupTypes
<1>1. m \in Spu!Members /\ m \in Int /\ \A i \in Done(c) : i \in Spu!Members /\ i < m /\ i # m
  BY <1>0 DEF SCallRec, Done, Spu!Members, GroupSizes
<1>2. Complete(g) /\ Spu!Member(c) = Of(g, m) /\ \A i \in Spu!Members : Of(g, i) \in Spu!Slots
  BY <1>0, <1>1 DEF GroupInv, Engaged, Spu!Member, Of, GroupTypes, GroupRec
<1>3. /\ \A i \in Spu!Members : Of(g, i) = Of(g, m) => i = m
      /\ \A h \in Spu!Groups \ {g} : Complete(h) => \A i \in Spu!Members : Of(h, i) # Of(g, m)
  BY <1>1, <1>2 DEF GroupInv, GroupsApart, Complete, Exists
<1>4. sthreads[Of(g, m)].inUse
  BY <1>1, <1>2 DEF GroupInv, GroupsApart, Complete, Exists
<1>5. \A i \in Done(c) : Of(g, i) # Of(g, m)
  BY <1>1, <1>3
<1>6. ASSUME NEW x \in Spu!Runs, runs[x].pc \in Live, runs[x].slot = Of(g, m) PROVE FALSE
  <2>1. x \in Spu!Running(g, Live)
    BY <1>1, <1>2, <1>6, RunsOwned DEF Spu!Running
  <2>2. \E i \in Done(c) : runs[x].slot = Of(g, i)
    BY <2>1 DEF GroupInv, StartTrue, Starting
  <2> QED BY <1>5, <1>6, <2>2
<1>7. \A d \in Callers \ {c} : scall[d].pc # "idle" =>
               scall[d].group \in Spu!Groups \ {g} /\ Complete(scall[d].group)
  BY <1>0 DEF GroupInv, GroupTypes, SCallRec, Engaged, Starting
<1> QED BY <1>1, <1>2, <1>3, <1>4, <1>5, <1>6, <1>7

LEMMA StartSpawnsKept ==
  ASSUME GroupSizes, GroupInv, NEW c \in Callers, Spu!StartSpawns(c)
  PROVE  GroupInv'
<1> PICK g \in Spu!Groups : g = scall[c].group
  BY DEF GroupInv, GroupTypes, SCallRec
<1> PICK m : m = scall[c].member
  OBVIOUS
<1> PICK s : s = Of(g, m)
  OBVIOUS
<1>0. GroupTypes /\ scall[c].pc = "start" /\ scall[c] \in SCallRec
  BY DEF GroupInv, GroupTypes, Spu!StartSpawns, Spu!At
<1>1. /\ m \in Spu!Members /\ Complete(g) /\ Spu!Member(c) = s /\ s \in Spu!Slots
      /\ \A x \in Spu!Runs : runs[x].pc \in Live => runs[x].slot # s
      /\ \A h \in Spu!Groups \ {g} : Complete(h) => \A i \in Spu!Members : Of(h, i) # s
      /\ \A i \in Done(c) : Of(g, i) # s
      /\ \A d \in Callers \ {c} : scall[d].pc # "idle" =>
               scall[d].group \in Spu!Groups \ {g} /\ Complete(scall[d].group)
  BY <1>0, StartAlone
<1> PICK n \in Spu!Runs : n = nextRun
  BY <1>0 DEF Spu!StartSpawns, GroupTypes, GroupSizes, Spu!Runs
<1> DEFINE b == Spu!NextMember(c)
<1> DEFINE k == [b EXCEPT !.spawned = b.spawned + 1]
<1> DEFINE t == [sthreads[s] EXCEPT !.running = TRUE, !.event = FALSE]
<1> DEFINE x0 == [pc |-> "runs", slot |-> s, group |-> groups[g].id]
<1>2. /\ b \in SCallRec /\ b.group = g /\ b.pc \in Starting
      /\ {i \in Spu!Members : b.pc \in {"started", "joined"} \/ i < b.member} = Done(c) \cup {m}
  BY <1>0, NextMemberIs
<1>3. /\ scall' = [scall EXCEPT ![c] = k] /\ sthreads' = [sthreads EXCEPT ![s] = t]
      /\ runs' = [runs EXCEPT ![n] = x0] /\ nextRun' = n + 1
      /\ groups' = groups /\ nextGroup' = nextGroup
  BY <1>0, <1>1 DEF Spu!StartSpawns, GroupTypes
<1> HIDE DEF b
<1>4. /\ k \in SCallRec /\ k.group = g /\ k.pc = b.pc /\ k.member = b.member
      /\ k.spawned # 0
  <2>1. b.spawned \in Nat
    BY <1>2 DEF SCallRec
  <2> PICK u \in Nat : u = b.spawned + 1 /\ u # 0
    BY <2>1
  <2>2. k = [b EXCEPT !.spawned = u]
    OBVIOUS
  <2> HIDE DEF k
  <2> QED BY <1>2, <2>2 DEF SCallRec
<1>5. /\ t \in SpuRec /\ t.inUse = sthreads[s].inUse /\ t.running /\ ~t.event
      /\ t.status = sthreads[s].status
  BY <1>0, <1>1 DEF GroupTypes, SpuRec
<1>6. x0 \in RunRec /\ x0.pc = "runs" /\ x0.slot = s /\ x0.group = groups[g].id
  <2>1. groups[g].id \in Nat
    BY <1>0 DEF GroupTypes, GroupRec, GroupSizes
  <2> QED BY <1>1, <2>1 DEF RunRec, Live
<1> HIDE DEF k, t, x0
<1>7. GroupTypes'
  <2>1. sthreads' \in [Spu!Slots -> SpuRec]
    BY <1>0, <1>3, <1>5 DEF GroupTypes
  <2>2. runs' \in [Spu!Runs -> RunRec]
    BY <1>0, <1>3, <1>6 DEF GroupTypes
  <2>3. scall' \in [Callers -> SCallRec]
    BY <1>0, <1>3, <1>4 DEF GroupTypes
  <2>4. nextRun' \in 1 .. MaxRuns + 1
    BY <1>3 DEF Spu!Runs, GroupSizes
  <2> QED BY <1>0, <1>3, <2>1, <2>2, <2>3, <2>4 DEF GroupTypes
<1>8. /\ scall'[c] = k /\ \A d \in Callers \ {c} : scall'[d] = scall[d]
      /\ sthreads'[s] = t /\ \A z \in Spu!Slots \ {s} : sthreads'[z] = sthreads[z]
      /\ runs'[n] = x0 /\ \A x \in Spu!Runs \ {n} : runs'[x] = runs[x]
  BY <1>0, <1>1, <1>3 DEF GroupTypes
<1>9. \A h \in Spu!Groups : SameShape(h)
  BY <1>3 DEF SameShape
<1>10. GroupsApart'
  BY <1>3, <1>5, <1>8, <1>9, ShapeKept
<1>11. runs[n].pc = "none"
  <2>1. RunTrue(n) /\ n \in Int
    BY DEF GroupInv, Spu!Runs, GroupSizes
  <2> QED BY <2>1 DEF RunTrue
<1>12. ASSUME NEW x \in Spu!Runs PROVE RunTrue(x)'
  <2>0. RunTrue(x) /\ x \in Int /\ n \in Int /\ runs[x].slot \in Spu!Slots
    BY <1>0 DEF GroupInv, Spu!Runs, GroupSizes, GroupTypes, RunRec
  <2>1. CASE x = n
    <3>1. runs'[x].slot = s /\ runs'[x].group = groups[g].id /\ x < nextRun'
      BY <1>3, <1>6, <1>8, <2>0, <2>1
    <3>2. \A y \in Spu!Runs : runs'[y].pc \in Live /\ runs'[y].slot = s => y = n
      BY <1>1, <1>8
    <3>3. Complete(g)' /\ Of(g, m)' = s /\ groups'[g].id = groups[g].id
      BY <1>1, <1>3 DEF Complete, Of
    <3> QED BY <1>1, <1>5, <1>8, <2>1, <3>1, <3>2, <3>3 DEF RunTrue
  <2>2. CASE x # n
    <3>1. /\ runs'[x] = runs[x]
          /\ runs[x].pc \in Live =>
                runs[x].slot # s /\ sthreads'[runs[x].slot] = sthreads[runs[x].slot]
      BY <1>1, <1>8, <2>0, <2>2
    <3>2. runs'[x].pc # "none" => x < nextRun'
      BY <1>3, <2>0, <3>1 DEF RunTrue
    <3>3. runs'[x].pc \in Working =>
             sthreads'[runs'[x].slot].running /\ ~sthreads'[runs'[x].slot].event
      <4>1. runs[x].pc \in Working =>
               sthreads[runs[x].slot].running /\ ~sthreads[runs[x].slot].event
        BY <2>0 DEF RunTrue
      <4>2. runs[x].pc \in Working => runs[x].pc \in Live
        BY DEF Working, Live
      <4> QED BY <3>1, <4>1, <4>2
    <3>4. runs'[x].pc \in Live =>
             /\ \E h \in Spu!Groups : Complete(h)' /\ groups'[h].id = runs'[x].group
                                  /\ \E i \in Spu!Members : Of(h, i)' = runs'[x].slot
             /\ \A y \in Spu!Runs : runs'[y].pc \in Live /\ runs'[y].slot = runs'[x].slot => x = y
      <4>1. runs[x].pc \in Live =>
               \E h \in Spu!Groups : Complete(h) /\ groups[h].id = runs[x].group
                                  /\ \E i \in Spu!Members : Of(h, i) = runs[x].slot
        BY <2>0 DEF RunTrue
      <4>2. \A h \in Spu!Groups : /\ Complete(h)' = Complete(h) /\ groups'[h].id = groups[h].id
                                 /\ \A i \in Spu!Members : Of(h, i)' = Of(h, i)
        BY <1>3 DEF Complete, Of
      <4>3. runs'[x].pc \in Live =>
               \A y \in Spu!Runs : runs'[y].pc \in Live /\ runs'[y].slot = runs'[x].slot => x = y
        BY <1>6, <1>8, <2>0, <3>1 DEF RunTrue
      <4> QED BY <3>1, <4>1, <4>2, <4>3
    <3> QED BY <3>2, <3>3, <3>4 DEF RunTrue
  <2> QED BY <2>1, <2>2
<1>13. \A d \in Callers : Engaged(d)'
  BY <1>0, <1>2, <1>4, <1>8, <1>9, EngagedKept DEF Starting
<1>14. \A h \in Spu!Groups \ {g} : Complete(h) => NoneNew(h) /\ SameStatus(h, Spu!Members)
  <2> SUFFICES ASSUME NEW h \in Spu!Groups \ {g}, Complete(h)
               PROVE  NoneNew(h) /\ SameStatus(h, Spu!Members)
    OBVIOUS
  <2>1. groups[h].id # groups[g].id
    BY <1>1 DEF GroupInv, GroupsApart, Complete, Exists
  <2>2. NoneNew(h)
    BY <1>6, <1>8, <2>1 DEF NoneNew
  <2>3. \A i \in Spu!Members : Of(h, i) \in Spu!Slots \ {s}
    BY <1>0, <1>1 DEF GroupTypes, GroupRec, Of
  <2> QED BY <1>8, <2>2, <2>3 DEF SameStatus, Of
<1>15. ASSUME NEW d \in Callers \ {c} PROVE StartTrue(d)' /\ JoinTrue(d)'
  <2>1. StartTrue(d) /\ JoinTrue(d) /\ scall'[d] = scall[d]
    BY <1>8 DEF GroupInv
  <2>2. CASE scall[d].pc = "idle"
    BY <2>1, <2>2, IdleKept
  <2>3. CASE scall[d].pc # "idle"
    <3> PICK h \in Spu!Groups \ {g} : h = scall[d].group
      BY <1>1, <2>3
    <3>1. NoneNew(h) /\ SameShape(h) /\ SameStatus(h, Done(d)) /\ groups' = groups
      BY <1>1, <1>3, <1>9, <1>14, <2>3 DEF SameStatus, Done
    <3>2. StartTrue(d)'
      BY <2>1, <3>1, StartKept DEF StartTrue
    <3>3. JoinTrue(d)'
      BY <2>1, <3>1, JoinKept DEF JoinTrue
    <3> QED BY <3>2, <3>3
  <2> QED BY <2>2, <2>3
<1>16. StartTrue(c)' /\ JoinTrue(c)'
  <2>1. Done(c)' = Done(c) \cup {m}
    BY <1>2, <1>4, <1>8 DEF Done
  <2>2. scall'[c].group = g /\ scall'[c].pc \in Starting /\ scall'[c].spawned # 0
    BY <1>2, <1>4, <1>8
  <2>3. ASSUME NEW x \in Spu!Running(g, Live)' PROVE \E i \in Done(c)' : runs'[x].slot = Of(g, i)'
    <3>1. CASE x = n
      BY <1>3, <1>6, <1>8, <2>1, <3>1 DEF Of
    <3>2. CASE x # n
      <4>1. x \in Spu!Running(g, Live) /\ runs'[x] = runs[x]
        BY <1>3, <1>8, <3>2 DEF Spu!Running
      <4>2. \E i \in Done(c) : runs[x].slot = Of(g, i)
        BY <1>0, <4>1 DEF GroupInv, StartTrue, Starting
      <4> QED BY <1>3, <2>1, <4>1, <4>2 DEF Of
    <3> QED BY <3>1, <3>2
  <2>4. groups'[g].cause = "all" => groups'[g].state = "running"
    BY <1>0, <1>3 DEF GroupInv, StartTrue, Starting
  <2>5. StartTrue(c)'
    BY <2>2, <2>3, <2>4 DEF StartTrue
  <2>6. JoinTrue(c)'
    BY <2>2 DEF JoinTrue, Starting
  <2> QED BY <2>5, <2>6
<1>17. ASSUME NEW h \in Spu!Groups PROVE Settled(h)'
  <2>1. CASE h = g
    BY <1>0, <1>3, <2>1 DEF GroupInv, StartTrue, Starting, Settled
  <2>2. CASE h # g
    <3>1. CASE Exists(h) /\ groups[h].cause = "all" /\ groups[h].state # "running"
      <4>1. Settled(h) /\ Complete(h)
        BY <3>1 DEF GroupInv, Settled
      <4> QED BY <1>3, <1>9, <1>14, <2>2, <3>1, <4>1, SettledKept
    <3>2. CASE ~(Exists(h) /\ groups[h].cause = "all" /\ groups[h].state # "running")
      BY <1>3, <3>2 DEF Settled, Exists
    <3> QED BY <3>1, <3>2
  <2> QED BY <2>1, <2>2
<1> QED BY <1>7, <1>10, <1>12, <1>13, <1>15, <1>16, <1>17 DEF GroupInv

LEMMA StartSkipsKept ==
  ASSUME GroupSizes, GroupInv, NEW c \in Callers, Spu!StartSkips(c)
  PROVE  GroupInv'
<1> PICK g \in Spu!Groups : g = scall[c].group
  BY DEF GroupInv, GroupTypes, SCallRec
<1> PICK m : m = scall[c].member
  OBVIOUS
<1> PICK s : s = Of(g, m)
  OBVIOUS
<1>0. GroupTypes /\ scall[c].pc = "start" /\ scall[c] \in SCallRec
  BY DEF GroupInv, GroupTypes, Spu!StartSkips, Spu!At
<1>1. /\ m \in Spu!Members /\ Complete(g) /\ Spu!Member(c) = s /\ s \in Spu!Slots /\ sthreads[s].inUse
      /\ \A x \in Spu!Runs : runs[x].pc \in Live => runs[x].slot # s
      /\ \A h \in Spu!Groups \ {g} : Complete(h) => \A i \in Spu!Members : Of(h, i) # s
      /\ \A i \in Done(c) : Of(g, i) # s
      /\ \A d \in Callers \ {c} : scall[d].pc # "idle" =>
               scall[d].group \in Spu!Groups \ {g} /\ Complete(scall[d].group)
  BY <1>0, StartAlone
<1> PICK zero \in Int : zero = 0
  OBVIOUS
<1> DEFINE k == Spu!NextMember(c)
<1> DEFINE t == [sthreads[s] EXCEPT !.status = zero, !.running = FALSE]
<1>2. /\ k \in SCallRec /\ k.group = g /\ k.pc \in Starting /\ k.spawned = scall[c].spawned
      /\ {i \in Spu!Members : k.pc \in {"started", "joined"} \/ i < k.member} = Done(c) \cup {m}
  BY <1>0, NextMemberIs
<1>3. /\ scall' = [scall EXCEPT ![c] = k] /\ sthreads' = [sthreads EXCEPT ![s] = t]
      /\ UNCHANGED <<groups, runs, nextRun, nextGroup>>
  BY <1>0, <1>1 DEF Spu!StartSkips, GroupTypes
<1>5. /\ t \in SpuRec /\ t.inUse = sthreads[s].inUse /\ t.status = zero
  BY <1>0, <1>1 DEF GroupTypes, SpuRec
<1> HIDE DEF k, t
<1>7. GroupTypes'
  BY <1>0, <1>2, <1>3, <1>5 DEF GroupTypes
<1>8. /\ scall'[c] = k /\ \A d \in Callers \ {c} : scall'[d] = scall[d]
      /\ sthreads'[s] = t /\ \A z \in Spu!Slots \ {s} : sthreads'[z] = sthreads[z]
  BY <1>0, <1>1, <1>3 DEF GroupTypes
<1>9. \A h \in Spu!Groups : SameShape(h) /\ NoneNew(h)
  BY <1>3 DEF SameShape, NoneNew
<1>10. GroupsApart'
  BY <1>3, <1>5, <1>8, <1>9, ShapeKept
<1>12. ASSUME NEW x \in Spu!Runs PROVE RunTrue(x)'
  <2>1. RunTrue(x) /\ runs[x].slot \in Spu!Slots /\ runs'[x] = runs[x]
    BY <1>0, <1>3 DEF GroupInv, GroupTypes, RunRec
  <2>2. runs[x].pc \in Working => sthreads'[runs[x].slot] = sthreads[runs[x].slot]
    BY <1>1, <1>8, <2>1 DEF Working, Live
  <2>3. runs'[x].pc \in Live =>
           /\ \E h \in Spu!Groups : Complete(h)' /\ groups'[h].id = runs'[x].group
                                /\ \E i \in Spu!Members : Of(h, i)' = runs'[x].slot
           /\ \A y \in Spu!Runs : runs'[y].pc \in Live /\ runs'[y].slot = runs'[x].slot => x = y
    <3>1. runs[x].pc \in Live =>
             \E h \in Spu!Groups : Complete(h) /\ groups[h].id = runs[x].group
                                /\ \E i \in Spu!Members : Of(h, i) = runs[x].slot
      BY <2>1 DEF RunTrue
    <3>2. \A h \in Spu!Groups : /\ Complete(h)' = Complete(h) /\ groups'[h].id = groups[h].id
                               /\ \A i \in Spu!Members : Of(h, i)' = Of(h, i)
      BY <1>3 DEF Complete, Of
    <3>3. runs'[x].pc \in Live =>
             \A y \in Spu!Runs : runs'[y].pc \in Live /\ runs'[y].slot = runs'[x].slot => x = y
      BY <1>3, <2>1 DEF RunTrue
    <3> QED BY <2>1, <3>1, <3>2, <3>3
  <2>4. /\ runs'[x].pc # "none" => x < nextRun'
        /\ runs'[x].pc \in Working =>
              sthreads'[runs'[x].slot].running /\ ~sthreads'[runs'[x].slot].event
    BY <1>3, <2>1, <2>2 DEF RunTrue
  <2> QED BY <2>3, <2>4 DEF RunTrue
<1>13. \A d \in Callers : Engaged(d)'
  BY <1>0, <1>2, <1>8, <1>9, EngagedKept DEF Starting
<1>14. \A h \in Spu!Groups \ {g} : Complete(h) => SameStatus(h, Spu!Members)
  <2> SUFFICES ASSUME NEW h \in Spu!Groups \ {g}, Complete(h) PROVE SameStatus(h, Spu!Members)
    OBVIOUS
  <2>3. \A i \in Spu!Members : Of(h, i) \in Spu!Slots \ {s}
    BY <1>0, <1>1 DEF GroupTypes, GroupRec, Of
  <2> QED BY <1>8, <2>3 DEF SameStatus, Of
<1>15. ASSUME NEW d \in Callers \ {c} PROVE StartTrue(d)' /\ JoinTrue(d)'
  <2>1. StartTrue(d) /\ JoinTrue(d) /\ scall'[d] = scall[d]
    BY <1>8 DEF GroupInv
  <2>2. CASE scall[d].pc = "idle"
    BY <2>1, <2>2, IdleKept
  <2>3. CASE scall[d].pc # "idle"
    <3> PICK h \in Spu!Groups \ {g} : h = scall[d].group
      BY <1>1, <2>3
    <3>1. NoneNew(h) /\ SameShape(h) /\ SameStatus(h, Done(d)) /\ groups' = groups
      BY <1>1, <1>3, <1>9, <1>14, <2>3 DEF SameStatus, Done
    <3>2. StartTrue(d)'
      BY <2>1, <3>1, StartKept DEF StartTrue
    <3>3. JoinTrue(d)'
      BY <2>1, <3>1, JoinKept DEF JoinTrue
    <3> QED BY <3>2, <3>3
  <2> QED BY <2>2, <2>3
<1>16. StartTrue(c)' /\ JoinTrue(c)'
  <2>1. Done(c)' = Done(c) \cup {m}
    BY <1>2, <1>8 DEF Done
  <2>2. /\ scall'[c].group = g /\ scall'[c].pc \in Starting /\ scall'[c].spawned = scall[c].spawned
        /\ Spu!Running(g, Live)' = Spu!Running(g, Live) /\ \A i : Of(g, i)' = Of(g, i)
    BY <1>2, <1>3, <1>8 DEF Spu!Running, Of
  <2>3. StartTrue(c)
    BY DEF GroupInv
  <2>4. scall[c].spawned = 0 => \A i \in Done(c) \cup {m} : sthreads'[Of(g, i)].status = 0
    <3>1. \A i \in Done(c) : Of(g, i) \in Spu!Slots \ {s}
      BY <1>0, <1>1 DEF GroupTypes, GroupRec, Of, Done
    <3> QED BY <1>0, <1>1, <1>5, <1>8, <2>3, <3>1 DEF StartTrue, Starting
  <2>5. StartTrue(c)'
    BY <1>0, <1>3, <2>1, <2>2, <2>3, <2>4 DEF StartTrue, Starting
  <2>6. JoinTrue(c)'
    BY <2>2 DEF JoinTrue, Starting
  <2> QED BY <2>5, <2>6
<1>17. ASSUME NEW h \in Spu!Groups PROVE Settled(h)'
  <2>1. CASE h = g
    BY <1>0, <1>3, <2>1 DEF GroupInv, StartTrue, Starting, Settled
  <2>2. CASE h # g
    <3>1. CASE Exists(h) /\ groups[h].cause = "all" /\ groups[h].state # "running"
      <4>1. Settled(h) /\ Complete(h)
        BY <3>1 DEF GroupInv, Settled
      <4> QED BY <1>3, <1>9, <1>14, <2>2, <3>1, <4>1, SettledKept
    <3>2. CASE ~(Exists(h) /\ groups[h].cause = "all" /\ groups[h].state # "running")
      BY <1>3, <3>2 DEF Settled, Exists
    <3> QED BY <3>1, <3>2
  <2> QED BY <2>1, <2>2
<1> QED BY <1>7, <1>10, <1>12, <1>13, <1>15, <1>16, <1>17 DEF GroupInv

\* A step of a live host thread on its slot, which moves no call: the flags of the slot
\* suit where the thread is then, and a status changes only while it works.
LEMMA RunStep ==
  ASSUME GroupSizes, GroupInv, NEW x \in Spu!Runs, NEW p \in Live \cup {"ended"}, NEW t \in SpuRec,
         runs[x].pc \in Live,
         p \in Working => runs[x].pc \in Working /\ t.running /\ ~t.event,
         t.inUse = sthreads[runs[x].slot].inUse,
         runs[x].pc \in Working \/ t.status = sthreads[runs[x].slot].status,
         runs' = [runs EXCEPT ![x].pc = p], sthreads' = [sthreads EXCEPT ![runs[x].slot] = t],
         UNCHANGED <<nextRun, nextGroup, scall>>, groups' \in [Spu!Groups -> GroupRec],
         \A g \in Spu!Groups : SameShape(g) /\ groups'[g].state = groups[g].state,
         \A g \in Spu!Groups : groups'[g] = groups[g] \/ groups'[g].cause = "exit"
  PROVE  GroupInv'
<1> PICK s : s = runs[x].slot
  OBVIOUS
<1>0. GroupTypes /\ s \in Spu!Slots /\ RunTrue(x)
  BY DEF GroupInv, GroupTypes, RunRec
<1> DEFINE r == [runs[x] EXCEPT !.pc = p]
<1>1. r \in RunRec /\ r.pc = p /\ r.slot = s /\ r.group = runs[x].group
  BY <1>0 DEF GroupTypes, RunRec
<1>2. runs' = [runs EXCEPT ![x] = r]
  OBVIOUS
<1> HIDE DEF r
<1>3. /\ runs'[x] = r /\ \A y \in Spu!Runs \ {x} : runs'[y] = runs[y]
      /\ sthreads'[s] = t /\ \A z \in Spu!Slots \ {s} : sthreads'[z] = sthreads[z]
  BY <1>0, <1>2 DEF GroupTypes
<1>4. GroupTypes'
  <2>1. runs' \in [Spu!Runs -> RunRec]
    BY <1>0, <1>1, <1>2 DEF GroupTypes
  <2>2. sthreads' \in [Spu!Slots -> SpuRec]
    BY <1>0 DEF GroupTypes
  <2> QED BY <1>0, <2>1, <2>2 DEF GroupTypes
<1>5. GroupsApart'
  BY <1>3, ShapeKept
<1>6. \A d \in Callers : Engaged(d)'
  BY EngagedKept
<1>7. ASSUME NEW y \in Spu!Runs PROVE RunTrue(y)'
  <2>0. RunTrue(y) /\ runs[y].slot \in Spu!Slots
    BY <1>0 DEF GroupInv, GroupTypes, RunRec
  <2>1. /\ runs'[y].slot = runs[y].slot /\ runs'[y].group = runs[y].group
        /\ runs'[y].pc \in Live => runs[y].pc \in Live
        /\ runs'[y].pc # "none" => runs[y].pc # "none"
    BY <1>1, <1>3 DEF Live
  <2>2. runs'[y].pc \in Working =>
           sthreads'[runs[y].slot].running /\ ~sthreads'[runs[y].slot].event
    <3>1. CASE y = x
      BY <1>1, <1>3, <3>1
    <3>2. CASE y # x
      <4>1. runs[y].pc \in Working => runs[y].slot # s
        BY <1>0, <3>2 DEF RunTrue, Working, Live
      <4> QED BY <1>3, <2>0, <3>2, <4>1 DEF RunTrue
    <3> QED BY <3>1, <3>2
  <2>3. \A z \in Spu!Runs : /\ runs'[z].slot = runs[z].slot
                            /\ runs'[z].pc \in Live => runs[z].pc \in Live
    BY <1>1, <1>3 DEF Live
  <2>4. \A h \in Spu!Groups : /\ (Complete(h) => Complete(h)') /\ groups'[h].id = groups[h].id
                              /\ \A i : Of(h, i)' = Of(h, i)
    BY DEF SameShape, Complete, Of
  <2>5. runs'[y].pc \in Live =>
           \E h \in Spu!Groups : /\ Complete(h)' /\ groups'[h].id = runs'[y].group
                                 /\ \E i \in Spu!Members : Of(h, i)' = runs'[y].slot
    BY <2>0, <2>1, <2>4 DEF RunTrue
  <2> QED BY <2>0, <2>1, <2>2, <2>3, <2>5 DEF RunTrue
<1>8. \A h \in Spu!Groups : NoneNew(h)
  BY <1>1, <1>3 DEF NoneNew, Live, Working
<1>9. ASSUME NEW h \in Spu!Groups, Complete(h), NEW D \in SUBSET Spu!Members,
             \A y \in Spu!Running(h, Working), i \in D : runs[y].slot # Of(h, i)
      PROVE  SameStatus(h, D)
  <2>1. \A i \in D : Of(h, i) \in Spu!Slots
    BY <1>0 DEF GroupTypes, GroupRec, Of
  <2>2. CASE runs[x].pc \in Working
    <3>1. ASSUME NEW i \in D PROVE Of(h, i) # s
      <4>1. CASE runs[x].group = groups[h].id
        BY <1>9, <2>2, <4>1 DEF Spu!Running
      <4>2. CASE runs[x].group # groups[h].id
        BY <1>9, <4>2, RunsOwned
      <4> QED BY <4>1, <4>2
    <3> QED BY <1>3, <2>1, <3>1 DEF SameStatus, Of
  <2>3. CASE runs[x].pc \notin Working
    BY <1>3, <2>1, <2>3 DEF SameStatus, Of
  <2> QED BY <2>2, <2>3
<1>10. ASSUME NEW d \in Callers PROVE StartTrue(d)' /\ JoinTrue(d)'
  <2>1. StartTrue(d) /\ JoinTrue(d) /\ scall'[d] = scall[d] /\ Engaged(d)
    BY DEF GroupInv
  <2>2. CASE scall[d].pc = "idle"
    BY <2>1, <2>2, IdleKept
  <2>3. CASE scall[d].pc # "idle"
    <3> PICK h \in Spu!Groups : h = scall[d].group
      BY <1>0 DEF GroupTypes, SCallRec
    <3>1. Complete(h) /\ Done(d) \subseteq Spu!Members /\ NoneNew(h) /\ SameShape(h)
      BY <1>8, <2>1, <2>3 DEF Engaged, Done
    <3>2. scall[d].pc \in Starting /\ scall[d].spawned = 0 => SameStatus(h, Done(d))
      <4>1. scall[d].pc \in Starting /\ scall[d].spawned = 0 => Spu!Running(h, Working) = {}
        BY <2>1 DEF StartTrue, Spu!Running, Live, Working
      <4> QED BY <1>9, <3>1, <4>1
    <3>3. scall[d].pc \in {"join", "joined"} => SameStatus(h, Done(d))
      BY <1>9, <2>1, <3>1 DEF JoinTrue
    <3>4. StartTrue(d)'
      BY <2>1, <3>1, <3>2, StartKept DEF StartTrue
    <3>5. JoinTrue(d)'
      BY <2>1, <3>1, <3>3, JoinKept DEF JoinTrue
    <3> QED BY <3>4, <3>5
  <2> QED BY <2>2, <2>3
<1>11. ASSUME NEW h \in Spu!Groups PROVE Settled(h)'
  <2>1. CASE Exists(h) /\ groups'[h].cause = "all" /\ groups'[h].state # "running"
    <3>1. groups'[h] = groups[h] /\ Settled(h) /\ Complete(h) /\ Spu!Running(h, Working) = {}
      BY <2>1 DEF GroupInv, Settled
    <3>2. SameStatus(h, Spu!Members)
      BY <1>9, <3>1
    <3> QED BY <1>8, <2>1, <3>1, <3>2, SettledKept
  <2>2. CASE ~(Exists(h) /\ groups'[h].cause = "all" /\ groups'[h].state # "running")
    BY <2>2 DEF Settled, Exists, SameShape
  <2> QED BY <2>1, <2>2
<1> QED BY <1>4, <1>5, <1>6, <1>7, <1>10, <1>11 DEF GroupInv

LEMMA RunsWork ==
  ASSUME GroupSizes, GroupInv, NEW x \in Spu!Runs,
         \/ Spu!RunClears(x) \/ Spu!RunSignals(x)
         \/ \E status \in Statuses, whole \in BOOLEAN : Spu!RunStops(x, status, whole)
  PROVE  GroupInv'
<1> PICK s \in Spu!Slots : s = runs[x].slot
  BY DEF GroupInv, GroupTypes, RunRec
<1>0. GroupTypes /\ groups \in [Spu!Groups -> GroupRec] /\ sthreads[s] \in SpuRec /\ RunTrue(x)
  BY DEF GroupInv, GroupTypes
<1>1. ASSUME Spu!RunClears(x) PROVE GroupInv'
  <2> DEFINE t == [sthreads[s] EXCEPT !.running = FALSE]
  <2>1. t \in SpuRec /\ t.inUse = sthreads[s].inUse /\ t.status = sthreads[s].status
    BY <1>0 DEF SpuRec
  <2>2. /\ runs[x].pc = "stopped" /\ runs' = [runs EXCEPT ![x].pc = "cleared"]
        /\ sthreads' = [sthreads EXCEPT ![s] = t] /\ UNCHANGED <<groups, nextRun, nextGroup, scall>>
    BY <1>0, <1>1 DEF Spu!RunClears, GroupTypes
  <2> HIDE DEF t
  <2>3. \A g \in Spu!Groups : SameShape(g) /\ groups'[g] = groups[g]
    BY <2>2 DEF SameShape
  <2> QED BY <1>0, <2>1, <2>2, <2>3, RunStep DEF Live, Working
<1>2. ASSUME Spu!RunSignals(x) PROVE GroupInv'
  <2> DEFINE t == [sthreads[s] EXCEPT !.event = TRUE]
  <2>1. t \in SpuRec /\ t.inUse = sthreads[s].inUse /\ t.status = sthreads[s].status
    BY <1>0 DEF SpuRec
  <2>2. /\ runs[x].pc = "cleared" /\ runs' = [runs EXCEPT ![x].pc = "ended"]
        /\ sthreads' = [sthreads EXCEPT ![s] = t] /\ UNCHANGED <<groups, nextRun, nextGroup, scall>>
    BY <1>0, <1>2 DEF Spu!RunSignals, GroupTypes
  <2> HIDE DEF t
  <2>3. \A g \in Spu!Groups : SameShape(g) /\ groups'[g] = groups[g]
    BY <2>2 DEF SameShape
  <2> QED BY <1>0, <2>1, <2>2, <2>3, RunStep DEF Live, Working
<1>3. ASSUME NEW status \in Statuses, NEW whole \in BOOLEAN, Spu!RunStops(x, status, whole)
      PROVE  GroupInv'
  <2> PICK v \in Int : v = IF whole THEN 0 ELSE status
    BY DEF GroupSizes
  <2> DEFINE t == [sthreads[s] EXCEPT !.status = v]
  <2>0. status \in Int
    BY DEF GroupSizes
  <2>1. /\ t \in SpuRec /\ t.inUse = sthreads[s].inUse /\ t.running = sthreads[s].running
        /\ t.event = sthreads[s].event
    BY <1>0 DEF SpuRec
  <2>2. /\ runs[x].pc = "runs" /\ runs' = [runs EXCEPT ![x].pc = "stopped"]
        /\ sthreads' = [sthreads EXCEPT ![s] = t] /\ UNCHANGED <<nextRun, nextGroup, scall>>
    BY <1>0, <1>3 DEF Spu!RunStops, GroupTypes
  <2> HIDE DEF t
  <2>3. t.running /\ ~t.event
    BY <1>0, <2>1, <2>2 DEF RunTrue, Working
  <2>4. ASSUME NEW g \in Spu!Groups
        PROVE  /\ groups'[g] \in GroupRec /\ SameShape(g) /\ groups'[g].state = groups[g].state
               /\ groups'[g] = groups[g] \/ groups'[g].cause = "exit"
    <3>1. groups[g] \in GroupRec
      BY <1>0
    <3> DEFINE r == [groups[g] EXCEPT !.status = status, !.cause = "exit"]
    <3>2. r \in GroupRec /\ r.id = groups[g].id /\ r.index = groups[g].index
          /\ r.given = groups[g].given /\ r.state = groups[g].state /\ r.cause = "exit"
      BY <2>0, <3>1 DEF GroupRec
    <3>3. groups'[g] = groups[g] \/ groups'[g] = r
      BY <1>3 DEF Spu!RunStops
    <3> HIDE DEF r
    <3> QED BY <3>1, <3>2, <3>3 DEF SameShape
  <2>5. groups' \in [Spu!Groups -> GroupRec]
    <3>1. groups' = [g \in Spu!Groups |-> groups'[g]]
      BY <1>3 DEF Spu!RunStops
    <3> QED BY <2>4, <3>1
  <2> QED BY <1>0, <2>1, <2>2, <2>3, <2>4, <2>5, RunStep DEF Live, Working
<1> QED BY <1>1, <1>2, <1>3

-----------------------------------------------------------------------------
(* Steps on a group that no call and no host thread is of *)

\* A new, a changed or a destroyed group: its members are of slots that were free or
\* its own, or it is gone.
LEMMA GroupStep ==
  ASSUME GroupSizes, GroupInv, NEW g \in Spu!Groups, GroupTypes', GroupsApart',
         \A h \in Spu!Groups \ {g} : groups'[h] = groups[h],
         \A h \in Spu!Groups \ {g}, i \in Spu!Members : Complete(h) =>
            /\ sthreads'[Of(h, i)].status = sthreads[Of(h, i)].status
            /\ sthreads'[Of(h, i)].running = sthreads[Of(h, i)].running
            /\ sthreads'[Of(h, i)].event = sthreads[Of(h, i)].event,
         Complete(g) => Spu!Running(g, Live) = {},
         \A d \in Callers : scall[d].pc # "idle" => scall[d].group # g,
         UNCHANGED <<runs, nextRun, scall>>,
         Exists(g)' => groups'[g].cause # "all" \/ groups'[g].state = "running"
  PROVE  GroupInv'
<1>0. GroupTypes
  BY DEF GroupInv
<1>1. \A h \in Spu!Groups \ {g} :
         /\ SameShape(h) /\ NoneNew(h) /\ (Complete(h) <=> Complete(h)')
         /\ (Complete(h) => SameStatus(h, Spu!Members)) /\ \A i : Of(h, i)' = Of(h, i)
  BY DEF SameShape, NoneNew, SameStatus, Complete, Of
<1>2. ASSUME NEW x \in Spu!Runs PROVE RunTrue(x)'
  <2>1. RunTrue(x) /\ runs' = runs /\ nextRun' = nextRun
    BY DEF GroupInv
  <2>2. CASE runs[x].pc \in Live
    <3>1. PICK h \in Spu!Groups : /\ Complete(h) /\ groups[h].id = runs[x].group
                                  /\ \E i \in Spu!Members : Of(h, i) = runs[x].slot
      BY <2>1, <2>2 DEF RunTrue
    <3>2. h # g
      BY <2>2, <3>1 DEF Spu!Running
    <3>3. PICK i \in Spu!Members : Of(h, i) = runs[x].slot
      BY <3>1
    <3>4. /\ sthreads'[runs[x].slot].running = sthreads[runs[x].slot].running
          /\ sthreads'[runs[x].slot].event = sthreads[runs[x].slot].event
      BY <3>1, <3>2, <3>3
    <3>5. Complete(h)' /\ groups'[h].id = runs[x].group /\ Of(h, i)' = runs[x].slot
      BY <1>1, <3>1, <3>2, <3>3 DEF SameShape
    <3> QED BY <2>1, <3>4, <3>5 DEF RunTrue
  <2>3. CASE runs[x].pc \notin Live
    BY <2>1, <2>3 DEF RunTrue, Live, Working
  <2> QED BY <2>2, <2>3
<1>3. ASSUME NEW d \in Callers PROVE Engaged(d)' /\ StartTrue(d)' /\ JoinTrue(d)'
  <2>1. Engaged(d) /\ StartTrue(d) /\ JoinTrue(d) /\ scall'[d] = scall[d] /\ scall' = scall
    BY DEF GroupInv
  <2>2. CASE scall[d].pc = "idle"
    BY <2>1, <2>2, IdleKept DEF Engaged, Starting
  <2>3. CASE scall[d].pc # "idle"
    <3> PICK h \in Spu!Groups \ {g} : h = scall[d].group
      BY <1>0, <2>3 DEF GroupTypes, SCallRec
    <3>1. /\ NoneNew(h) /\ SameShape(h) /\ Complete(h) /\ Complete(h)'
          /\ SameStatus(h, Done(d)) /\ groups'[h] = groups[h]
      BY <1>1, <2>1, <2>3 DEF Engaged, SameStatus, Done
    <3>2. StartTrue(d)'
      BY <2>1, <3>1, StartKept DEF StartTrue
    <3>3. JoinTrue(d)'
      BY <2>1, <3>1, JoinKept DEF JoinTrue
    <3>4. Engaged(d)'
      BY <2>1, <3>1 DEF Engaged
    <3> QED BY <3>2, <3>3, <3>4
  <2> QED BY <2>2, <2>3
<1>4. ASSUME NEW h \in Spu!Groups PROVE Settled(h)'
  <2>1. CASE h = g
    BY <2>1 DEF Settled
  <2>2. CASE h # g
    <3>1. CASE Exists(h) /\ groups[h].cause = "all" /\ groups[h].state # "running"
      <4>1. Settled(h) /\ Complete(h)
        BY <3>1 DEF GroupInv, Settled
      <4> QED BY <1>1, <2>2, <3>1, <4>1, SettledKept
    <3>2. CASE ~(Exists(h) /\ groups[h].cause = "all" /\ groups[h].state # "running")
      BY <2>2, <3>2 DEF Settled, Exists
    <3> QED BY <3>1, <3>2
  <2> QED BY <2>1, <2>2
<1> QED BY <1>2, <1>3, <1>4 DEF GroupInv

LEMMA CreateKept ==
  ASSUME GroupSizes, GroupInv, NEW c \in Callers, Spu!Create(c)
  PROVE  GroupInv'
<1>0. GroupTypes /\ groups \in [Spu!Groups -> GroupRec] /\ nextGroup \in 1..MaxGroups
  BY DEF GroupInv, GroupTypes, Spu!Create, GroupSizes
<1> DEFINE free == {g \in Spu!Groups : groups[g].id = 0}
<1>1. free \in SUBSET Nat /\ free # {}
  BY DEF Spu!Groups, Spu!Create
<1> PICK g : g = Spu!Lowest(free)
  OBVIOUS
<1>2. g \in free /\ g \in Spu!Groups /\ groups[g].id = 0
  <2>1. Spu!Lowest(free) \in free
    <3> HIDE DEF free
    <3> QED BY <1>1, LowestIsIn
  <2> QED BY <2>1
<1> PICK n \in 1..MaxGroups : n = nextGroup
  BY <1>0
<1> DEFINE r == [Spu!NoGroup EXCEPT !.id = n]
<1>3. /\ groups' = [groups EXCEPT ![g] = r] /\ nextGroup' = n + 1
      /\ UNCHANGED <<sthreads, runs, nextRun, scall>>
  BY DEF Spu!Create
<1>4. r \in GroupRec /\ r.id = n /\ r.given = {} /\ r.cause = "none" /\ n # 0
  <2>1. Spu!NoGroup \in GroupRec /\ Spu!NoGroup.given = {} /\ Spu!NoGroup.cause = "none"
    BY DEF GroupSizes, Spu!NoGroup, GroupRec, Spu!Slots, Spu!Members
  <2> QED BY <2>1 DEF GroupRec, GroupSizes
<1> HIDE DEF r, free
<1>5. groups'[g] = r /\ \A h \in Spu!Groups \ {g} : groups'[h] = groups[h]
  BY <1>0, <1>2, <1>3
<1>6. GroupTypes'
  <2>1. groups' \in [Spu!Groups -> GroupRec]
    BY <1>0, <1>3, <1>4
  <2>2. nextGroup' \in 1 .. MaxGroups + 1
    BY <1>0, <1>3 DEF GroupSizes
  <2> QED BY <1>0, <1>3, <2>1, <2>2 DEF GroupTypes
<1>7. GroupsApart'
  <2>0. GroupsApart
    BY DEF GroupInv
  <2>1. \A h \in Spu!Groups : groups[h].id \in Nat /\ groups[h].id < n
    BY <1>0, <2>0 DEF GroupsApart, GroupRec, GroupSizes
  <2>2. \A h \in Spu!Groups : groups'[h].id < n + 1
    BY <1>4, <1>5, <2>1
  <2>3. \A h, j \in Spu!Groups : Exists(h)' /\ groups'[h].id = groups'[j].id => h = j
    BY <1>4, <1>5, <2>0, <2>1 DEF GroupsApart, Exists
  <2>4. \A h \in Spu!Groups : Exists(h)' => \A i \in groups'[h].given : sthreads'[Of(h, i)'].inUse
    BY <1>3, <1>4, <1>5, <2>0 DEF GroupsApart, Exists, Of
  <2>5. \A h, l \in Spu!Groups : Exists(h)' /\ Exists(l)' =>
          \A i \in groups'[h].given, j \in groups'[l].given :
             Of(h, i)' = Of(l, j)' => h = l /\ i = j
    BY <1>4, <1>5, <2>0 DEF GroupsApart, Exists, Of
  <2> QED BY <1>3, <2>2, <2>3, <2>4, <2>5 DEF GroupsApart
<1>8. ~Complete(g) /\ \A d \in Callers : scall[d].pc # "idle" => scall[d].group # g
  BY <1>2 DEF Complete, GroupInv, Engaged
<1> QED BY <1>2, <1>3, <1>4, <1>5, <1>6, <1>7, <1>8, GroupStep

LEMMA InitializeKept ==
  ASSUME GroupSizes, GroupInv, NEW c \in Callers, NEW g \in Spu!Groups, NEW m \in Spu!Members,
         NEW code \in BOOLEAN, Spu!Initialize(c, g, m, code)
  PROVE  GroupInv'
<1>0. GroupTypes /\ groups[g] \in GroupRec /\ sthreads \in [Spu!Slots -> SpuRec] /\ GroupsApart
  BY DEF GroupInv, GroupTypes
<1> DEFINE free == {s \in Spu!Slots : ~sthreads[s].inUse}
<1>1. free \in SUBSET Nat /\ free # {}
  BY DEF Spu!Slots, Spu!Initialize
<1> PICK s : s = Spu!Lowest(free)
  OBVIOUS
<1>2. s \in Spu!Slots /\ ~sthreads[s].inUse
  <2>1. Spu!Lowest(free) \in free
    <3> HIDE DEF free
    <3> QED BY <1>1, LowestIsIn
  <2> QED BY <2>1
<1> DEFINE t == [Spu!NoThread EXCEPT !.inUse = TRUE, !.code = code]
<1> DEFINE r == [groups[g] EXCEPT !.index = [groups[g].index EXCEPT ![m] = s],
                                  !.given = groups[g].given \cup {m}]
<1>3. /\ sthreads' = [sthreads EXCEPT ![s] = t] /\ groups' = [groups EXCEPT ![g] = r]
      /\ UNCHANGED <<runs, nextRun, nextGroup, scall>> /\ m \notin groups[g].given
      /\ groups[g].id # 0 /\ Spu!Running(g, Live) = {}
      /\ \A d \in Callers : scall[d].pc # "idle" => scall[d].group # g
  BY <1>0 DEF Spu!Initialize, Spu!MayChange, GroupSizes, Live, GroupTypes, GroupRec
<1> HIDE DEF free
<1>4. t \in SpuRec /\ t.inUse
  <2>1. Spu!NoThread \in SpuRec
    BY DEF Spu!NoThread, SpuRec
  <2> QED BY <2>1 DEF SpuRec
<1>5. /\ r \in GroupRec /\ r.id = groups[g].id /\ r.given = groups[g].given \cup {m}
      /\ r.cause = groups[g].cause /\ r.state = groups[g].state
      /\ r.index[m] = s /\ \A i \in groups[g].given : r.index[i] = groups[g].index[i]
  <2> PICK index \in [Spu!Members -> Spu!Slots] : index = [groups[g].index EXCEPT ![m] = s]
    BY <1>0, <1>2 DEF GroupRec
  <2> PICK given \in SUBSET Spu!Members : given = groups[g].given \cup {m}
    BY <1>0 DEF GroupRec
  <2>1. r = [groups[g] EXCEPT !.index = index, !.given = given]
    OBVIOUS
  <2> HIDE DEF r
  <2>2. /\ r \in GroupRec /\ r.id = groups[g].id /\ r.given = given
        /\ r.cause = groups[g].cause /\ r.state = groups[g].state /\ r.index = index
    BY <1>0, <2>1 DEF GroupRec
  <2>3. index[m] = s /\ \A i \in groups[g].given : index[i] = groups[g].index[i]
    BY <1>0, <1>3 DEF GroupRec
  <2> QED BY <2>2, <2>3
<1> HIDE DEF r, t
<1>6. /\ groups'[g] = r /\ \A h \in Spu!Groups \ {g} : groups'[h] = groups[h]
      /\ sthreads'[s] = t /\ \A z \in Spu!Slots \ {s} : sthreads'[z] = sthreads[z]
  BY <1>0, <1>2, <1>3 DEF GroupTypes
<1>7. GroupTypes'
  <2>1. groups' \in [Spu!Groups -> GroupRec] /\ sthreads' \in [Spu!Slots -> SpuRec]
    BY <1>0, <1>3, <1>4, <1>5 DEF GroupTypes
  <2> QED BY <1>0, <1>3, <2>1 DEF GroupTypes
<1>8. \A h \in Spu!Groups : Exists(h) => \A i \in groups[h].given : Of(h, i) \in Spu!Slots \ {s}
  BY <1>0, <1>2 DEF GroupsApart, GroupTypes, GroupRec, Of
<1>9. GroupsApart'
  <2>1. \A h \in Spu!Groups : groups'[h].id = groups[h].id /\ (Exists(h)' <=> Exists(h))
    BY <1>5, <1>6 DEF Exists
  <2>2. \A h \in Spu!Groups : \A i \in groups[h].given : Of(h, i)' = Of(h, i)
    BY <1>5, <1>6 DEF Of
  <2>3. \A h \in Spu!Groups \ {g} : groups'[h].given = groups[h].given
    BY <1>6
  <2>4. Of(g, m)' = s /\ groups'[g].given = groups[g].given \cup {m}
    BY <1>5, <1>6 DEF Of
  <2>5. \A h \in Spu!Groups : Exists(h)' => \A i \in groups'[h].given : sthreads'[Of(h, i)'].inUse
    <3>1. \A h \in Spu!Groups : Exists(h) => \A i \in groups[h].given : sthreads'[Of(h, i)'].inUse
      BY <1>0, <1>6, <1>8, <2>2 DEF GroupsApart
    <3> QED BY <1>4, <1>6, <2>1, <2>3, <2>4, <3>1
  <2>6. ASSUME NEW h \in Spu!Groups, NEW l \in Spu!Groups, Exists(h)', Exists(l)',
               NEW i \in groups'[h].given, NEW j \in groups'[l].given, Of(h, i)' = Of(l, j)'
        PROVE  h = l /\ i = j
    <3>1. CASE h = g /\ i = m
      <4>1. ~(j \in groups[l].given)
        BY <1>8, <2>1, <2>2, <2>4, <2>6, <3>1
      <4> QED BY <2>3, <2>4, <3>1, <4>1
    <3>2. CASE l = g /\ j = m
      <4>1. ~(i \in groups[h].given)
        BY <1>8, <2>1, <2>2, <2>4, <2>6, <3>2
      <4> QED BY <2>3, <2>4, <3>2, <4>1
    <3>3. CASE ~(h = g /\ i = m) /\ ~(l = g /\ j = m)
      <4>1. i \in groups[h].given /\ j \in groups[l].given
        BY <2>3, <2>4, <3>3
      <4> QED BY <1>0, <2>1, <2>2, <2>6, <4>1 DEF GroupsApart
    <3> QED BY <3>1, <3>2, <3>3
  <2> QED BY <1>0, <1>3, <2>1, <2>5, <2>6 DEF GroupsApart
<1>10. \A h \in Spu!Groups \ {g}, i \in Spu!Members :
          Complete(h) => sthreads'[Of(h, i)] = sthreads[Of(h, i)]
  BY <1>6, <1>8 DEF Complete, Exists
<1>11. groups'[g].cause # "all" \/ groups'[g].state = "running"
  BY <1>3, <1>5, <1>6 DEF GroupInv, Settled, Exists, Complete
<1> QED BY <1>3, <1>6, <1>7, <1>9, <1>10, <1>11, GroupStep

LEMMA DestroyKept ==
  ASSUME GroupSizes, GroupInv, NEW c \in Callers, NEW g \in Spu!Groups, Spu!Destroy(c, g)
  PROVE  GroupInv'
<1>0. /\ GroupTypes /\ groups[g] \in GroupRec /\ groups \in [Spu!Groups -> GroupRec]
      /\ GroupsApart /\ sthreads \in [Spu!Slots -> SpuRec]
  BY DEF GroupInv, GroupTypes
<1> PICK zero \in 0..MaxGroups : zero = 0
  BY DEF GroupSizes
<1> DEFINE r == [groups[g] EXCEPT !.id = zero]
<1>1. /\ groups' = [groups EXCEPT ![g] = r] /\ UNCHANGED <<runs, nextRun, nextGroup, scall>>
      /\ Complete(g) /\ Spu!Running(g, Live) = {}
      /\ \A d \in Callers : scall[d].pc # "idle" => scall[d].group # g
  BY <1>0 DEF Spu!Destroy, Spu!MayChange, GroupSizes, Live, Complete
<1>2. r \in GroupRec /\ r.id = zero
  BY <1>0 DEF GroupRec
<1> HIDE DEF r
<1>3. groups'[g] = r /\ \A h \in Spu!Groups \ {g} : groups'[h] = groups[h]
  BY <1>0, <1>1
<1>4. ASSUME NEW s \in Spu!Slots
      PROVE  /\ sthreads'[s] \in SpuRec /\ sthreads'[s].status = sthreads[s].status
             /\ sthreads'[s].running = sthreads[s].running /\ sthreads'[s].event = sthreads[s].event
             /\ (\A i \in Spu!Members : s # Of(g, i)) => sthreads'[s] = sthreads[s]
  <2>1. sthreads[s] \in SpuRec
    BY <1>0
  <2> DEFINE t == [sthreads[s] EXCEPT !.inUse = FALSE]
  <2>2. /\ t \in SpuRec /\ t.status = sthreads[s].status /\ t.running = sthreads[s].running
        /\ t.event = sthreads[s].event
    BY <2>1 DEF SpuRec
  <2>3. /\ sthreads'[s] = sthreads[s] \/ sthreads'[s] = t
        /\ (\A i \in Spu!Members : s # Of(g, i)) => sthreads'[s] = sthreads[s]
    BY DEF Spu!Destroy, Of
  <2> HIDE DEF t
  <2> QED BY <2>1, <2>2, <2>3
<1>5. GroupTypes'
  <2>1. sthreads' = [s \in Spu!Slots |-> sthreads'[s]]
    BY DEF Spu!Destroy
  <2>2. sthreads' \in [Spu!Slots -> SpuRec]
    BY <1>4, <2>1
  <2>3. groups' \in [Spu!Groups -> GroupRec]
    BY <1>0, <1>1, <1>2
  <2> QED BY <1>0, <1>1, <2>2, <2>3 DEF GroupTypes
<1>6. \A h \in Spu!Groups \ {g} : Exists(h) =>
         \A i \in groups[h].given :
            Of(h, i) \in Spu!Slots /\ sthreads'[Of(h, i)] = sthreads[Of(h, i)]
  <2> SUFFICES ASSUME NEW h \in Spu!Groups \ {g}, Exists(h), NEW i \in groups[h].given
               PROVE  Of(h, i) \in Spu!Slots /\ sthreads'[Of(h, i)] = sthreads[Of(h, i)]
    OBVIOUS
  <2>1. Of(h, i) \in Spu!Slots
    BY <1>0 DEF GroupRec, Of
  <2>2. \A j \in Spu!Members : Of(h, i) # Of(g, j)
    BY <1>0, <1>1 DEF GroupsApart, Complete, Exists
  <2> QED BY <1>4, <2>1, <2>2
<1>7. GroupsApart'
  <2>1. /\ ~Exists(g)'
        /\ \A h \in Spu!Groups \ {g} : (Exists(h)' <=> Exists(h)) /\ \A i : Of(h, i)' = Of(h, i)
    BY <1>2, <1>3 DEF Exists, Of
  <2>2. \A h \in Spu!Groups : groups'[h].id < nextGroup'
    BY <1>0, <1>1, <1>2, <1>3 DEF GroupsApart, GroupTypes
  <2>3. \A h, l \in Spu!Groups : Exists(h)' /\ groups'[h].id = groups'[l].id => h = l
    BY <1>0, <1>2, <1>3, <2>1 DEF GroupsApart, Exists
  <2>4. \A h \in Spu!Groups : Exists(h)' => \A i \in groups'[h].given : sthreads'[Of(h, i)'].inUse
    BY <1>0, <1>3, <1>6, <2>1 DEF GroupsApart
  <2>5. \A h, l \in Spu!Groups : Exists(h)' /\ Exists(l)' =>
          \A i \in groups'[h].given, j \in groups'[l].given :
             Of(h, i)' = Of(l, j)' => h = l /\ i = j
    BY <1>0, <1>3, <2>1 DEF GroupsApart
  <2> QED BY <2>2, <2>3, <2>4, <2>5 DEF GroupsApart
<1>8. \A h \in Spu!Groups \ {g}, i \in Spu!Members :
         Complete(h) => sthreads'[Of(h, i)] = sthreads[Of(h, i)]
  BY <1>6 DEF Complete, Exists
<1>9. ~Exists(g)'
  BY <1>2, <1>3 DEF Exists
<1> QED BY <1>1, <1>3, <1>5, <1>7, <1>8, <1>9, GroupStep

LEMMA GroupNext == GroupSizes /\ GroupInv /\ [Spu!Next]_(Spu!spuVars) => GroupInv'
<1> SUFFICES ASSUME GroupSizes, GroupInv, [Spu!Next]_(Spu!spuVars) PROVE GroupInv'
  OBVIOUS
<1>1. CASE UNCHANGED Spu!spuVars
  <2>1. GroupTypes' /\ GroupsApart'
    BY <1>1 DEF Spu!spuVars, GroupInv, GroupTypes, GroupsApart, Exists, Of
  <2>2. \A x \in Spu!Runs : RunTrue(x)'
    BY <1>1 DEF Spu!spuVars, GroupInv, RunTrue, Complete, Of
  <2>3. \A c \in Callers : Engaged(c)'
    BY <1>1 DEF Spu!spuVars, GroupInv, Engaged, Complete
  <2>4. \A c \in Callers : StartTrue(c)'
    BY <1>1 DEF Spu!spuVars, GroupInv, StartTrue, Spu!Running, Done, Of
  <2>5. \A c \in Callers : JoinTrue(c)'
    <3> TAKE c \in Callers
    <3>1. JoinTrue(c) /\ scall'[c] = scall[c]
      BY <1>1 DEF Spu!spuVars, GroupInv
    <3>2. Spu!Running(scall[c].group, Working)' = Spu!Running(scall[c].group, Working)
      BY <1>1 DEF Spu!spuVars, Spu!Running
    <3>3. Done(c)' = Done(c)
      BY <1>1 DEF Spu!spuVars, Done
    <3>4. StatusesOf(scall[c].group, Done(c))' = StatusesOf(scall[c].group, Done(c))
      BY <1>1 DEF Spu!spuVars, StatusesOf, Done, Of
    <3> QED BY <1>1, <3>1, <3>2, <3>3, <3>4 DEF Spu!spuVars, JoinTrue, Of, Least
  <2>6. \A g \in Spu!Groups : Settled(g)'
    BY <1>1 DEF Spu!spuVars, GroupInv, Settled, Exists, Complete, Spu!Running, Of, StatusesOf,
       Least
  <2> QED BY <2>1, <2>2, <2>3, <2>4, <2>5, <2>6 DEF GroupInv
<1>2. ASSUME NEW c \in Callers,
             \/ Spu!Create(c) \/ Spu!StartSpawns(c) \/ Spu!StartSkips(c) \/ Spu!StartReturns(c)
             \/ Spu!JoinTakes(c) \/ Spu!JoinMember(c) \/ Spu!JoinEnds(c) \/ Spu!JoinReports(c)
      PROVE  GroupInv'
  BY <1>2, CreateKept, StartSpawnsKept, StartSkipsKept, StartReturnsKept, JoinTakesKept,
     JoinMemberKept, JoinEndsKept, JoinReportsKept
<1>3. ASSUME NEW c \in Callers, NEW g \in Spu!Groups,
             \/ Spu!Destroy(c, g) \/ Spu!ConnectRun(c, g) \/ Spu!DisconnectRun(c, g)
             \/ Spu!StartCall(c, g) \/ Spu!JoinCall(c, g)
             \/ \E status \in Statuses : Spu!Terminate(c, g, status)
             \/ \E i \in Spu!Members, code \in BOOLEAN : Spu!Initialize(c, g, i, code)
      PROVE  GroupInv'
  BY <1>3, DestroyKept, ConnectKept, StartCallKept, JoinCallKept, TerminateKept, InitializeKept
<1>4. ASSUME NEW x \in Spu!Runs,
             \/ Spu!RunClears(x) \/ Spu!RunSignals(x)
             \/ \E status \in Statuses, whole \in BOOLEAN : Spu!RunStops(x, status, whole)
      PROVE  GroupInv'
  BY <1>4, RunsWork
<1> QED BY <1>1, <1>2, <1>3, <1>4 DEF Spu!Next

(* A join of a group returns when none of its threads works any more, with the worst
   of their statuses.                                                        *)
THEOREM GroupJoinsFinal == GroupSizes => (Spu!Spec => [](Spu!JoinIsFinal /\ Spu!WorstReported))
<1> SUFFICES ASSUME GroupSizes PROVE Spu!Spec => [](Spu!JoinIsFinal /\ Spu!WorstReported)
  OBVIOUS
<1>1. Spu!Init => GroupInv
  BY GroupInit
<1>2. GroupInv /\ [Spu!Next]_(Spu!spuVars) => GroupInv'
  BY GroupNext
<1>3. GroupInv => Spu!JoinIsFinal /\ Spu!WorstReported
  BY GroupFollows
<1> QED BY <1>1, <1>2, <1>3, PTL DEF Spu!Spec

-----------------------------------------------------------------------------
(* Event flags *)

LEMMA MatchNeedsBits ==
  ASSUME NEW word, NEW less, less \subseteq word, NEW w, ~Flag!Match(word, w)
  PROVE  ~Flag!Match(less, w)
  BY DEF Flag!Match

LEMMA ClearedIsLess ==
  ASSUME NEW word, NEW w \in Flag!Wants PROVE Flag!Cleared(word, w) \subseteq word
  BY DEF Flag!Cleared, Flag!Wants, Flag!Clears

LEMMA WantTypes ==
  ASSUME NEW word \in Flag!Words PROVE Flag!NoWant \in Flag!Wants /\ [Flag!NoWant EXCEPT !.bits = word] \in Flag!Wants
  BY DEF Flag!NoWant, Flag!Wants, Flag!Words, Flag!Clears

-----------------------------------------------------------------------------
(* The invariant *)

FlagIn(S, f) == {t \in Threads : fpc[t] \in S /\ flg[t] = f}
InWait   == {"asleep", "awake", "poll", "late"}
Loop     == {"asleep", "awake", "poll"}

\* A call has a live flag; a wait in its loop is counted by a cancel exactly if the
\* generation moved since it came; a sleeper has nothing to wake for.
Fate(t) ==
    /\ fpc[t] # "idle" => active[flg[t]]
    /\ fpc[t] \in Loop => /\ snap[t] <= cancelGen[flg[t]]
                          /\ t \in counted <=> snap[t] # cancelGen[flg[t]]
    /\ fpc[t] = "asleep" => ~Flag!Match(pattern[flg[t]], want[t])
    /\ t \in counted => fpc[t] \in {"awake", "poll"}

\* Cancels under way stay within the bound of the model.
GensBounded == \A f \in Flag!Flags : cancelGen[f] + Cardinality(FlagIn({"cancel"}, f)) <= MaxGen

FInv == Flag!TypeOK /\ Flag!WaitersExact /\ GensBounded /\ \A t \in Threads : Fate(t)

LEMMA FlagInvFollows == ASSUME FInv PROVE Flag!NobodySleepsThrough /\ Flag!CancelExact
<1>1. ASSUME NEW t \in Threads PROVE Fate(t) /\ snap[t] \in Nat /\ cancelGen[flg[t]] \in Nat
  BY DEF FInv, Flag!TypeOK
<1>2. Flag!NoneMissed
  BY <1>1 DEF Flag!NoneMissed, Flag!Sleepers, Flag!MustWait, Flag!Cancelled, Fate, Loop
<1>3. Flag!CancelReaches
  BY <1>1 DEF Flag!CancelReaches, Flag!Cancelled, Fate, Loop, FInv, Flag!TypeOK
<1>4. Flag!CancelScoped
  BY <1>1 DEF Flag!CancelScoped, Flag!Cancelled, Fate, Loop
<1> QED BY <1>2, <1>3, <1>4 DEF Flag!NobodySleepsThrough, Flag!CancelExact, FInv

-----------------------------------------------------------------------------
(* What a step of t does to the others *)

\* They stay where they are, but for sleepers that it wakes.
Others(t) ==
    \A u \in Threads \ {t} :
        /\ flg'[u] = flg[u] /\ want'[u] = want[u] /\ snap'[u] = snap[u]
        /\ fpc'[u] = fpc[u] \/ (fpc[u] = "asleep" /\ fpc'[u] = "awake")

LEMMA FlagInFinite ==
  ASSUME Flag!FlagSizes, NEW S, NEW f PROVE IsFiniteSet(FlagIn(S, f)) /\ Cardinality(FlagIn(S, f)) \in Nat
  BY FS_Subset, FS_CardinalityType, SameCardinality DEF FlagIn, Flag!FlagSizes

\* The sets of threads that the counters count.
Countable(S) == S = InWait \/ S = {"cancel"}

LEMMA FlagInStays ==
  ASSUME NEW t \in Threads, Others(t), NEW S, Countable(S), NEW f,
         (fpc[t] \in S /\ flg[t] = f) <=> (fpc'[t] \in S /\ flg'[t] = f)
  PROVE  FlagIn(S, f)' = FlagIn(S, f)
  BY DEF Others, FlagIn, Countable, InWait

LEMMA FlagInEnters ==
  ASSUME Flag!FlagSizes, NEW t \in Threads, Others(t), NEW S, Countable(S), NEW f,
         ~(fpc[t] \in S /\ flg[t] = f), fpc'[t] \in S /\ flg'[t] = f
  PROVE  Cardinality(FlagIn(S, f)') = Cardinality(FlagIn(S, f)) + 1
<1>1. FlagIn(S, f)' = FlagIn(S, f) \cup {t} /\ t \notin FlagIn(S, f)
  BY DEF Others, FlagIn, Countable, InWait
<1>2. Cardinality(FlagIn(S, f) \cup {t}) = Cardinality(FlagIn(S, f)) + 1
  BY <1>1, FlagInFinite, FS_AddElement
<1> QED BY <1>1, <1>2

LEMMA FlagInLeaves ==
  ASSUME Flag!FlagSizes, NEW t \in Threads, Others(t), NEW S, Countable(S), NEW f,
         fpc[t] \in S /\ flg[t] = f, ~(fpc'[t] \in S /\ flg'[t] = f)
  PROVE  Cardinality(FlagIn(S, f)') = Cardinality(FlagIn(S, f)) - 1
<1>1. FlagIn(S, f)' = FlagIn(S, f) \ {t} /\ t \in FlagIn(S, f)
  BY DEF Others, FlagIn, Countable, InWait
<1>2. Cardinality(FlagIn(S, f) \ {t}) = Cardinality(FlagIn(S, f)) - 1
  BY <1>1, FlagInFinite, FS_RemoveElement
<1> QED BY <1>1, <1>2

\* The count of the waits of a flag follows its waits.
LEMMA FlagWaitersKept ==
  ASSUME Flag!FlagSizes, FInv, NEW t \in Threads, Others(t),
         \/ /\ fwaiters' = fwaiters
            /\ fpc[t] \in InWait <=> fpc'[t] \in InWait
            /\ fpc'[t] \in InWait => flg'[t] = flg[t]
         \/ /\ fwaiters' = [fwaiters EXCEPT ![flg[t]] = fwaiters[flg[t]] + 1]
            /\ fpc[t] \notin InWait /\ fpc'[t] \in InWait /\ flg'[t] = flg[t]
         \/ /\ fwaiters' = [fwaiters EXCEPT ![flg[t]] = fwaiters[flg[t]] - 1]
            /\ fpc[t] \in InWait /\ fpc'[t] \notin InWait
  PROVE  Flag!WaitersExact' /\ fwaiters' \in [Flag!Flags -> Nat]
<1>0. Flag!TypeOK /\ Flag!WaitersExact /\ flg[t] \in Flag!Flags /\ Countable(InWait)
      /\ fwaiters \in [Flag!Flags -> Nat]
  BY DEF FInv, Flag!TypeOK, Countable
<1>1. ASSUME NEW f \in Flag!Flags PROVE fwaiters'[f] = Cardinality(FlagIn(InWait, f)')
  <2>1. fwaiters[f] = Cardinality(FlagIn(InWait, f))
    BY <1>0, SameCardinality DEF Flag!WaitersExact, Flag!Waits, FlagIn, InWait
  <2>2. CASE ~(fpc[t] \in InWait /\ flg[t] = f) /\ fpc'[t] \in InWait /\ flg'[t] = f
    <3>1. Cardinality(FlagIn(InWait, f)') = Cardinality(FlagIn(InWait, f)) + 1
      BY <1>0, <2>2, FlagInEnters
    <3> QED BY <1>0, <2>1, <2>2, <3>1
  <2>3. CASE fpc[t] \in InWait /\ flg[t] = f /\ ~(fpc'[t] \in InWait /\ flg'[t] = f)
    <3>1. Cardinality(FlagIn(InWait, f)') = Cardinality(FlagIn(InWait, f)) - 1
      BY <1>0, <2>3, FlagInLeaves
    <3> QED BY <1>0, <2>1, <2>3, <3>1
  <2>4. CASE (fpc[t] \in InWait /\ flg[t] = f) <=> (fpc'[t] \in InWait /\ flg'[t] = f)
    <3>1. FlagIn(InWait, f)' = FlagIn(InWait, f)
      BY <1>0, <2>4, FlagInStays
    <3> QED BY <1>0, <2>1, <2>4, <3>1
  <2> QED BY <2>2, <2>3, <2>4
<1>2. \A f \in Flag!Flags : fwaiters'[f] \in Nat
  <2>1. ASSUME NEW f \in Flag!Flags PROVE Cardinality(FlagIn(InWait, f)') \in Nat
    <3>1. IsFiniteSet(FlagIn(InWait, f)')
      BY FS_Subset, SameCardinality DEF FlagIn, Flag!FlagSizes
    <3> QED BY <3>1, FS_CardinalityType
  <2> QED BY <1>1, <2>1
<1>3. fwaiters' \in [Flag!Flags -> Nat]
  BY <1>0, <1>2
<1> QED BY <1>1, <1>3, SameCardinality DEF Flag!WaitersExact, Flag!Waits, FlagIn, InWait

\* Cancels under way, when none comes.
LEMMA GensKept ==
  ASSUME Flag!FlagSizes, FInv, NEW t \in Threads, Others(t), fpc[t] # "cancel", fpc'[t] # "cancel",
         cancelGen' = cancelGen
  PROVE  GensBounded'
<1>1. \A f \in Flag!Flags : FlagIn({"cancel"}, f)' = FlagIn({"cancel"}, f)
  BY FlagInStays DEF Countable
<1> QED BY <1>1 DEF FInv, GensBounded

\* The fate of another thread, when no cancel is counted.
LEMMA FatesKept ==
  ASSUME FInv, NEW t \in Threads, Others(t), NEW u \in Threads \ {t},
         UNCHANGED <<active, cancelGen>>, u \in counted' <=> u \in counted,
         fpc'[u] = "asleep" => pattern'[flg[u]] \subseteq pattern[flg[u]]
  PROVE  Fate(u)'
<1>1. /\ Fate(u) /\ flg'[u] = flg[u] /\ want'[u] = want[u] /\ snap'[u] = snap[u]
      /\ fpc'[u] = fpc[u] \/ (fpc[u] = "asleep" /\ fpc'[u] = "awake")
  BY DEF FInv, Others
<1>2. fpc'[u] = "asleep" => fpc[u] = "asleep" /\ ~Flag!Match(pattern'[flg[u]], want[u])
  BY <1>1, MatchNeedsBits DEF Fate
<1> QED BY <1>1, <1>2 DEF Fate, Loop

-----------------------------------------------------------------------------
(* Create and destroy *)

LEMMA FlagCreateKeeps ==
  ASSUME Flag!FlagSizes, FInv, NEW t \in Threads, NEW f \in Flag!Flags, NEW word \in Flag!Words,
         Flag!FlagCreate(t, f, word)
  PROVE  FInv'
<1>1. /\ Flag!TypeOK /\ ~active[f] /\ active' = [active EXCEPT ![f] = TRUE]
      /\ pattern' = [pattern EXCEPT ![f] = word] /\ fwaiters' = [fwaiters EXCEPT ![f] = 0]
      /\ cancelGen' = [cancelGen EXCEPT ![f] = 0] /\ UNCHANGED <<fpc, flg, want, snap, counted>>
  BY DEF Flag!FlagCreate, Flag!callVars, FInv
<1>2. Flag!TypeOK'
  BY <1>1 DEF Flag!TypeOK, Flag!FlagSizes
<1>3. \A S : \A g \in Flag!Flags : FlagIn(S, g)' = FlagIn(S, g)
  BY <1>1 DEF FlagIn
<1>4. \A S : "idle" \notin S => FlagIn(S, f) = {}
  BY <1>1 DEF FInv, Fate, FlagIn
<1>5. Cardinality({}) = 0
  BY FS_EmptySet
<1>6. Flag!WaitersExact'
  <2>1. \A g \in Flag!Flags : fwaiters[g] = Cardinality(FlagIn(InWait, g))
    BY SameCardinality DEF FInv, Flag!WaitersExact, Flag!Waits, FlagIn, InWait
  <2>2. FlagIn(InWait, f) = {}
    BY <1>4 DEF InWait
  <2>3. \A g \in Flag!Flags : fwaiters'[g] = Cardinality(FlagIn(InWait, g)')
    BY <1>1, <1>3, <1>5, <2>1, <2>2 DEF Flag!TypeOK
  <2> QED BY <2>3, SameCardinality DEF Flag!WaitersExact, Flag!Waits, FlagIn, InWait
<1>7. GensBounded'
  <2>1. FlagIn({"cancel"}, f) = {}
    BY <1>4
  <2> SUFFICES ASSUME NEW g \in Flag!Flags
               PROVE  cancelGen'[g] + Cardinality(FlagIn({"cancel"}, g)') <= MaxGen
    BY DEF GensBounded
  <2>2. CASE g = f
    <3>1. cancelGen'[g] = 0 /\ MaxGen >= 0 /\ MaxGen \in Nat
      BY <1>1, <2>2 DEF Flag!TypeOK, Flag!FlagSizes
    <3>2. Cardinality(FlagIn({"cancel"}, g)') = 0
      BY <1>3, <1>5, <2>1, <2>2
    <3> QED BY <3>1, <3>2
  <2>3. CASE g # f
    <3>1. cancelGen'[g] = cancelGen[g]
      BY <1>1, <2>3 DEF Flag!TypeOK
    <3>2. FlagIn({"cancel"}, g)' = FlagIn({"cancel"}, g)
      BY <1>3
    <3> QED BY <3>1, <3>2 DEF FInv, GensBounded
  <2> QED BY <2>2, <2>3
<1>8. ASSUME NEW u \in Threads PROVE Fate(u)'
  <2>1. Fate(u) /\ flg[u] \in Flag!Flags
    BY <1>1 DEF FInv, Flag!TypeOK
  <2>2. CASE flg[u] # f
    BY <1>1, <2>1, <2>2 DEF Fate, Flag!TypeOK
  <2>3. CASE flg[u] = f
    BY <1>1, <2>1, <2>3 DEF Fate, Loop
  <2> QED BY <2>2, <2>3
<1> QED BY <1>2, <1>6, <1>7, <1>8 DEF FInv

LEMMA FlagDestroyKeeps ==
  ASSUME Flag!FlagSizes, FInv, RacyTeardown = FALSE, NEW t \in Threads, NEW f \in Flag!Flags,
         Flag!FlagDestroy(t, f)
  PROVE  FInv'
<1>1. /\ Flag!TypeOK /\ fwaiters[f] <= 0 /\ Flag!Entering(f) = {} /\ active' = [active EXCEPT ![f] = FALSE]
      /\ UNCHANGED <<pattern, fwaiters, cancelGen, fpc, flg, want, snap, counted>>
  BY DEF Flag!FlagDestroy, Flag!NoWaiters, Flag!callVars, FInv
<1>2. Flag!Waits(f) = {}
  <2>1. fwaiters[f] = Cardinality(Flag!Waits(f)) /\ fwaiters[f] \in Nat
    BY <1>1, SameCardinality DEF FInv, Flag!WaitersExact, Flag!TypeOK
  <2>2. IsFiniteSet(Flag!Waits(f))
    BY FS_Subset, SameCardinality DEF Flag!Waits, Flag!FlagSizes
  <2> QED BY <1>1, <2>1, <2>2, FS_EmptySet
<1>3. \A u \in Threads : flg[u] = f => fpc[u] = "idle"
  BY <1>1, <1>2 DEF Flag!Waits, Flag!Entering, Flag!TypeOK, Flag!PcValues
<1>4. Flag!TypeOK' /\ Flag!WaitersExact' /\ GensBounded'
  BY <1>1 DEF FInv, Flag!TypeOK, Flag!WaitersExact, Flag!Waits, GensBounded, FlagIn
<1>5. ASSUME NEW u \in Threads PROVE Fate(u)'
  <2>1. Fate(u) /\ flg[u] \in Flag!Flags
    BY <1>1 DEF FInv, Flag!TypeOK
  <2> QED BY <1>1, <1>3, <2>1 DEF Fate, Loop, Flag!TypeOK
<1> QED BY <1>4, <1>5 DEF FInv

-----------------------------------------------------------------------------
(* Calls that begin *)

LEMMA FlagBeginKeeps ==
  ASSUME Flag!FlagSizes, FInv, NEW t \in Threads, NEW f \in Flag!Flags,
         NEW n \in {"enter", "try", "set", "clear", "cancel"}, NEW w \in Flag!Wants, Flag!Begin(t, f, n, w),
         n = "cancel" =>
             cancelGen[f] + Cardinality({s \in Threads : fpc[s] = "cancel"}) < MaxGen
  PROVE  FInv'
<1>1. /\ Flag!TypeOK /\ fpc[t] = "idle" /\ active[f] /\ fpc' = [fpc EXCEPT ![t] = n]
      /\ flg' = [flg EXCEPT ![t] = f] /\ want' = [want EXCEPT ![t] = w]
      /\ UNCHANGED <<snap, counted, active, pattern, fwaiters, cancelGen>>
  BY DEF Flag!Begin, Flag!flagVars, FInv
<1>2. /\ fpc'[t] = n /\ flg'[t] = f /\ Others(t)
  BY <1>1 DEF Others, Flag!TypeOK
<1>3. Flag!TypeOK'
  BY <1>1 DEF Flag!TypeOK, Flag!PcValues
<1>4. Flag!WaitersExact'
  BY <1>1, <1>2, FlagWaitersKept DEF InWait
<1>5. GensBounded'
  <2>1. CASE n # "cancel"
    BY <1>1, <1>2, <2>1, GensKept
  <2>2. CASE n = "cancel"
    <3> SUFFICES ASSUME NEW g \in Flag!Flags
                 PROVE  cancelGen'[g] + Cardinality(FlagIn({"cancel"}, g)') <= MaxGen
      BY DEF GensBounded
    <3>1. CASE g # f
      <4>1. FlagIn({"cancel"}, g)' = FlagIn({"cancel"}, g)
        BY <1>1, <1>2, <3>1, FlagInStays DEF Countable
      <4> QED BY <1>1, <4>1 DEF FInv, GensBounded
    <3>2. CASE g = f
      <4> DEFINE C == {s \in Threads : fpc[s] = "cancel"}
      <4>1. Cardinality(FlagIn({"cancel"}, f)') = Cardinality(FlagIn({"cancel"}, f)) + 1
        BY <1>1, <1>2, <2>2, FlagInEnters DEF Countable
      <4>2. IsFiniteSet(C) /\ FlagIn({"cancel"}, f) \subseteq C
        BY FS_Subset, SameCardinality DEF FlagIn, Flag!FlagSizes
      <4>3. Cardinality(C) \in Nat /\ Cardinality(FlagIn({"cancel"}, f)) \in Nat
            /\ Cardinality(FlagIn({"cancel"}, f)) <= Cardinality(C)
        BY <4>2, FlagInFinite, FS_CardinalityType, FS_Subset
      <4>4. cancelGen[f] + Cardinality(C) < MaxGen /\ cancelGen[f] \in Nat /\ MaxGen \in Nat
        BY <1>1, <2>2 DEF Flag!TypeOK, Flag!FlagSizes
      <4>5. cancelGen'[f] = cancelGen[f]
        BY <1>1
      <4> HIDE DEF C
      <4> QED BY <3>2, <4>1, <4>3, <4>4, <4>5
    <3> QED BY <3>1, <3>2
  <2> QED BY <2>1, <2>2
<1>6. ASSUME NEW u \in Threads PROVE Fate(u)'
  <2>1. CASE u = t
    <3>1. t \notin counted
      BY <1>1 DEF FInv, Fate
    <3> QED BY <1>1, <1>2, <2>1, <3>1 DEF Fate, Loop
  <2>2. CASE u # t
    BY <1>1, <1>2, <2>2, FatesKept
  <2> QED BY <2>1, <2>2
<1> QED BY <1>3, <1>4, <1>5, <1>6 DEF FInv

LEMMA FlagCallKeeps ==
  ASSUME Flag!FlagSizes, FInv, RacyTeardown = FALSE, NEW t \in Threads, Flag!Call(t) PROVE FInv'
<1>1. PICK f \in Flag!Flags :
        \/ \E word \in Flag!Words : Flag!FlagCreate(t, f, word)
        \/ Flag!FlagDestroy(t, f)
        \/ \E w \in Asks : Flag!WaitCall(t, f, w) \/ Flag!TryCall(t, f, w)
        \/ \E word \in Flag!Words : Flag!SetCall(t, f, word) \/ Flag!ClearCall(t, f, word)
        \/ Flag!CancelCall(t, f)
  BY DEF Flag!Call
<1>2. ASSUME NEW w \in Asks, Flag!WaitCall(t, f, w) \/ Flag!TryCall(t, f, w) PROVE FInv'
  <2>1. w \in Flag!Wants
    BY DEF Flag!FlagSizes
  <2> QED BY <1>2, <2>1, FlagBeginKeeps DEF Flag!WaitCall, Flag!TryCall
<1>3. ASSUME NEW word \in Flag!Words, Flag!SetCall(t, f, word) \/ Flag!ClearCall(t, f, word) PROVE FInv'
  BY <1>3, WantTypes, FlagBeginKeeps DEF Flag!SetCall, Flag!ClearCall
<1>4. CASE Flag!CancelCall(t, f)
  <2>1. Flag!NoWant \in Flag!Wants
    BY DEF Flag!NoWant, Flag!Wants, Flag!Words, Flag!Clears
  <2> QED BY <1>4, <2>1, FlagBeginKeeps, SameCardinality DEF Flag!CancelCall
<1> QED BY <1>1, <1>2, <1>3, <1>4, FlagCreateKeeps, FlagDestroyKeeps

-----------------------------------------------------------------------------
(* Steps of a wait that goes on *)

LEMMA GoesOnKeeps ==
  ASSUME Flag!FlagSizes, FInv, NEW t \in Threads, NEW n \in InWait, NEW s \in 0 .. MaxGen,
         fpc' = [fpc EXCEPT ![t] = n], snap' = [snap EXCEPT ![t] = s],
         UNCHANGED <<active, pattern, cancelGen, flg, want, counted>>,
         \/ fwaiters' = fwaiters /\ fpc[t] \in InWait
         \/ /\ fwaiters' = [fwaiters EXCEPT ![flg[t]] = fwaiters[flg[t]] + 1]
            /\ fpc[t] \notin InWait,
         fpc[t] \notin {"idle", "cancel"},
         n = "asleep" => ~Flag!Match(pattern[flg[t]], want[t]),
         n \in Loop => \/ s = cancelGen[flg[t]] /\ t \notin counted
                       \/ s = snap[t] /\ n = "awake" /\ fpc[t] = "asleep",
         n = "late" => t \notin counted
  PROVE  FInv'
<1>1. /\ Flag!TypeOK /\ Others(t) /\ fpc'[t] = n /\ flg'[t] = flg[t] /\ snap'[t] = s /\ flg[t] \in Flag!Flags
  BY DEF Others, FInv, Flag!TypeOK
<1>2. Flag!WaitersExact' /\ fwaiters' \in [Flag!Flags -> Nat]
  BY <1>1, FlagWaitersKept
<1>3. Flag!TypeOK'
  BY <1>1, <1>2 DEF Flag!TypeOK, Flag!PcValues, InWait
<1>4. GensBounded'
  BY <1>1, GensKept DEF InWait
<1>5. ASSUME NEW u \in Threads PROVE Fate(u)'
  <2>1. CASE u = t
    <3>1. Fate(t) /\ cancelGen[flg[t]] \in Nat
      BY <1>1 DEF FInv, Flag!TypeOK
    <3> QED BY <1>1, <2>1, <3>1 DEF Fate, Loop, InWait
  <2>2. CASE u # t
    BY <1>1, <2>2, FatesKept
  <2> QED BY <2>1, <2>2
<1> QED BY <1>2, <1>3, <1>4, <1>5 DEF FInv

LEMMA WaitGoesOn ==
  ASSUME Flag!FlagSizes, FInv, NEW t \in Threads,
         Flag!WaitEnter(t) \/ Flag!WaitResleep(t) \/ Flag!SpuriousWake(t) \/ Flag!WaitTimesOut(t)
  PROVE  FInv'
<1>0. /\ Flag!TypeOK /\ Fate(t) /\ flg[t] \in Flag!Flags /\ snap[t] \in 0 .. MaxGen
      /\ cancelGen[flg[t]] \in 0 .. MaxGen /\ snap = [snap EXCEPT ![t] = snap[t]]
  BY DEF FInv, Flag!TypeOK
<1>1. CASE Flag!WaitEnter(t)
  <2>1. PICK n \in {"poll", "asleep"} : fpc' = [fpc EXCEPT ![t] = n]
    BY <1>1 DEF Flag!WaitEnter
  <2>2. /\ fpc[t] = "enter" /\ ~Flag!Match(pattern[flg[t]], want[t]) /\ t \notin counted
        /\ snap' = [snap EXCEPT ![t] = cancelGen[flg[t]]]
        /\ fwaiters' = [fwaiters EXCEPT ![flg[t]] = fwaiters[flg[t]] + 1]
        /\ UNCHANGED <<active, pattern, cancelGen, flg, want, counted>>
    BY <1>0, <1>1 DEF Flag!WaitEnter, Flag!MustWait, Flag!Snap, Fate
  <2> QED BY <1>0, <2>1, <2>2, GoesOnKeeps DEF InWait
<1>2. CASE Flag!WaitResleep(t)
  <2>1. /\ fpc[t] = "awake" /\ ~Flag!Match(pattern[flg[t]], want[t]) /\ snap[t] = cancelGen[flg[t]]
        /\ fpc' = [fpc EXCEPT ![t] = "asleep"]
        /\ UNCHANGED <<active, pattern, fwaiters, cancelGen, flg, want, snap, counted>>
    BY <1>2 DEF Flag!WaitResleep, Flag!MustWait, Flag!Cancelled, Flag!flagVars
  <2>2. t \notin counted
    BY <1>0, <2>1 DEF Fate, Loop
  <2>3. snap' = [snap EXCEPT ![t] = snap[t]]
    BY <1>0, <2>1
  <2> QED BY <1>0, <2>1, <2>2, <2>3, GoesOnKeeps DEF InWait
<1>3. CASE Flag!SpuriousWake(t)
  <2>1. snap' = [snap EXCEPT ![t] = snap[t]]
    BY <1>0, <1>3 DEF Flag!SpuriousWake
  <2> QED BY <1>0, <1>3, <2>1, GoesOnKeeps DEF InWait, Flag!SpuriousWake, Flag!flagVars
<1>4. CASE Flag!WaitTimesOut(t)
  <2>1. snap' = [snap EXCEPT ![t] = snap[t]] /\ t \notin counted
    BY <1>0, <1>4 DEF Flag!WaitTimesOut, Fate
  <2> QED BY <1>0, <1>4, <2>1, GoesOnKeeps DEF InWait, Flag!WaitTimesOut, Flag!flagVars, Loop
<1> QED BY <1>1, <1>2, <1>3, <1>4

-----------------------------------------------------------------------------
(* Returns *)

LEMMA FlagReturnKeeps ==
  ASSUME Flag!FlagSizes, FInv, NEW t \in Threads, Flag!Return(t, fpc), UNCHANGED <<active, cancelGen>>,
         fpc[t] # "cancel", counted' = counted \ {t},
         NEW word \in Flag!Words, word \subseteq pattern[flg[t]],
         pattern' = [pattern EXCEPT ![flg[t]] = word],
         \/ fwaiters' = fwaiters /\ fpc[t] \notin InWait
         \/ /\ fwaiters' = [fwaiters EXCEPT ![flg[t]] = fwaiters[flg[t]] - 1]
            /\ fpc[t] \in InWait
  PROVE  FInv'
<1>1. /\ Flag!TypeOK /\ fpc' = [fpc EXCEPT ![t] = "idle"] /\ flg' = [flg EXCEPT ![t] = 1]
      /\ want' = [want EXCEPT ![t] = Flag!NoWant] /\ snap' = [snap EXCEPT ![t] = 0]
      /\ 1 \in Flag!Flags /\ flg[t] \in Flag!Flags
  BY DEF Flag!Return, FInv, Flag!TypeOK, Flag!FlagSizes, Flag!Flags
<1>2. Others(t) /\ fpc'[t] = "idle" /\ flg'[t] = 1
  BY <1>1 DEF Others, Flag!TypeOK
<1>3. Flag!WaitersExact' /\ fwaiters' \in [Flag!Flags -> Nat]
  BY <1>1, <1>2, FlagWaitersKept DEF InWait
<1>4. Flag!TypeOK'
  <2>1. Flag!NoWant \in Flag!Wants
    BY DEF Flag!NoWant, Flag!Wants, Flag!Words, Flag!Clears
  <2>2. 0 \in 0 .. MaxGen
    BY DEF Flag!FlagSizes
  <2> QED BY <1>1, <1>3, <2>1, <2>2 DEF Flag!TypeOK, Flag!PcValues
<1>5. GensBounded'
  BY <1>2, GensKept
<1>6. ASSUME NEW u \in Threads PROVE Fate(u)'
  <2>1. CASE u = t
    BY <1>2, <2>1 DEF Fate, Loop
  <2>2. CASE u # t
    <3>1. pattern'[flg[u]] \subseteq pattern[flg[u]]
      BY <1>1 DEF Flag!TypeOK
    <3> QED BY <1>2, <2>2, <3>1, FatesKept
  <2> QED BY <2>1, <2>2
<1> QED BY <1>3, <1>4, <1>5, <1>6 DEF FInv

LEMMA WaitReturns ==
  ASSUME Flag!FlagSizes, FInv, NEW t \in Threads, Flag!WaitEnd(t) \/ Flag!WaitLate(t) \/ Flag!TryWait(t) \/ Flag!Clear(t)
  PROVE  FInv'
<1> DEFINE f == flg[t]
<1>0. /\ Flag!TypeOK /\ Fate(t) /\ f \in Flag!Flags /\ pattern[f] \in Flag!Words /\ want[t] \in Flag!Wants
      /\ pattern = [pattern EXCEPT ![f] = pattern[f]] /\ fwaiters = [fwaiters EXCEPT ![f] = fwaiters[f]]
  BY DEF FInv, Flag!TypeOK
<1>1. /\ Flag!Cleared(pattern[f], want[t]) \subseteq pattern[f]
      /\ Flag!Cleared(pattern[f], want[t]) \in Flag!Words
  BY <1>0, ClearedIsLess DEF Flag!Words
<1>2. CASE Flag!WaitEnd(t)
  <2>1. /\ Flag!Return(t, fpc) /\ UNCHANGED <<active, cancelGen>> /\ fpc[t] \in {"enter", "awake", "poll"}
        /\ fwaiters' = [fwaiters EXCEPT ![f] = IF fpc[t] = "enter" THEN fwaiters[f] ELSE fwaiters[f] - 1]
    BY <1>2 DEF Flag!WaitEnd, Flag!WaitersAfter
  <2>2. \/ fwaiters' = fwaiters /\ fpc[t] \notin InWait
        \/ fwaiters' = [fwaiters EXCEPT ![f] = fwaiters[f] - 1] /\ fpc[t] \in InWait
    BY <1>0, <2>1 DEF InWait
  <2>3. CASE Flag!Takes(t)
    <3>1. t \notin counted
      BY <1>0, <2>1, <2>3 DEF Fate, Loop, Flag!Takes, Flag!Cancelled
    <3>2. pattern' = [pattern EXCEPT ![f] = Flag!Cleared(pattern[f], want[t])] /\ counted' = counted \ {t}
      BY <1>2, <2>3, <3>1 DEF Flag!WaitEnd
    <3> QED BY <1>1, <2>1, <2>2, <3>2, FlagReturnKeeps
  <2>4. CASE ~Flag!Takes(t)
    <3>1. pattern' = [pattern EXCEPT ![f] = pattern[f]] /\ counted' = counted \ {t}
      BY <1>0, <1>2, <2>4 DEF Flag!WaitEnd
    <3> QED BY <1>0, <2>1, <2>2, <3>1, FlagReturnKeeps
  <2> QED BY <2>3, <2>4
<1>3. CASE Flag!WaitLate(t)
  <2>1. t \notin counted
    BY <1>0, <1>3 DEF Flag!WaitLate, Fate, Loop, Flag!MustWait, Flag!Cancelled
  <2>2. /\ Flag!Return(t, fpc) /\ UNCHANGED <<active, cancelGen>> /\ fpc[t] \in {"late", "poll"}
        /\ fwaiters' = [fwaiters EXCEPT ![f] = fwaiters[f] - 1]
        /\ pattern' = [pattern EXCEPT ![f] = pattern[f]] /\ counted' = counted \ {t}
    BY <1>0, <1>3, <2>1 DEF Flag!WaitLate, Flag!WaitersAfter
  <2> QED BY <1>0, <2>2, FlagReturnKeeps DEF InWait
<1>4. CASE Flag!TryWait(t)
  <2>1. t \notin counted
    BY <1>0, <1>4 DEF Flag!TryWait, Fate
  <2>2. /\ Flag!Return(t, fpc) /\ UNCHANGED <<active, cancelGen>> /\ fpc[t] = "try" /\ fwaiters' = fwaiters
        /\ counted' = counted \ {t}
    BY <1>4, <2>1 DEF Flag!TryWait
  <2>3. CASE Flag!Match(pattern[f], want[t])
    <3>1. pattern' = [pattern EXCEPT ![f] = Flag!Cleared(pattern[f], want[t])]
      BY <1>4, <2>3 DEF Flag!TryWait
    <3> QED BY <1>1, <2>2, <3>1, FlagReturnKeeps DEF InWait
  <2>4. CASE ~Flag!Match(pattern[f], want[t])
    <3>1. pattern' = [pattern EXCEPT ![f] = pattern[f]]
      BY <1>0, <1>4, <2>4 DEF Flag!TryWait
    <3> QED BY <1>0, <2>2, <3>1, FlagReturnKeeps DEF InWait
  <2> QED BY <2>3, <2>4
<1>5. CASE Flag!Clear(t)
  <2>1. t \notin counted
    BY <1>0, <1>5 DEF Flag!Clear, Fate
  <2>2. /\ Flag!Return(t, fpc) /\ UNCHANGED <<active, cancelGen>> /\ fpc[t] = "clear" /\ fwaiters' = fwaiters
        /\ counted' = counted \ {t}
        /\ pattern' = [pattern EXCEPT ![f] = pattern[f] \cap want[t].bits]
    BY <1>5, <2>1 DEF Flag!Clear
  <2>3. pattern[f] \cap want[t].bits \in Flag!Words
    BY <1>0 DEF Flag!Words
  <2> QED BY <2>2, <2>3, FlagReturnKeeps DEF InWait
<1> QED BY <1>2, <1>3, <1>4, <1>5

-----------------------------------------------------------------------------
(* Set and cancel wake every sleeper of the flag *)

LEMMA WakeFacts ==
  ASSUME Flag!FlagSizes, FInv, NEW t \in Threads, fpc[t] \in {"set", "cancel"},
         \E ts \in Flag!WakeAll(flg[t]) : Flag!Return(t, Flag!Woken(ts))
  PROVE  /\ Others(t) /\ fpc'[t] = "idle" /\ flg'[t] = 1
         /\ fpc' \in [Threads -> Flag!PcValues] /\ flg' \in [Threads -> Flag!Flags]
         /\ want' \in [Threads -> Flag!Wants] /\ snap' \in [Threads -> 0 .. MaxGen]
         /\ \A u \in Threads \ {t} : fpc[u] = "asleep" /\ flg[u] = flg[t] => fpc'[u] = "awake"
<1>1. Flag!Return(t, Flag!Woken(Flag!Sleepers(flg[t]))) /\ Flag!TypeOK
  BY DEF Flag!WakeAll, FInv
<1>2. \A u \in Threads : fpc'[u] = IF u = t THEN "idle"
                                  ELSE IF u \in Flag!Sleepers(flg[t]) THEN "awake" ELSE fpc[u]
  BY <1>1 DEF Flag!Return, Flag!Woken
<1>3. /\ flg' = [flg EXCEPT ![t] = 1] /\ want' = [want EXCEPT ![t] = Flag!NoWant]
      /\ snap' = [snap EXCEPT ![t] = 0]
  BY <1>1 DEF Flag!Return
<1>4. Others(t) /\ fpc'[t] = "idle" /\ flg'[t] = 1
  BY <1>1, <1>2, <1>3 DEF Others, Flag!Sleepers, Flag!TypeOK
<1>5. fpc' \in [Threads -> Flag!PcValues]
  BY <1>1, <1>2 DEF Flag!Return, Flag!Woken, Flag!TypeOK, Flag!PcValues
<1>6. Flag!NoWant \in Flag!Wants /\ 0 \in 0 .. MaxGen /\ 1 \in Flag!Flags
  BY DEF Flag!NoWant, Flag!Wants, Flag!Words, Flag!Clears, Flag!FlagSizes, Flag!Flags
<1> QED BY <1>1, <1>2, <1>3, <1>4, <1>5, <1>6 DEF Flag!TypeOK, Flag!Sleepers

LEMMA SetKeeps == ASSUME Flag!FlagSizes, FInv, NEW t \in Threads, Flag!Set(t) PROVE FInv'
<1> DEFINE f == flg[t]
<1>1. /\ Flag!TypeOK /\ Fate(t) /\ f \in Flag!Flags /\ fpc[t] = "set" /\ want[t] \in Flag!Wants
      /\ pattern' = [pattern EXCEPT ![f] = pattern[f] \cup want[t].bits]
      /\ UNCHANGED <<active, fwaiters, cancelGen, counted>>
      /\ \E ts \in Flag!WakeAll(f) : Flag!Return(t, Flag!Woken(ts))
  BY DEF Flag!Set, FInv, Flag!TypeOK
<1>2. /\ Others(t) /\ fpc'[t] = "idle" /\ flg'[t] = 1
      /\ fpc' \in [Threads -> Flag!PcValues] /\ flg' \in [Threads -> Flag!Flags]
      /\ want' \in [Threads -> Flag!Wants] /\ snap' \in [Threads -> 0 .. MaxGen]
      /\ \A u \in Threads \ {t} : fpc[u] = "asleep" /\ flg[u] = flg[t] => fpc'[u] = "awake"
  BY <1>1, WakeFacts
<1>3. Flag!TypeOK'
  <2>1. pattern[f] \cup want[t].bits \in Flag!Words
    BY <1>1 DEF Flag!TypeOK, Flag!Words, Flag!Wants
  <2> QED BY <1>1, <1>2, <2>1 DEF Flag!TypeOK
<1>4. Flag!WaitersExact'
  BY <1>1, <1>2, FlagWaitersKept DEF InWait
<1>5. GensBounded'
  BY <1>1, <1>2, GensKept
<1>6. ASSUME NEW u \in Threads PROVE Fate(u)'
  <2>1. CASE u = t
    BY <1>1, <1>2, <2>1 DEF Fate, Loop
  <2>2. CASE u # t
    <3>1. fpc'[u] = "asleep" => flg[u] # f
      BY <1>2, <2>2 DEF Others
    <3>2. fpc'[u] = "asleep" => pattern'[flg[u]] = pattern[flg[u]]
      BY <1>1, <3>1 DEF Flag!TypeOK
    <3> QED BY <1>1, <1>2, <2>2, <3>2, FatesKept
  <2> QED BY <2>1, <2>2
<1> QED BY <1>3, <1>4, <1>5, <1>6 DEF FInv

LEMMA CancelKeeps == ASSUME Flag!FlagSizes, FInv, NEW t \in Threads, Flag!Cancel(t) PROVE FInv'
<1> DEFINE f == flg[t]
<1>1. /\ Flag!TypeOK /\ Fate(t) /\ f \in Flag!Flags /\ fpc[t] = "cancel"
      /\ cancelGen' = [cancelGen EXCEPT ![f] = cancelGen[f] + 1]
      /\ counted' = counted \cup Flag!InLoop(f)
      /\ UNCHANGED <<active, pattern, fwaiters>>
      /\ \E ts \in Flag!WakeAll(f) : Flag!Return(t, Flag!Woken(ts))
  BY DEF Flag!Cancel, FInv, Flag!TypeOK
<1>2. /\ Others(t) /\ fpc'[t] = "idle" /\ flg'[t] = 1
      /\ fpc' \in [Threads -> Flag!PcValues] /\ flg' \in [Threads -> Flag!Flags]
      /\ want' \in [Threads -> Flag!Wants] /\ snap' \in [Threads -> 0 .. MaxGen]
      /\ \A u \in Threads \ {t} : fpc[u] = "asleep" /\ flg[u] = flg[t] => fpc'[u] = "awake"
  BY <1>1, WakeFacts
<1>3. Flag!WaitersExact'
  BY <1>1, <1>2, FlagWaitersKept DEF InWait
<1>4. /\ \A g \in Flag!Flags : cancelGen[g] \in Nat
      /\ \A g \in Flag!Flags : cancelGen'[g] = IF g = f THEN cancelGen[g] + 1 ELSE cancelGen[g]
  BY <1>1 DEF Flag!TypeOK
<1>5. GensBounded'
  <2> SUFFICES ASSUME NEW g \in Flag!Flags
               PROVE  cancelGen'[g] + Cardinality(FlagIn({"cancel"}, g)') <= MaxGen
    BY DEF GensBounded
  <2>1. cancelGen[g] + Cardinality(FlagIn({"cancel"}, g)) <= MaxGen
        /\ Cardinality(FlagIn({"cancel"}, g)) \in Nat
    BY FlagInFinite DEF FInv, GensBounded
  <2>2. CASE g # f
    <3>1. FlagIn({"cancel"}, g)' = FlagIn({"cancel"}, g)
      BY <1>1, <1>2, <2>2, FlagInStays DEF Countable
    <3> QED BY <1>4, <2>1, <2>2, <3>1
  <2>3. CASE g = f
    <3>1. fpc[t] \in {"cancel"} /\ flg[t] = g /\ ~(fpc'[t] \in {"cancel"} /\ flg'[t] = g)
      BY <1>1, <1>2, <2>3
    <3>2. Cardinality(FlagIn({"cancel"}, g)') = Cardinality(FlagIn({"cancel"}, g)) - 1
      BY <1>2, <3>1, FlagInLeaves DEF Countable
    <3>3. cancelGen'[g] = cancelGen[g] + 1 /\ cancelGen[g] \in Nat /\ MaxGen \in Nat
      BY <1>4, <2>3 DEF Flag!FlagSizes
    <3> QED BY <2>1, <3>2, <3>3
  <2> QED BY <2>2, <2>3
<1>6. Flag!TypeOK'
  <2>1. \A g \in Flag!Flags : cancelGen'[g] \in 0 .. MaxGen
    <3>1. ASSUME NEW g \in Flag!Flags PROVE Cardinality(FlagIn({"cancel"}, g)') \in Nat
      <4>1. IsFiniteSet(FlagIn({"cancel"}, g)')
        BY FS_Subset, SameCardinality DEF FlagIn, Flag!FlagSizes
      <4> QED BY <4>1, FS_CardinalityType
    <3> QED BY <1>4, <1>5, <3>1 DEF GensBounded, Flag!FlagSizes
  <2>2. cancelGen' \in [Flag!Flags -> 0 .. MaxGen]
    BY <1>1, <2>1 DEF Flag!TypeOK
  <2>3. counted' \subseteq Threads
    BY <1>1 DEF Flag!TypeOK, Flag!InLoop, Flag!Waits
  <2> QED BY <1>1, <1>2, <2>2, <2>3 DEF Flag!TypeOK
<1>7. ASSUME NEW u \in Threads PROVE Fate(u)'
  <2>1. CASE u = t
    <3>1. t \notin counted'
      BY <1>1 DEF Fate, Flag!InLoop, Flag!Waits
    <3> QED BY <1>2, <2>1, <3>1 DEF Fate, Loop
  <2>2. CASE u # t /\ flg[u] # f
    <3>1. /\ Fate(u) /\ flg'[u] = flg[u] /\ want'[u] = want[u] /\ snap'[u] = snap[u]
          /\ flg[u] \in Flag!Flags
          /\ fpc'[u] = fpc[u] \/ (fpc[u] = "asleep" /\ fpc'[u] = "awake")
      BY <1>1, <1>2, <2>2 DEF FInv, Others, Flag!TypeOK
    <3>2. u \in counted' <=> u \in counted
      BY <1>1, <2>2 DEF Flag!InLoop, Flag!Waits
    <3>3. cancelGen'[flg[u]] = cancelGen[flg[u]]
      <4>1. flg[u] \in Flag!Flags /\ flg[u] # f
        BY <2>2, <3>1
      <4> QED BY <1>1, <4>1 DEF Flag!TypeOK
    <3> QED BY <1>1, <3>1, <3>2, <3>3 DEF Fate, Loop
  <2>3. CASE u # t /\ flg[u] = f
    <3>1. /\ Fate(u) /\ flg'[u] = f /\ snap'[u] = snap[u] /\ fpc'[u] # "asleep"
          /\ fpc'[u] = fpc[u] \/ (fpc[u] = "asleep" /\ fpc'[u] = "awake")
      BY <1>1, <1>2, <2>3 DEF FInv, Others
    <3>2. u \in counted' <=> u \in counted \/ fpc[u] \in Loop
      BY <1>1, <2>3 DEF Flag!InLoop, Flag!Waits, Loop
    <3>3. cancelGen'[f] = cancelGen[f] + 1 /\ cancelGen[f] \in Nat /\ snap[u] \in Nat
      BY <1>1, <1>4 DEF Flag!TypeOK
    <3> QED BY <1>1, <2>3, <3>1, <3>2, <3>3 DEF Fate, Loop
  <2> QED BY <2>1, <2>2, <2>3
<1> QED BY <1>3, <1>5, <1>6, <1>7 DEF FInv

-----------------------------------------------------------------------------

LEMMA InitFInv == ASSUME Flag!FlagSizes, Flag!Init PROVE FInv
<1>1. \A S : \A f \in Flag!Flags : "idle" \notin S => FlagIn(S, f) = {}
  BY DEF Flag!Init, FlagIn
<1>2. Cardinality({}) = 0
  BY FS_EmptySet
<1>3. Flag!TypeOK
  BY DEF Flag!Init, Flag!TypeOK, Flag!FlagSizes, Flag!Flags, Flag!Words, Flag!Wants, Flag!NoWant,
     Flag!Clears, Flag!PcValues
<1>4. Flag!WaitersExact
  <2>1. \A f \in Flag!Flags : Flag!Waits(f) = {}
    BY DEF Flag!Init, Flag!Waits
  <2> QED BY <1>2, <2>1, SameCardinality DEF Flag!Init, Flag!WaitersExact
<1>5. GensBounded
  BY <1>1, <1>2 DEF Flag!Init, GensBounded, Flag!FlagSizes
<1>6. \A t \in Threads : Fate(t)
  BY DEF Flag!Init, Fate, Loop
<1> QED BY <1>3, <1>4, <1>5, <1>6 DEF FInv

LEMMA NextFInv == Flag!FlagSizes /\ RacyTeardown = FALSE /\ FInv /\ [Flag!Next]_(Flag!vars) => FInv'
<1> SUFFICES ASSUME Flag!FlagSizes, RacyTeardown = FALSE, FInv, [Flag!Next]_(Flag!vars) PROVE FInv'
  OBVIOUS
<1>1. CASE Flag!Next
  BY <1>1, FlagCallKeeps, WaitGoesOn, WaitReturns, SetKeeps, CancelKeeps DEF Flag!Next, Flag!Step
<1>2. CASE UNCHANGED Flag!vars
  BY <1>2 DEF Flag!vars, FInv, Flag!TypeOK, Flag!WaitersExact, Flag!Waits, GensBounded, FlagIn,
     Fate
<1> QED BY <1>1, <1>2

(* Nobody sleeps through a set, a clear or a cancel, and the waits are counted
   exactly, for any flags, bits, waits and threads.                          *)
THEOREM SleepersAreReached == Flag!FlagSizes /\ RacyTeardown = FALSE => (Flag!Spec => []Flag!NobodySleepsThrough)
<1> SUFFICES ASSUME Flag!FlagSizes, RacyTeardown = FALSE PROVE Flag!Spec => []Flag!NobodySleepsThrough
  OBVIOUS
<1>1. FInv => Flag!NobodySleepsThrough
  BY FlagInvFollows
<1> QED BY <1>1, InitFInv, NextFInv, PTL DEF Flag!Spec

(* A cancel ends the waits it counted and no others. *)
THEOREM CancelsAreExact == Flag!FlagSizes /\ RacyTeardown = FALSE => (Flag!Spec => []Flag!CancelExact)
<1> SUFFICES ASSUME Flag!FlagSizes, RacyTeardown = FALSE PROVE Flag!Spec => []Flag!CancelExact
  OBVIOUS
<1>1. FInv => Flag!CancelExact
  BY FlagInvFollows
<1> QED BY <1>1, InitFInv, NextFInv, PTL DEF Flag!Spec

(* Every variable keeps its type, and the generations stay within their bound. *)
THEOREM FlagTyping == Flag!FlagSizes /\ RacyTeardown = FALSE => (Flag!Spec => []Flag!TypeOK)
<1> SUFFICES ASSUME Flag!FlagSizes, RacyTeardown = FALSE PROVE Flag!Spec => []Flag!TypeOK
  OBVIOUS
<1>1. FInv => Flag!TypeOK
  BY DEF FInv
<1> QED BY <1>1, InitFInv, NextFInv, PTL DEF Flag!Spec

-----------------------------------------------------------------------------
(* Event queues *)

\* An index that runs past the capacity once.
Wrap(n, c) == IF n >= c THEN n - c ELSE n

LEMMA WrapIsMod ==
  ASSUME NEW c \in Nat \ {0}, NEW n \in 0 .. c + c - 1
  PROVE  n % c = Wrap(n, c) /\ Wrap(n, c) \in 0 .. c - 1
  BY DEF Wrap

Sound(r) ==
    /\ r \in Queue!RingType
    /\ r.head < r.cap /\ r.tail < r.cap /\ r.count <= r.cap
    /\ r.tail = Wrap(r.head + r.count, r.cap)

LEMMA RingFields ==
  ASSUME Queue!QueueSizes, NEW r \in Queue!RingType
  PROVE  /\ r.cap \in Nat /\ r.cap >= 1 /\ r.cap <= BufMax
         /\ r.head \in Nat /\ r.tail \in Nat /\ r.count \in Nat
         /\ r.buf \in [0 .. BufMax - 1 -> Queue!Events]
  BY DEF Queue!RingType, Queue!QueueSizes

LEMMA RingIsSound ==
  ASSUME Queue!QueueSizes, NEW r \in Queue!RingType
  PROVE  Sound(r) <=> /\ r.head < r.cap /\ r.tail < r.cap /\ r.count <= r.cap
                      /\ r.tail = (r.head + r.count) % r.cap
<1>1. r.head < r.cap /\ r.count <= r.cap => (r.head + r.count) % r.cap = Wrap(r.head + r.count, r.cap)
  BY RingFields, WrapIsMod
<1> QED BY <1>1 DEF Sound

LEMMA EmptyIsSound ==
  ASSUME Queue!QueueSizes, NEW c \in 1 .. BufMax
  PROVE  Sound(Queue!EmptyRing(c)) /\ Queue!EmptyRing(c).count = 0 /\ Queue!Content(Queue!EmptyRing(c)) = <<>>
<1> DEFINE b == [i \in 0 .. BufMax - 1 |-> Queue!Blank]
<1>1. b \in [0 .. BufMax - 1 -> Queue!Events] /\ 0 \in 0 .. BufMax - 1 /\ 0 \in 0 .. BufMax
  BY DEF Queue!Events, Queue!QueueSizes
<1> HIDE DEF b
<1>2. Queue!EmptyRing(c) = [cap |-> c, head |-> 0, tail |-> 0, count |-> 0, buf |-> b]
  BY DEF Queue!EmptyRing, b
<1>3. Queue!EmptyRing(c) \in Queue!RingType
  BY <1>1, <1>2 DEF Queue!RingType
<1>4. Sound(Queue!EmptyRing(c))
  BY <1>2, <1>3 DEF Sound, Wrap, Queue!QueueSizes
<1> QED BY <1>2, <1>4 DEF Queue!Content

\* The ring after a push.
LEMMA PushedIsSound ==
  ASSUME Queue!QueueSizes, NEW r, Sound(r), ~Queue!Full(r), NEW e \in Queue!Events
  PROVE  /\ Sound(Queue!Pushed(r, e)) /\ Queue!Pushed(r, e).count = r.count + 1
         /\ Queue!Pushed(r, e).cap = r.cap /\ Queue!Pushed(r, e).head = r.head
         /\ Queue!Pushed(r, e).buf = [r.buf EXCEPT ![r.tail] = e]
<1> DEFINE w == (r.tail + 1) % r.cap
           n == r.count + 1
           p == [r EXCEPT !.buf[r.tail] = e, !.tail = w, !.count = n]
<1>1. r \in Queue!RingType /\ r.count < r.cap /\ r.cap \in 1 .. BufMax /\ r.head < r.cap
      /\ r.head \in Nat /\ r.tail \in Nat /\ r.count \in Nat
      /\ r.tail = Wrap(r.head + r.count, r.cap) /\ r.tail < r.cap
  BY RingFields DEF Sound, Queue!Full, Queue!RingType
<1>2. Queue!Pushed(r, e) = p
  BY DEF Queue!Pushed
<1>3. w = Wrap(r.tail + 1, r.cap) /\ w \in 0 .. r.cap - 1
  <2>1. r.cap \in Nat \ {0} /\ r.tail + 1 \in 0 .. r.cap + r.cap - 1
    BY <1>1
  <2> QED BY <2>1, WrapIsMod
<1>4. w \in 0 .. BufMax - 1 /\ n \in 0 .. BufMax
  BY <1>1, <1>3 DEF Queue!QueueSizes
<1>5. w = Wrap(r.head + n, r.cap)
  BY <1>1, <1>3 DEF Wrap
<1> HIDE DEF w, n
<1>6. /\ p.cap = r.cap /\ p.head = r.head /\ p.tail = w /\ p.count = n
      /\ p.buf = [r.buf EXCEPT ![r.tail] = e] /\ p \in Queue!RingType
  BY <1>1, <1>4 DEF Queue!RingType
<1> HIDE DEF p
<1>7. Sound(p)
  BY <1>1, <1>3, <1>5, <1>6 DEF Sound, n
<1> QED BY <1>2, <1>6, <1>7 DEF n

LEMMA PoppedIsSound ==
  ASSUME Queue!QueueSizes, NEW r, Sound(r), NEW n \in 0 .. r.count
  PROVE  /\ Sound(Queue!Popped(r, n)) /\ Queue!Popped(r, n).count = r.count - n
         /\ Queue!Popped(r, n).cap = r.cap /\ Queue!Popped(r, n).head = Wrap(r.head + n, r.cap)
         /\ Queue!Popped(r, n).buf = r.buf
<1> DEFINE h == (r.head + n) % r.cap
           k == r.count - n
           p == [r EXCEPT !.head = h, !.count = k]
<1>1. r \in Queue!RingType /\ r.count <= r.cap /\ r.cap \in 1 .. BufMax /\ r.head < r.cap
      /\ r.head \in Nat /\ r.tail \in Nat /\ r.count \in Nat
      /\ r.tail = Wrap(r.head + r.count, r.cap) /\ r.tail < r.cap
  BY RingFields DEF Sound, Queue!RingType
<1>2. Queue!Popped(r, n) = p
  BY DEF Queue!Popped
<1>3. h = Wrap(r.head + n, r.cap) /\ h \in 0 .. r.cap - 1
  <2>1. r.cap \in Nat \ {0} /\ r.head + n \in 0 .. r.cap + r.cap - 1
    BY <1>1
  <2> QED BY <2>1, WrapIsMod
<1>4. h \in 0 .. BufMax - 1 /\ k \in 0 .. BufMax /\ k <= r.cap
  BY <1>1, <1>3 DEF Queue!QueueSizes
<1>5. r.tail = Wrap(h + k, r.cap)
  BY <1>1, <1>3 DEF Wrap
<1> HIDE DEF h, k
<1>6. /\ p.cap = r.cap /\ p.head = h /\ p.tail = r.tail /\ p.count = k
      /\ p.buf = r.buf /\ p \in Queue!RingType
  BY <1>1, <1>4 DEF Queue!RingType
<1> HIDE DEF p
<1>7. Sound(p)
  BY <1>1, <1>3, <1>4, <1>5, <1>6 DEF Sound
<1> QED BY <1>2, <1>3, <1>6, <1>7 DEF k

LEMMA DrainedIsSound ==
  ASSUME Queue!QueueSizes, NEW r, Sound(r)
  PROVE  Sound(Queue!Drained(r)) /\ Queue!Drained(r).count = 0 /\ Queue!Content(Queue!Drained(r)) = <<>>
<1> DEFINE p == [r EXCEPT !.head = 0, !.tail = 0, !.count = 0]
<1>1. r \in Queue!RingType /\ r.cap \in 1 .. BufMax
  BY DEF Sound, Queue!RingType
<1>2. 0 \in 0 .. BufMax - 1 /\ 0 \in 0 .. BufMax
  BY DEF Queue!QueueSizes
<1>3. p.cap = r.cap /\ p.head = 0 /\ p.tail = 0 /\ p.count = 0 /\ p \in Queue!RingType
  BY <1>1, <1>2 DEF Queue!RingType
<1> HIDE DEF p
<1>4. Sound(p)
  BY <1>1, <1>3 DEF Sound, Wrap
<1>5. Queue!Drained(r) = p
  BY DEF Queue!Drained, p
<1> QED BY <1>3, <1>4, <1>5 DEF Queue!Content

\* What a ring holds is a sequence of events.
LEMMA ContentIsSeq ==
  ASSUME Queue!QueueSizes, NEW r, Sound(r)
  PROVE  /\ Queue!Content(r) \in Seq(Queue!Events) /\ Len(Queue!Content(r)) = r.count
         /\ r.count \in Nat /\ r.cap \in Nat \ {0} /\ r.head \in Nat
         /\ \A i \in 1 .. r.count : /\ Queue!Content(r)[i] = r.buf[Wrap(r.head + i - 1, r.cap)]
                                    /\ Wrap(r.head + i - 1, r.cap) \in 0 .. r.cap - 1
<1>1. /\ r.count \in Nat /\ r.cap \in Nat \ {0} /\ r.head \in Nat /\ r.count <= r.cap
      /\ r.head < r.cap /\ r.cap <= BufMax /\ r.buf \in [0 .. BufMax - 1 -> Queue!Events]
  BY RingFields DEF Sound
<1>2. ASSUME NEW i \in 1 .. r.count
      PROVE  /\ r.buf[(r.head + i - 1) % r.cap] = r.buf[Wrap(r.head + i - 1, r.cap)]
             /\ r.buf[(r.head + i - 1) % r.cap] \in Queue!Events
             /\ Wrap(r.head + i - 1, r.cap) \in 0 .. r.cap - 1
  <2>1. r.head + i - 1 \in 0 .. r.cap + r.cap - 1
    BY <1>1
  <2>2. /\ (r.head + i - 1) % r.cap = Wrap(r.head + i - 1, r.cap)
        /\ Wrap(r.head + i - 1, r.cap) \in 0 .. r.cap - 1
    BY <1>1, <2>1, WrapIsMod
  <2>3. Wrap(r.head + i - 1, r.cap) \in 0 .. BufMax - 1
    BY <1>1, <2>2 DEF Queue!QueueSizes
  <2> QED BY <1>1, <2>2, <2>3
<1>3. Queue!Content(r) \in [1 .. r.count -> Queue!Events]
  BY <1>2 DEF Queue!Content
<1>4. Queue!Content(r) \in Seq(Queue!Events)
  BY <1>1, <1>3, SeqDef
<1>5. \A i \in 1 .. r.count : Queue!Content(r)[i] = r.buf[Wrap(r.head + i - 1, r.cap)]
  BY <1>2 DEF Queue!Content
<1>6. Len(Queue!Content(r)) = r.count
  BY <1>1, <1>3, <1>4, LenProperties DEF Queue!Content
<1> QED BY <1>1, <1>2, <1>4, <1>5, <1>6

-----------------------------------------------------------------------------
(* Threads at some steps of a call on a queue *)

QueueIn(S, q) == {t \in Threads : qpc[t] \in S /\ que[t] = q}
AtWait   == {"asleep", "awake", "poll", "late"}

\* One thread goes to step n of a call on queue m.
Moves(t, n, m) == qpc' = [qpc EXCEPT ![t] = n] /\ que' = [que EXCEPT ![t] = m]

LEMMA MovesOne ==
  ASSUME Queue!TypeOK, NEW t \in Threads, NEW n, NEW m, Moves(t, n, m)
  PROVE  /\ qpc'[t] = n /\ que'[t] = m
         /\ \A u \in Threads : u # t => qpc'[u] = qpc[u] /\ que'[u] = que[u]
  BY DEF Queue!TypeOK, Moves

LEMMA QueueInFinite ==
  ASSUME Queue!QueueSizes, NEW S, NEW q PROVE IsFiniteSet(QueueIn(S, q)) /\ Cardinality(QueueIn(S, q)) \in Nat
  BY FS_Subset, FS_CardinalityType, SameCardinality DEF QueueIn, Queue!QueueSizes

LEMMA QueueInStays ==
  ASSUME Queue!TypeOK, NEW S, NEW q, NEW t \in Threads, NEW n, NEW m, Moves(t, n, m),
         (qpc[t] \in S /\ que[t] = q) <=> (n \in S /\ m = q)
  PROVE  QueueIn(S, q)' = QueueIn(S, q)
  BY MovesOne DEF QueueIn

LEMMA QueueInEnters ==
  ASSUME Queue!QueueSizes, Queue!TypeOK, NEW S, NEW q, NEW t \in Threads, NEW n \in S, Moves(t, n, q),
         ~(qpc[t] \in S /\ que[t] = q)
  PROVE  Cardinality(QueueIn(S, q)') = Cardinality(QueueIn(S, q)) + 1
<1>1. QueueIn(S, q)' = QueueIn(S, q) \cup {t} /\ t \notin QueueIn(S, q)
  BY MovesOne DEF QueueIn
<1>2. Cardinality(QueueIn(S, q) \cup {t}) = Cardinality(QueueIn(S, q)) + 1
  BY <1>1, QueueInFinite, FS_AddElement
<1> QED BY <1>1, <1>2

LEMMA QueueInLeaves ==
  ASSUME Queue!QueueSizes, Queue!TypeOK, NEW S, NEW q, NEW t \in Threads, NEW n, NEW m, Moves(t, n, m),
         qpc[t] \in S /\ que[t] = q, ~(n \in S /\ m = q)
  PROVE  Cardinality(QueueIn(S, q)') = Cardinality(QueueIn(S, q)) - 1
<1>1. QueueIn(S, q)' = QueueIn(S, q) \ {t} /\ t \in QueueIn(S, q)
  BY MovesOne DEF QueueIn
<1>2. Cardinality(QueueIn(S, q) \ {t}) = Cardinality(QueueIn(S, q)) - 1
  BY <1>1, QueueInFinite, FS_RemoveElement
<1> QED BY <1>1, <1>2

-----------------------------------------------------------------------------
(* The invariant *)

RingsSound == \A q \in Queue!Queues : Sound(ring[q])

\* A thread has an event to push as long as it is on its way to push it.
EventsOffered == \A t \in Threads : evt[t] # Queue!Blank <=> qpc[t] = "push"

\* Whoever a forced destroy found waiting is on a dead queue that says so.
CancelledOnDead ==
    \A t \in qcancelled : qpc[t] \in {"awake", "poll"} /\ ~qActive[que[t]] /\ forced[que[t]]

(* QueueSound and DestroySafe together, with what they rest on: a wake counts
   only on a live queue, and a cancelled receiver stays on the queue that was
   destroyed.                                                               *)
EInv == /\ Queue!TypeOK /\ RingsSound /\ EventsOffered /\ Queue!WaitersExact /\ Queue!NoLostWakeup
        /\ Queue!NobodyAsleepOnDead /\ Queue!PortsPointAtLive /\ CancelledOnDead

LEMMA CountOfRing ==
  ASSUME Queue!QueueSizes, EInv, NEW q \in Queue!Queues
  PROVE  ring[q].count \in Nat /\ Sound(ring[q]) /\ ring[q] \in Queue!RingType
  BY ContentIsSeq DEF EInv, RingsSound, Sound

\* The wakes, when one thread moves and no event comes.
LEMMA WakesKept ==
  ASSUME Queue!QueueSizes, EInv, Queue!TypeOK', RingsSound', NEW t \in Threads, NEW n, NEW m, Moves(t, n, m),
         qActive' = qActive, \A q \in Queue!Queues : ring'[q].count <= ring[q].count,
         n = "asleep" => Queue!MustWait(m) /\ m \in Queue!Queues,
         n = "awake" => qpc[t] # "awake",
         qpc[t] = "awake" => \/ ring'[que[t]].count <= ring[que[t]].count - 1
                             \/ ring'[que[t]].count = 0
                             \/ ~qActive[que[t]]
  PROVE  Queue!NoLostWakeup' /\ Queue!NobodyAsleepOnDead'
<1>0. Queue!TypeOK /\ Queue!NoLostWakeup /\ Queue!NobodyAsleepOnDead
  BY DEF EInv
<1>1. ASSUME NEW q \in Queue!Queues, Queue!Asleep(q)' # {}
      PROVE  (n = "asleep" /\ m = q) \/ Queue!Asleep(q) # {}
  BY <1>0, <1>1, MovesOne DEF Queue!Asleep
<1>2. ASSUME NEW q \in Queue!Queues PROVE ring'[q].count \in Nat /\ ring[q].count \in Nat
  BY <1>2, CountOfRing, RingFields DEF RingsSound, Sound
<1>3. Queue!NobodyAsleepOnDead'
  BY <1>0, <1>1 DEF Queue!NobodyAsleepOnDead, Queue!MustWait
<1>4. ASSUME NEW q \in Queue!Queues, Queue!Asleep(q)' # {}
      PROVE  ring'[q].count <= Cardinality(Queue!Awake(q)')
  <2>0. Queue!Awake(q) = QueueIn({"awake"}, q) /\ Queue!Awake(q)' = QueueIn({"awake"}, q)'
        /\ Cardinality(QueueIn({"awake"}, q)) \in Nat /\ IsFiniteSet(QueueIn({"awake"}, q)')
    <3>1. IsFiniteSet(QueueIn({"awake"}, q)')
      BY FS_Subset, SameCardinality DEF QueueIn, Queue!QueueSizes
    <3> QED BY <3>1, QueueInFinite DEF Queue!Awake, QueueIn
  <2>1. CASE n = "asleep" /\ m = q
    <3>1. ring'[q].count = 0
      BY <1>2, <2>1 DEF Queue!MustWait
    <3> QED BY <2>0, <3>1, FS_CardinalityType
  <2>2. CASE ~(n = "asleep" /\ m = q)
    <3>1. Queue!Asleep(q) # {} /\ qActive[q] /\ ring[q].count <= Cardinality(QueueIn({"awake"}, q))
      BY <1>0, <1>1, <1>4, <2>0, <2>2, SameCardinality DEF Queue!NoLostWakeup,
         Queue!NobodyAsleepOnDead
    <3>2. CASE qpc[t] = "awake" /\ que[t] = q
      <4>1. Cardinality(QueueIn({"awake"}, q)') = Cardinality(QueueIn({"awake"}, q)) - 1
        BY <1>0, <3>2, QueueInLeaves
      <4>2. Cardinality(QueueIn({"awake"}, q)') \in Nat
        BY <2>0, FS_CardinalityType
      <4> QED BY <1>2, <2>0, <3>1, <3>2, <4>1, <4>2
    <3>3. CASE ~(qpc[t] = "awake" /\ que[t] = q) /\ n = "awake" /\ m = q
      <4>1. Cardinality(QueueIn({"awake"}, q)') = Cardinality(QueueIn({"awake"}, q)) + 1
        BY <1>0, <3>3, QueueInEnters
      <4> QED BY <1>2, <2>0, <3>1, <4>1
    <3>4. CASE ~(qpc[t] = "awake" /\ que[t] = q) /\ ~(n = "awake" /\ m = q)
      <4>1. QueueIn({"awake"}, q)' = QueueIn({"awake"}, q)
        BY <1>0, <3>4, QueueInStays
      <4> QED BY <1>2, <2>0, <3>1, <4>1
    <3> QED BY <3>2, <3>3, <3>4
  <2> QED BY <2>1, <2>2
<1>5. Queue!NoLostWakeup'
  BY <1>4, SameCardinality DEF Queue!NoLostWakeup
<1> QED BY <1>3, <1>5

\* The count of the receives, when one thread moves.
LEMMA QueueWaitersKept ==
  ASSUME Queue!QueueSizes, EInv, NEW t \in Threads, NEW n, NEW m, Moves(t, n, m),
         \/ /\ qwaiters' = qwaiters
            /\ qpc[t] \in AtWait <=> n \in AtWait
            /\ n \in AtWait => m = que[t]
         \/ /\ qwaiters' = [qwaiters EXCEPT ![que[t]] = qwaiters[que[t]] + 1]
            /\ qpc[t] \notin AtWait /\ n \in AtWait /\ m = que[t]
         \/ /\ qwaiters' = [qwaiters EXCEPT ![que[t]] = qwaiters[que[t]] - 1]
            /\ qpc[t] \in AtWait /\ n \notin AtWait
  PROVE  Queue!WaitersExact'
<1>0. Queue!TypeOK /\ Queue!WaitersExact /\ que[t] \in Queue!Queues
  BY DEF EInv, Queue!TypeOK
<1> SUFFICES ASSUME NEW q \in Queue!Queues PROVE qwaiters'[q] = Cardinality(QueueIn(AtWait, q)')
  BY SameCardinality DEF Queue!WaitersExact, Queue!Counted, QueueIn, AtWait
<1>1. qwaiters[q] = Cardinality(QueueIn(AtWait, q)) /\ qwaiters \in [Queue!Queues -> Int]
  BY <1>0, SameCardinality DEF Queue!WaitersExact, Queue!Counted, QueueIn, AtWait, Queue!TypeOK
<1>2. CASE ~(qpc[t] \in AtWait /\ que[t] = q) /\ n \in AtWait /\ m = q
  <2>1. Cardinality(QueueIn(AtWait, q)') = Cardinality(QueueIn(AtWait, q)) + 1
    BY <1>0, <1>2, QueueInEnters
  <2> QED BY <1>0, <1>1, <1>2, <2>1
<1>3. CASE qpc[t] \in AtWait /\ que[t] = q /\ ~(n \in AtWait /\ m = q)
  <2>1. Cardinality(QueueIn(AtWait, q)') = Cardinality(QueueIn(AtWait, q)) - 1
    BY <1>0, <1>3, QueueInLeaves
  <2> QED BY <1>0, <1>1, <1>3, <2>1
<1>4. CASE (qpc[t] \in AtWait /\ que[t] = q) <=> (n \in AtWait /\ m = q)
  <2>1. QueueIn(AtWait, q)' = QueueIn(AtWait, q)
    BY <1>0, <1>4, QueueInStays
  <2> QED BY <1>0, <1>1, <1>4, <2>1
<1> QED BY <1>2, <1>3, <1>4

LEMMA CancelKept ==
  ASSUME EInv, NEW t \in Threads, NEW n, NEW m, Moves(t, n, m),
         UNCHANGED <<qActive, forced>>, qcancelled' \subseteq qcancelled,
         t \in qcancelled' => n \in {"awake", "poll"} /\ m = que[t]
  PROVE  CancelledOnDead'
<1>1. Queue!TypeOK /\ qcancelled \subseteq Threads
  BY DEF EInv, Queue!TypeOK
<1> QED BY <1>1, MovesOne DEF EInv, CancelledOnDead

LEMMA PortsKept ==
  ASSUME EInv, UNCHANGED <<qActive, Queue!portVars>> PROVE Queue!PortsPointAtLive'
  BY DEF EInv, Queue!PortsPointAtLive, Queue!portVars

-----------------------------------------------------------------------------
(* Calls *)

LEMMA QueueCallKeeps ==
  ASSUME Queue!QueueSizes, EInv, NEW t \in Threads, NEW q \in Queue!Queues, NEW n \in {"enter", "try", "drain", "push"},
         Queue!Begin(t, q, n), UNCHANGED <<Queue!queueVars, Queue!portVars>>,
         \/ UNCHANGED evt /\ n # "push"
         \/ n = "push" /\ \E e \in Queue!Events \ {Queue!Blank} : evt' = [evt EXCEPT ![t] = e],
         qkind' \in [Threads -> Queue!Kinds]
  PROVE  EInv'
<1>1. /\ Moves(t, n, q) /\ qpc[t] = "idle" /\ UNCHANGED <<got, qcancelled>>
      /\ Queue!TypeOK /\ RingsSound /\ EventsOffered
  BY DEF Queue!Begin, Moves, EInv
<1>2. /\ qpc'[t] = n /\ que'[t] = q
      /\ \A u \in Threads : u # t => qpc'[u] = qpc[u] /\ que'[u] = que[u]
  BY <1>1, MovesOne
<1>3. Queue!TypeOK'
  BY <1>1 DEF Queue!TypeOK, Moves, Queue!PcValues, Queue!queueVars, Queue!portVars
<1>4. RingsSound'
  BY <1>1 DEF RingsSound, Queue!queueVars
<1>5. EventsOffered'
  BY <1>1, <1>2 DEF EventsOffered, Queue!TypeOK
<1>6. Queue!WaitersExact'
  BY <1>1, QueueWaitersKept DEF AtWait, Queue!queueVars
<1>7. Queue!NoLostWakeup' /\ Queue!NobodyAsleepOnDead'
  <2>1. \A r \in Queue!Queues : ring'[r].count <= ring[r].count
    BY CountOfRing DEF Queue!queueVars
  <2> QED BY <1>1, <1>3, <1>4, <2>1, WakesKept DEF Queue!queueVars
<1>8. Queue!PortsPointAtLive'
  BY PortsKept DEF Queue!queueVars
<1>9. CancelledOnDead'
  <2>1. t \notin qcancelled
    BY <1>1 DEF EInv, CancelledOnDead
  <2> QED BY <1>1, <2>1, CancelKept DEF Queue!queueVars
<1> QED BY <1>3, <1>4, <1>5, <1>6, <1>7, <1>8, <1>9 DEF EInv

LEMMA CallsKeep ==
  ASSUME Queue!QueueSizes, EInv, NEW t \in Threads,
         \/ \E p \in Queue!Ports, d \in Data : Queue!PortSend(t, p, d)
         \/ \E q \in Queue!Queues, d \in Data : Queue!PushById(t, q, d)
         \/ \E q \in Queue!Queues, k \in Queue!Kinds : Queue!ReceiveCall(t, q, k)
         \/ \E q \in Queue!Queues : Queue!TryCall(t, q) \/ Queue!DrainCall(t, q)
  PROVE  EInv'
<1>0. Queue!TypeOK /\ qkind \in [Threads -> Queue!Kinds]
  BY DEF EInv, Queue!TypeOK
<1>1. ASSUME NEW p \in Queue!Ports, NEW d \in Data, Queue!PortSend(t, p, d) PROVE EInv'
  <2>1. conn[p] \in Queue!Queues
    BY <1>0, <1>1 DEF Queue!PortSend, Queue!TypeOK
  <2> DEFINE e == [source |-> p, data |-> d]
  <2>2. e \in Queue!Events \ {Queue!Blank}
    BY DEF Queue!QueueSizes, Queue!Events, Queue!Blank
  <2>3. evt' = [evt EXCEPT ![t] = e] /\ UNCHANGED <<qkind, Queue!queueVars, Queue!portVars>>
        /\ Queue!Begin(t, conn[p], "push")
    BY <1>1 DEF Queue!PortSend
  <2> HIDE DEF e
  <2> QED BY <1>0, <2>1, <2>2, <2>3, QueueCallKeeps
<1>2. ASSUME NEW q \in Queue!Queues, NEW d \in Data, Queue!PushById(t, q, d) PROVE EInv'
  <2> DEFINE e == [source |-> 0, data |-> d]
  <2>2. e \in Queue!Events \ {Queue!Blank}
    BY DEF Queue!QueueSizes, Queue!Events, Queue!Blank
  <2>3. evt' = [evt EXCEPT ![t] = e] /\ UNCHANGED <<qkind, Queue!queueVars, Queue!portVars>>
        /\ Queue!Begin(t, q, "push")
    BY <1>2 DEF Queue!PushById
  <2> HIDE DEF e
  <2> QED BY <1>0, <2>2, <2>3, QueueCallKeeps
<1>3. ASSUME NEW q \in Queue!Queues, NEW k \in Queue!Kinds, Queue!ReceiveCall(t, q, k) PROVE EInv'
  <2>1. qkind' \in [Threads -> Queue!Kinds]
    BY <1>0, <1>3 DEF Queue!ReceiveCall
  <2> QED BY <1>3, <2>1, QueueCallKeeps DEF Queue!ReceiveCall
<1>4. ASSUME NEW q \in Queue!Queues, Queue!TryCall(t, q) \/ Queue!DrainCall(t, q) PROVE EInv'
  BY <1>0, <1>4, QueueCallKeeps DEF Queue!TryCall, Queue!DrainCall
<1> QED BY <1>1, <1>2, <1>3, <1>4

-----------------------------------------------------------------------------
(* Steps of a receive that go on *)

LEMMA GotoKeeps ==
  ASSUME Queue!QueueSizes, EInv, NEW t \in Threads, NEW n \in AtWait, Queue!Goto(t, n),
         UNCHANGED <<qActive, key, ring, forced, Queue!portVars>>, qpc[t] # "push", t \notin qcancelled,
         \/ qwaiters' = qwaiters /\ qpc[t] \in AtWait
         \/ /\ qwaiters' = [qwaiters EXCEPT ![que[t]] = qwaiters[que[t]] + 1]
            /\ qpc[t] \notin AtWait,
         n = "asleep" => Queue!MustWait(que[t]), n = "awake" => qpc[t] # "awake",
         qpc[t] = "awake" => ring[que[t]].count = 0
  PROVE  EInv'
<1>1. /\ Queue!TypeOK /\ RingsSound /\ EventsOffered /\ que[t] \in Queue!Queues /\ que' = que
      /\ qpc' = [qpc EXCEPT ![t] = n] /\ UNCHANGED <<evt, qkind, got, qcancelled>>
  BY DEF Queue!Goto, EInv, Queue!TypeOK
<1>2. Moves(t, n, que[t])
  BY <1>1 DEF Moves, Queue!TypeOK
<1>3. Queue!TypeOK'
  BY <1>1 DEF Queue!TypeOK, AtWait, Queue!PcValues, Queue!portVars
<1>4. RingsSound'
  BY <1>1 DEF RingsSound
<1>5. EventsOffered'
  BY <1>1 DEF EventsOffered, Queue!TypeOK, AtWait
<1>6. Queue!WaitersExact'
  BY <1>2, QueueWaitersKept
<1>7. Queue!NoLostWakeup' /\ Queue!NobodyAsleepOnDead'
  <2>1. \A r \in Queue!Queues : ring'[r].count <= ring[r].count
    BY CountOfRing
  <2> QED BY <1>1, <1>2, <1>3, <1>4, <2>1, WakesKept
<1>8. Queue!PortsPointAtLive'
  BY PortsKept
<1>9. CancelledOnDead'
  BY <1>1, <1>2, CancelKept
<1> QED BY <1>3, <1>4, <1>5, <1>6, <1>7, <1>8, <1>9 DEF EInv

LEMMA ReceiveGoesOn ==
  ASSUME Queue!QueueSizes, EInv, NEW t \in Threads,
         Queue!ReceiveEnter(t) \/ Queue!ReceiveResleep(t) \/ Queue!SpuriousWake(t) \/ Queue!ReceiveTimesOut(t)
  PROVE  EInv'
<1>0. CancelledOnDead
  BY DEF EInv
<1>1. CASE Queue!ReceiveEnter(t)
  <2>1. PICK n \in {"poll", "asleep"} : Queue!Goto(t, n)
    BY <1>1 DEF Queue!ReceiveEnter
  <2>2. t \notin qcancelled
    BY <1>0, <1>1 DEF Queue!ReceiveEnter, CancelledOnDead
  <2>3. qwaiters' = [qwaiters EXCEPT ![que[t]] = qwaiters[que[t]] + 1]
    BY <1>1 DEF Queue!ReceiveEnter
  <2> QED BY <1>1, <2>1, <2>2, <2>3, GotoKeeps DEF Queue!ReceiveEnter, AtWait
<1>2. CASE Queue!ReceiveResleep(t)
  <2>1. t \notin qcancelled /\ ring[que[t]].count = 0
    BY <1>0, <1>2 DEF Queue!ReceiveResleep, CancelledOnDead, Queue!MustWait
  <2> QED BY <1>2, <2>1, GotoKeeps DEF Queue!ReceiveResleep, AtWait, Queue!queueVars
<1>3. CASE Queue!SpuriousWake(t)
  BY <1>0, <1>3, GotoKeeps DEF Queue!SpuriousWake, AtWait, Queue!queueVars, CancelledOnDead
<1>4. CASE Queue!ReceiveTimesOut(t)
  BY <1>0, <1>4, GotoKeeps DEF Queue!ReceiveTimesOut, AtWait, Queue!queueVars, CancelledOnDead
<1> QED BY <1>1, <1>2, <1>3, <1>4

-----------------------------------------------------------------------------
(* Returns *)

LEMMA QueueReturnKeeps ==
  ASSUME Queue!QueueSizes, EInv, NEW t \in Threads, Queue!Return(t, qpc), NEW r, Sound(r),
         ring' = [ring EXCEPT ![que[t]] = r], r.count <= ring[que[t]].count,
         UNCHANGED <<qActive, key, forced, Queue!portVars>>, got' \in Seq(Queue!Events),
         \/ qwaiters' = qwaiters /\ qpc[t] \notin AtWait
         \/ /\ qwaiters' = [qwaiters EXCEPT ![que[t]] = qwaiters[que[t]] - 1]
            /\ qpc[t] \in AtWait,
         qpc[t] = "awake" => \/ r.count <= ring[que[t]].count - 1
                             \/ r.count = 0
                             \/ ~qActive[que[t]],
         qcancelled' \subseteq qcancelled \ {t}
  PROVE  EInv'
<1>1. /\ Queue!TypeOK /\ RingsSound /\ EventsOffered /\ que[t] \in Queue!Queues /\ 1 \in Queue!Queues
      /\ qpc' = [qpc EXCEPT ![t] = "idle"] /\ que' = [que EXCEPT ![t] = 1]
      /\ evt' = [evt EXCEPT ![t] = Queue!Blank] /\ qkind' = [qkind EXCEPT ![t] = "forever"]
      /\ r \in Queue!RingType
  BY DEF Queue!Return, EInv, Queue!TypeOK, Queue!QueueSizes, Queue!Queues, Sound
<1>2. Moves(t, "idle", 1)
  BY <1>1 DEF Moves
<1>3. Queue!TypeOK'
  <2>1. ring' \in [Queue!Queues -> Queue!RingType]
    BY <1>1 DEF Queue!TypeOK
  <2>2. qwaiters' \in [Queue!Queues -> Int]
    BY <1>1 DEF Queue!TypeOK
  <2>3. qpc' \in [Threads -> Queue!PcValues] /\ que' \in [Threads -> Queue!Queues]
        /\ evt' \in [Threads -> Queue!Events] /\ qkind' \in [Threads -> Queue!Kinds]
    BY <1>1 DEF Queue!TypeOK, Queue!PcValues, Queue!Events, Queue!Kinds
  <2>4. qcancelled' \subseteq Threads
    BY <1>1 DEF Queue!TypeOK
  <2> QED BY <1>1, <2>1, <2>2, <2>3, <2>4 DEF Queue!TypeOK, Queue!portVars
<1>4. RingsSound'
  BY <1>1 DEF RingsSound, Queue!TypeOK
<1>5. EventsOffered'
  BY <1>1 DEF EventsOffered, Queue!TypeOK
<1>6. Queue!WaitersExact'
  BY <1>2, QueueWaitersKept DEF AtWait
<1>7. Queue!NoLostWakeup' /\ Queue!NobodyAsleepOnDead'
  <2>1. \A q \in Queue!Queues : ring'[q].count <= ring[q].count
    BY <1>1, CountOfRing DEF Queue!TypeOK
  <2>2. ring'[que[t]].count = r.count
    BY <1>1 DEF Queue!TypeOK
  <2> QED BY <1>2, <1>3, <1>4, <2>1, <2>2, WakesKept
<1>8. Queue!PortsPointAtLive'
  BY PortsKept
<1>9. CancelledOnDead'
  BY <1>2, CancelKept
<1> QED BY <1>3, <1>4, <1>5, <1>6, <1>7, <1>8, <1>9 DEF EInv

LEMMA NotCancelled ==
  ASSUME EInv, NEW t \in Threads, qpc[t] \notin {"awake", "poll"} \/ qActive[que[t]]
  PROVE  qcancelled \subseteq qcancelled \ {t}
  BY DEF EInv, CancelledOnDead

LEMMA PushFullKeeps == ASSUME Queue!QueueSizes, EInv, NEW t \in Threads, Queue!PushFull(t) PROVE EInv'
<1>1. Sound(ring[que[t]]) /\ ring' = [ring EXCEPT ![que[t]] = ring[que[t]]]
      /\ ring[que[t]].count \in Nat /\ got' \in Seq(Queue!Events)
  BY CountOfRing DEF Queue!PushFull, Queue!queueVars, EInv, Queue!TypeOK
<1>2. Queue!Return(t, qpc) /\ qpc[t] \notin AtWait /\ qpc[t] = "push"
      /\ UNCHANGED <<qActive, key, forced, qwaiters, Queue!portVars, qcancelled>>
  BY DEF Queue!PushFull, AtWait, Queue!queueVars
<1>3. qcancelled' \subseteq qcancelled \ {t} /\ qwaiters' = qwaiters
  BY <1>2, NotCancelled
<1>4. ring[que[t]].count <= ring[que[t]].count /\ qpc[t] # "awake"
  BY <1>1, <1>2
<1> QED BY <1>1, <1>2, <1>3, <1>4, QueueReturnKeeps

LEMMA OneIsSeq == ASSUME NEW e \in Queue!Events PROVE <<e>> \in Seq(Queue!Events)
  OBVIOUS

\* What a receive that ends leaves in the ring.
LEMMA EndFacts ==
  ASSUME Queue!QueueSizes, EInv, NEW t \in Threads, Queue!ReceiveEnd(t)
  PROVE  LET q == que[t] IN
         /\ q \in Queue!Queues /\ Queue!Return(t, qpc) /\ qpc[t] \in {"enter", "awake", "poll"}
         /\ qwaiters' = IF qpc[t] = "enter" THEN qwaiters ELSE [qwaiters EXCEPT ![q] = qwaiters[q] - 1]
         /\ UNCHANGED <<qActive, key, forced, Queue!portVars>>
         /\ qActive[q] => /\ ring[q].count > 0
                          /\ ring' = [ring EXCEPT ![q] = Queue!Popped(ring[q], 1)]
                          /\ got' = <<ring[q].buf[ring[q].head]>> /\ qcancelled' = qcancelled
         /\ ~qActive[q] => /\ ring' = ring /\ got' = got
                           /\ qcancelled' = IF Queue!Refusal(q) = "ECANCELED" THEN qcancelled \ {t}
                                                                       ELSE qcancelled
<1> DEFINE q == que[t]
<1>1. Queue!TypeOK /\ q \in Queue!Queues /\ ring[q].count \in Nat
  BY CountOfRing DEF EInv, Queue!TypeOK
<1>2. qwaiters' = IF qpc[t] = "enter" THEN qwaiters ELSE [qwaiters EXCEPT ![q] = qwaiters[q] - 1]
  BY <1>1 DEF Queue!ReceiveEnd, Queue!WaitersAfter, Queue!TypeOK
<1>3. qpc[t] \in {"enter", "awake", "poll"} /\ ~Queue!MustWait(q)
  BY DEF Queue!ReceiveEnd, Queue!CanEnd
<1>4. qActive[q] => ring[q].count > 0
  BY <1>1, <1>3 DEF Queue!MustWait
<1> QED BY <1>1, <1>2, <1>3, <1>4 DEF Queue!ReceiveEnd

LEMMA EndKeeps == ASSUME Queue!QueueSizes, EInv, NEW t \in Threads, Queue!ReceiveEnd(t) PROVE EInv'
<1> DEFINE q == que[t]
           r == IF qActive[q] THEN Queue!Popped(ring[q], 1) ELSE ring[q]
<1>1. /\ q \in Queue!Queues /\ Queue!Return(t, qpc) /\ qpc[t] \in {"enter", "awake", "poll"}
      /\ qwaiters' = IF qpc[t] = "enter" THEN qwaiters ELSE [qwaiters EXCEPT ![q] = qwaiters[q] - 1]
      /\ UNCHANGED <<qActive, key, forced, Queue!portVars>>
      /\ qActive[q] => /\ ring[q].count > 0
                       /\ ring' = [ring EXCEPT ![q] = Queue!Popped(ring[q], 1)]
                       /\ got' = <<ring[q].buf[ring[q].head]>> /\ qcancelled' = qcancelled
      /\ ~qActive[q] => /\ ring' = ring /\ got' = got
                        /\ qcancelled' = IF Queue!Refusal(q) = "ECANCELED" THEN qcancelled \ {t}
                                                                    ELSE qcancelled
  BY EndFacts
<1>2. Sound(ring[q]) /\ ring[q].count \in Nat /\ ring \in [Queue!Queues -> Queue!RingType] /\ got \in Seq(Queue!Events)
  BY <1>1, CountOfRing DEF EInv, Queue!TypeOK
<1>3. CASE qActive[q]
  <2>1. Sound(r) /\ r.count = ring[q].count - 1 /\ ring' = [ring EXCEPT ![q] = r]
    BY <1>1, <1>2, <1>3, PoppedIsSound
  <2>2. got' \in Seq(Queue!Events)
    <3>1. ring[q].head \in 0 .. BufMax - 1 /\ ring[q].buf \in [0 .. BufMax - 1 -> Queue!Events]
      BY <1>2 DEF Sound, Queue!RingType
    <3>2. ring[q].buf[ring[q].head] \in Queue!Events
      BY <3>1
    <3>3. <<ring[q].buf[ring[q].head]>> \in Seq(Queue!Events)
      BY <3>2, OneIsSeq
    <3> QED BY <1>1, <1>3, <3>3
  <2>3. qcancelled' \subseteq qcancelled \ {t}
    BY <1>1, <1>3, NotCancelled
  <2>4. \/ qwaiters' = qwaiters /\ qpc[t] \notin AtWait
        \/ /\ qwaiters' = [qwaiters EXCEPT ![q] = qwaiters[q] - 1]
           /\ qpc[t] \in AtWait
    BY <1>1 DEF AtWait
  <2> HIDE DEF r
  <2>5. r.count <= ring[q].count /\ r.count <= ring[q].count - 1
    BY <1>2, <2>1
  <2> QED BY <1>1, <2>1, <2>2, <2>3, <2>4, <2>5, QueueReturnKeeps
<1>4. CASE ~qActive[q]
  <2>1. ring' = [ring EXCEPT ![q] = ring[q]]
    BY <1>1, <1>2, <1>4
  <2>2. qcancelled' \subseteq qcancelled \ {t}
    BY <1>1, <1>4 DEF EInv, CancelledOnDead, Queue!Refusal
  <2>3. \/ qwaiters' = qwaiters /\ qpc[t] \notin AtWait
        \/ /\ qwaiters' = [qwaiters EXCEPT ![q] = qwaiters[q] - 1]
           /\ qpc[t] \in AtWait
    BY <1>1 DEF AtWait
  <2>4. ring[q].count <= ring[q].count /\ got' \in Seq(Queue!Events)
    BY <1>1, <1>2, <1>4
  <2> QED BY <1>1, <1>2, <1>4, <2>1, <2>2, <2>3, <2>4, QueueReturnKeeps
<1> QED BY <1>3, <1>4

LEMMA LateKeeps == ASSUME Queue!QueueSizes, EInv, NEW t \in Threads, Queue!ReceiveLate(t) PROVE EInv'
<1>1. Sound(ring[que[t]]) /\ ring' = [ring EXCEPT ![que[t]] = ring[que[t]]]
      /\ ring[que[t]].count \in Nat /\ got' \in Seq(Queue!Events)
  BY CountOfRing DEF Queue!ReceiveLate, EInv, Queue!TypeOK
<1>2. Queue!Return(t, qpc) /\ qpc[t] \in {"late", "poll"} /\ UNCHANGED <<qActive, key, forced, Queue!portVars, qcancelled>>
  BY DEF Queue!ReceiveLate
<1>3. qwaiters' = [qwaiters EXCEPT ![que[t]] = qwaiters[que[t]] - 1]
  BY <1>2 DEF Queue!ReceiveLate, Queue!WaitersAfter
<1>4. qcancelled' \subseteq qcancelled \ {t}
  BY <1>2, NotCancelled DEF Queue!ReceiveLate, Queue!MustWait
<1>5. qpc[t] \in AtWait /\ qpc[t] # "awake" /\ ring[que[t]].count <= ring[que[t]].count
  BY <1>1, <1>2 DEF AtWait
<1> QED BY <1>1, <1>2, <1>3, <1>4, <1>5, QueueReturnKeeps

LEMMA TryFacts ==
  ASSUME Queue!QueueSizes, EInv, NEW t \in Threads, NEW n \in 0 .. BufMax, Queue!TryReceive(t, n)
  PROVE  \E k \in 0 .. ring[que[t]].count :
           /\ ring' = [ring EXCEPT ![que[t]] = Queue!Popped(ring[que[t]], k)]
           /\ got' = SubSeq(Queue!Content(ring[que[t]]), 1, k)
<1>1. ring[que[t]].count \in Nat
  BY CountOfRing DEF EInv, Queue!TypeOK
<1> DEFINE k == IF n < ring[que[t]].count THEN n ELSE ring[que[t]].count
<1>2. k \in 0 .. ring[que[t]].count
  BY <1>1
<1> QED BY <1>2 DEF Queue!TryReceive

LEMMA TryKeeps ==
  ASSUME Queue!QueueSizes, EInv, NEW t \in Threads, NEW n \in 0 .. BufMax, Queue!TryReceive(t, n) PROVE EInv'
<1> DEFINE r == ring[que[t]]
<1>1. PICK k \in 0 .. r.count : /\ ring' = [ring EXCEPT ![que[t]] = Queue!Popped(r, k)]
                                /\ got' = SubSeq(Queue!Content(r), 1, k)
  BY TryFacts
<1>2. Sound(r) /\ r.count \in Nat
  BY CountOfRing DEF EInv, Queue!TypeOK
<1>3. Sound(Queue!Popped(r, k)) /\ Queue!Popped(r, k).count <= r.count
  BY <1>2, PoppedIsSound
<1>4. got' \in Seq(Queue!Events)
  <2>1. Queue!Content(r) \in Seq(Queue!Events) /\ Len(Queue!Content(r)) = r.count
    BY <1>2, ContentIsSeq
  <2>2. \A i \in 1 .. k : Queue!Content(r)[i] \in Queue!Events
    BY <1>2, <2>1, ElementOfSeq
  <2>3. k \in Int
    BY <1>2
  <2> QED BY <1>1, <2>2, <2>3, SubSeqProperties
<1>5. Queue!Return(t, qpc) /\ qpc[t] = "try" /\ UNCHANGED <<qActive, key, qwaiters, forced, Queue!portVars, qcancelled>>
  BY DEF Queue!TryReceive
<1>6. qcancelled' \subseteq qcancelled \ {t}
  BY <1>5, NotCancelled
<1> QED BY <1>1, <1>3, <1>4, <1>5, <1>6, QueueReturnKeeps DEF AtWait

LEMMA DrainKeeps == ASSUME Queue!QueueSizes, EInv, NEW t \in Threads, Queue!Drain(t) PROVE EInv'
<1>1. Sound(ring[que[t]]) /\ ring[que[t]].count \in Nat /\ got \in Seq(Queue!Events)
  BY CountOfRing DEF EInv, Queue!TypeOK
<1>2. Sound(Queue!Drained(ring[que[t]])) /\ Queue!Drained(ring[que[t]]).count = 0
  BY <1>1, DrainedIsSound
<1>3. /\ Queue!Return(t, qpc) /\ qpc[t] = "drain" /\ ring' = [ring EXCEPT ![que[t]] = Queue!Drained(ring[que[t]])]
      /\ UNCHANGED <<qActive, key, qwaiters, forced, Queue!portVars, got, qcancelled>>
  BY DEF Queue!Drain
<1>4. qcancelled' \subseteq qcancelled \ {t}
  BY <1>3, NotCancelled
<1>5. Queue!Drained(ring[que[t]]).count <= ring[que[t]].count /\ qpc[t] \notin AtWait /\ qpc[t] # "awake"
  BY <1>1, <1>2, <1>3 DEF AtWait
<1> QED BY <1>1, <1>2, <1>3, <1>4, <1>5, QueueReturnKeeps

-----------------------------------------------------------------------------
(* Push *)

\* Where the threads are after a push: its own thread is back, and one sleeper
\* of the queue is awake, if there was one.
LEMMA PushFacts ==
  ASSUME Queue!QueueSizes, EInv, NEW t \in Threads, Queue!Push(t)
  PROVE  LET q == que[t] IN
         /\ q \in Queue!Queues /\ qpc[t] = "push" /\ evt[t] # Queue!Blank /\ evt[t] \in Queue!Events
         /\ Sound(ring[q]) /\ ~Queue!Full(ring[q]) /\ ring' = [ring EXCEPT ![q] = Queue!Pushed(ring[q], evt[t])]
         /\ UNCHANGED <<qActive, key, qwaiters, forced, Queue!portVars, got, qcancelled>>
         /\ que' = [que EXCEPT ![t] = 1] /\ evt' = [evt EXCEPT ![t] = Queue!Blank]
         /\ qkind' = [qkind EXCEPT ![t] = "forever"]
         /\ \/ Queue!Asleep(q) = {} /\ qpc' = [qpc EXCEPT ![t] = "idle"]
            \/ \E w \in Queue!Asleep(q) : qpc' = [qpc EXCEPT ![w] = "awake", ![t] = "idle"]
<1>1. que[t] \in Queue!Queues /\ evt[t] \in Queue!Events /\ qpc[t] = "push" /\ evt[t] # Queue!Blank
  BY DEF Queue!Push, EInv, Queue!TypeOK, EventsOffered
<1>2. Sound(ring[que[t]])
  BY <1>1, CountOfRing
<1> QED BY <1>1, <1>2 DEF Queue!Push, Queue!Return, Queue!WokenBy

\* The threads of an active call but the sleeper stay where they are.
LEMMA PushMoves ==
  ASSUME Queue!QueueSizes, EInv, NEW t \in Threads, Queue!Push(t)
  PROVE  /\ qpc' \in [Threads -> Queue!PcValues] /\ que' \in [Threads -> Queue!Queues]
         /\ qpc'[t] = "idle"
         /\ \A u \in Threads : u # t => /\ que'[u] = que[u]
                                        /\ qpc'[u] = qpc[u] \/ (qpc[u] = "asleep" /\ qpc'[u] = "awake")
         /\ \A q \in Queue!Queues : QueueIn(AtWait, q)' = QueueIn(AtWait, q)
<1>1. Queue!TypeOK /\ 1 \in Queue!Queues
  BY DEF EInv, Queue!QueueSizes, Queue!Queues
<1>2. PICK w \in Threads : \/ qpc' = [qpc EXCEPT ![t] = "idle"]
                           \/ qpc[w] = "asleep" /\ qpc' = [qpc EXCEPT ![w] = "awake", ![t] = "idle"]
  BY PushFacts DEF Queue!Asleep
<1>3. qpc[t] = "push" /\ que' = [que EXCEPT ![t] = 1]
  BY PushFacts
<1>4. qpc' \in [Threads -> Queue!PcValues] /\ que' \in [Threads -> Queue!Queues]
  BY <1>1, <1>2, <1>3 DEF Queue!TypeOK, Queue!PcValues
<1>5. qpc'[t] = "idle"
  BY <1>1, <1>2 DEF Queue!TypeOK
<1>6. \A u \in Threads : u # t => /\ que'[u] = que[u]
                                  /\ qpc'[u] = qpc[u] \/ (qpc[u] = "asleep" /\ qpc'[u] = "awake")
  BY <1>1, <1>2, <1>3 DEF Queue!TypeOK
<1>7. \A q \in Queue!Queues : QueueIn(AtWait, q)' = QueueIn(AtWait, q)
  BY <1>3, <1>5, <1>6 DEF QueueIn, AtWait
<1> QED BY <1>4, <1>5, <1>6, <1>7

LEMMA PushKeeps == ASSUME Queue!QueueSizes, EInv, NEW t \in Threads, Queue!Push(t) PROVE EInv'
<1> DEFINE q == que[t]
           r == Queue!Pushed(ring[q], evt[t])
<1>1. /\ q \in Queue!Queues /\ qpc[t] = "push" /\ evt[t] # Queue!Blank /\ evt[t] \in Queue!Events
      /\ Sound(ring[q]) /\ ~Queue!Full(ring[q]) /\ ring' = [ring EXCEPT ![q] = r]
      /\ UNCHANGED <<qActive, key, qwaiters, forced, Queue!portVars, got, qcancelled>>
      /\ que' = [que EXCEPT ![t] = 1] /\ evt' = [evt EXCEPT ![t] = Queue!Blank]
      /\ qkind' = [qkind EXCEPT ![t] = "forever"]
      /\ \/ Queue!Asleep(q) = {} /\ qpc' = [qpc EXCEPT ![t] = "idle"]
         \/ \E w \in Queue!Asleep(q) : qpc' = [qpc EXCEPT ![w] = "awake", ![t] = "idle"]
  BY PushFacts
<1>2. /\ qpc' \in [Threads -> Queue!PcValues] /\ que' \in [Threads -> Queue!Queues] /\ qpc'[t] = "idle"
      /\ \A u \in Threads : u # t => /\ que'[u] = que[u]
                                     /\ qpc'[u] = qpc[u] \/ (qpc[u] = "asleep" /\ qpc'[u] = "awake")
      /\ \A p \in Queue!Queues : QueueIn(AtWait, p)' = QueueIn(AtWait, p)
  BY PushMoves
<1>3. Sound(r) /\ r.count = ring[q].count + 1 /\ ring[q].count \in Nat
  BY <1>1, PushedIsSound, CountOfRing
<1> HIDE DEF r
<1>4. Queue!TypeOK /\ RingsSound /\ EventsOffered /\ Queue!WaitersExact /\ Queue!NoLostWakeup /\ Queue!NobodyAsleepOnDead
      /\ CancelledOnDead
  BY DEF EInv
<1>5. Queue!TypeOK'
  <2>1. ring' \in [Queue!Queues -> Queue!RingType]
    BY <1>1, <1>3, <1>4 DEF Queue!TypeOK, Sound
  <2>2. evt' \in [Threads -> Queue!Events] /\ qkind' \in [Threads -> Queue!Kinds]
    BY <1>1, <1>4 DEF Queue!TypeOK, Queue!Events, Queue!Kinds
  <2> QED BY <1>1, <1>2, <1>4, <2>1, <2>2 DEF Queue!TypeOK, Queue!portVars
<1>6. RingsSound'
  BY <1>1, <1>3, <1>4 DEF RingsSound, Queue!TypeOK
<1>7. EventsOffered'
  BY <1>1, <1>2, <1>4 DEF EventsOffered, Queue!TypeOK
<1>8. Queue!WaitersExact'
  BY <1>1, <1>2, <1>4 DEF Queue!WaitersExact, Queue!Counted, QueueIn, AtWait
<1>9. Queue!NobodyAsleepOnDead'
  <2>1. \A p \in Queue!Queues : Queue!Asleep(p)' \subseteq Queue!Asleep(p)
    BY <1>2 DEF Queue!Asleep
  <2> QED BY <1>1, <1>4, <2>1 DEF Queue!NobodyAsleepOnDead
<1>10. Queue!NoLostWakeup'
  <2> SUFFICES ASSUME NEW p \in Queue!Queues, Queue!Asleep(p)' # {}
               PROVE  ring'[p].count <= Cardinality(Queue!Awake(p)')
    BY SameCardinality DEF Queue!NoLostWakeup
  <2>1. Queue!Asleep(p) # {} /\ ring[p].count <= Cardinality(Queue!Awake(p))
    BY <1>2, <1>4, SameCardinality DEF Queue!Asleep, Queue!NoLostWakeup
  <2>2. CASE p # q
    <3>1. Queue!Awake(p)' = Queue!Awake(p)
      BY <1>1, <1>2, <1>4, <2>2 DEF Queue!Awake, Queue!Asleep, Queue!TypeOK
    <3> QED BY <1>1, <1>4, <2>1, <2>2, <3>1 DEF Queue!TypeOK
  <2>3. CASE p = q
    <3>1. PICK w \in Queue!Asleep(q) : qpc' = [qpc EXCEPT ![w] = "awake", ![t] = "idle"]
      BY <1>1, <2>1, <2>3
    <3>2. w \in Threads /\ w # t /\ qpc[w] = "asleep" /\ que[w] = p
      BY <1>1, <2>3 DEF Queue!Asleep
    <3>3. Queue!Awake(p)' = Queue!Awake(p) \cup {w} /\ w \notin Queue!Awake(p)
      <4>1. \A u \in Threads : qpc'[u] = IF u = t THEN "idle" ELSE IF u = w THEN "awake" ELSE qpc[u]
        BY <1>4, <3>1, <3>2 DEF Queue!TypeOK
      <4>2. \A u \in Threads \ {t} : que'[u] = que[u]
        BY <1>2
      <4>3. qpc[t] = "push"
        BY <1>1
      <4> QED BY <3>2, <4>1, <4>2, <4>3 DEF Queue!Awake
    <3>4. IsFiniteSet(Queue!Awake(p)) /\ Cardinality(Queue!Awake(p)) \in Nat
      BY FS_Subset, FS_CardinalityType, SameCardinality DEF Queue!Awake, Queue!QueueSizes
    <3>5. Cardinality(Queue!Awake(p) \cup {w}) = Cardinality(Queue!Awake(p)) + 1
      BY <3>3, <3>4, FS_AddElement
    <3>6. ring'[p].count = ring[p].count + 1
      BY <1>1, <1>3, <1>4, <2>3 DEF Queue!TypeOK
    <3>7. Cardinality(Queue!Awake(p)') = Cardinality(Queue!Awake(p)) + 1
      BY <3>3, <3>5
    <3> QED BY <1>3, <2>1, <2>3, <3>4, <3>6, <3>7
  <2> QED BY <2>2, <2>3
<1>11. Queue!PortsPointAtLive'
  BY <1>1, PortsKept
<1>12. CancelledOnDead'
  BY <1>1, <1>2, <1>4 DEF CancelledOnDead, Queue!TypeOK
<1> QED BY <1>5, <1>6, <1>7, <1>8, <1>9, <1>10, <1>11, <1>12 DEF EInv

-----------------------------------------------------------------------------
(* Tables *)

LEMMA PortTablesKeep ==
  ASSUME Queue!QueueSizes, EInv, NEW t \in Threads, NEW p \in Queue!Ports,
         \/ Queue!PortCreate(t, p) \/ Queue!PortDestroy(t, p) \/ Queue!PortDisconnect(t, p)
         \/ \E q \in Queue!Queues : Queue!PortConnect(t, p, q)
  PROVE  EInv'
<1>1. Queue!TypeOK /\ Queue!PortsPointAtLive /\ UNCHANGED <<Queue!queueVars, Queue!callVars>>
  BY DEF EInv, Queue!PortCreate, Queue!PortDestroy, Queue!PortDisconnect, Queue!PortConnect
<1>2. Queue!TypeOK' /\ Queue!PortsPointAtLive'
  <2>1. CASE Queue!PortCreate(t, p)
    BY <1>1, <2>1 DEF Queue!PortCreate, Queue!TypeOK, Queue!PortsPointAtLive, Queue!queueVars,
       Queue!callVars
  <2>2. CASE Queue!PortDestroy(t, p)
    BY <1>1, <2>2 DEF Queue!PortDestroy, Queue!TypeOK, Queue!PortsPointAtLive, Queue!queueVars,
       Queue!callVars
  <2>3. CASE Queue!PortDisconnect(t, p)
    BY <1>1, <2>3 DEF Queue!PortDisconnect, Queue!TypeOK, Queue!PortsPointAtLive,
       Queue!queueVars, Queue!callVars
  <2>4. ASSUME NEW q \in Queue!Queues, Queue!PortConnect(t, p, q) PROVE Queue!TypeOK' /\ Queue!PortsPointAtLive'
    BY <1>1, <2>4 DEF Queue!PortConnect, Queue!TypeOK, Queue!PortsPointAtLive, Queue!queueVars,
       Queue!callVars
  <2> QED BY <2>1, <2>2, <2>3, <2>4
<1>3. RingsSound' /\ EventsOffered' /\ Queue!WaitersExact' /\ Queue!NoLostWakeup' /\ Queue!NobodyAsleepOnDead'
      /\ CancelledOnDead'
  BY <1>1 DEF EInv, RingsSound, EventsOffered, Queue!WaitersExact, Queue!Counted,
     Queue!NoLostWakeup,
     Queue!NobodyAsleepOnDead, Queue!Asleep, Queue!Awake, CancelledOnDead, Queue!queueVars, Queue!callVars
<1> QED BY <1>2, <1>3 DEF EInv

\* A slot is created when no call is left on it.
LEMMA QueueCreateKeeps ==
  ASSUME Queue!QueueSizes, EagerReuse = FALSE, EInv, NEW t \in Threads, NEW q \in Queue!Queues,
         NEW k \in Keys \cup {0}, NEW n \in 1 .. BufMax, Queue!QueueCreate(t, q, k, n)
  PROVE  EInv'
<1>1. /\ Queue!TypeOK /\ RingsSound /\ EventsOffered /\ Queue!WaitersExact /\ Queue!NoLostWakeup
      /\ Queue!NobodyAsleepOnDead /\ Queue!PortsPointAtLive /\ CancelledOnDead
      /\ Queue!Unwinding(q) = {} /\ ~qActive[q]
      /\ qActive' = [qActive EXCEPT ![q] = TRUE] /\ key' = [key EXCEPT ![q] = k]
      /\ ring' = [ring EXCEPT ![q] = Queue!EmptyRing(n)] /\ qwaiters' = [qwaiters EXCEPT ![q] = 0]
      /\ forced' = [forced EXCEPT ![q] = FALSE]
      /\ UNCHANGED <<pActive, conn, qpc, que, evt, qkind, got, qcancelled>>
  BY DEF Queue!QueueCreate, EInv, Queue!portVars, Queue!callVars
<1>2. Sound(Queue!EmptyRing(n)) /\ Queue!EmptyRing(n) \in Queue!RingType
  BY EmptyIsSound DEF Sound
<1>3. Queue!TypeOK'
  BY <1>1, <1>2 DEF Queue!TypeOK
<1>4. RingsSound'
  BY <1>1, <1>2 DEF RingsSound, Queue!TypeOK
<1>5. EventsOffered'
  BY <1>1 DEF EventsOffered
<1>6. \A p \in Queue!Queues : Queue!Counted(p)' = Queue!Counted(p) /\ Queue!Asleep(p)' = Queue!Asleep(p) /\ Queue!Awake(p)' = Queue!Awake(p)
  BY <1>1 DEF Queue!Counted, Queue!Asleep, Queue!Awake
<1>7. Queue!Counted(q) = {} /\ Queue!Asleep(q) = {}
  BY <1>1 DEF Queue!Unwinding, Queue!Counted, Queue!Asleep
<1>8. Queue!WaitersExact'
  <2>1. qwaiters'[q] = Cardinality(Queue!Counted(q))
    BY <1>1, <1>7, FS_EmptySet DEF Queue!TypeOK
  <2> QED BY <1>1, <1>6, <2>1, SameCardinality DEF Queue!WaitersExact, Queue!TypeOK
<1>9. Queue!NoLostWakeup' /\ Queue!NobodyAsleepOnDead'
  BY <1>1, <1>6, <1>7 DEF Queue!NoLostWakeup, Queue!NobodyAsleepOnDead, Queue!TypeOK
<1>10. Queue!PortsPointAtLive'
  BY <1>1 DEF Queue!PortsPointAtLive, Queue!TypeOK
<1>11. CancelledOnDead'
  <2>1. \A u \in qcancelled : que[u] # q /\ que[u] \in Queue!Queues
    BY <1>1 DEF CancelledOnDead, Queue!Unwinding, Queue!TypeOK
  <2> QED BY <1>1, <2>1 DEF CancelledOnDead, Queue!TypeOK
<1> QED BY <1>3, <1>4, <1>5, <1>8, <1>9, <1>10, <1>11 DEF EInv

LEMMA QueueDestroyKeeps ==
  ASSUME Queue!QueueSizes, EInv, NEW t \in Threads, NEW q \in Queue!Queues, NEW force \in BOOLEAN,
         Queue!QueueDestroy(t, q, force)
  PROVE  EInv'
<1>1. /\ Queue!TypeOK /\ RingsSound /\ EventsOffered /\ Queue!WaitersExact /\ Queue!NoLostWakeup
      /\ Queue!NobodyAsleepOnDead /\ Queue!PortsPointAtLive /\ CancelledOnDead /\ qActive[q]
      /\ qActive' = [qActive EXCEPT ![q] = FALSE]
      /\ forced' = [forced EXCEPT ![q] = force \/ forced[q]]
      /\ qpc' = [s \in Threads |-> IF s \in Queue!Asleep(q) THEN "awake" ELSE qpc[s]]
      /\ conn' = [p \in Queue!Ports |-> IF pActive[p] /\ conn[p] = q THEN 0 ELSE conn[p]]
      /\ qcancelled' = IF force THEN qcancelled \cup Queue!Parked(q) ELSE qcancelled
      /\ UNCHANGED <<key, ring, qwaiters, pActive, que, evt, qkind, got>>
  BY DEF Queue!QueueDestroy, EInv, Queue!WokenByDestroy, Queue!SweptWith
<1>2. Queue!TypeOK'
  <2>1. forced' \in [Queue!Queues -> BOOLEAN]
    BY <1>1 DEF Queue!TypeOK
  <2>2. qpc' \in [Threads -> Queue!PcValues]
    BY <1>1 DEF Queue!TypeOK, Queue!PcValues
  <2>3. conn' \in [Queue!Ports -> Queue!Queues \cup {0}]
    BY <1>1 DEF Queue!TypeOK
  <2>4. qcancelled' \subseteq Threads
    BY <1>1 DEF Queue!TypeOK, Queue!Parked, Queue!Asleep, Queue!Awake, Queue!Polling
  <2> QED BY <1>1, <2>1, <2>2, <2>3, <2>4 DEF Queue!TypeOK
<1>3. RingsSound'
  BY <1>1 DEF RingsSound
<1>4. EventsOffered'
  BY <1>1 DEF EventsOffered, Queue!Asleep
<1>5. \A p \in Queue!Queues : Queue!Counted(p)' = Queue!Counted(p)
  BY <1>1 DEF Queue!Counted, Queue!Asleep
<1>6. Queue!WaitersExact'
  BY <1>1, <1>5 DEF Queue!WaitersExact
<1>7. Queue!Asleep(q)' = {} /\ \A p \in Queue!Queues \ {q} : Queue!Asleep(p)' = Queue!Asleep(p) /\ Queue!Awake(p)' = Queue!Awake(p)
  BY <1>1 DEF Queue!Asleep, Queue!Awake
<1>8. Queue!NoLostWakeup' /\ Queue!NobodyAsleepOnDead'
  BY <1>1, <1>7 DEF Queue!NoLostWakeup, Queue!NobodyAsleepOnDead, Queue!TypeOK
<1>9. Queue!PortsPointAtLive'
  BY <1>1 DEF Queue!PortsPointAtLive, Queue!TypeOK
<1>10. CancelledOnDead'
  <2> SUFFICES ASSUME NEW u \in qcancelled'
               PROVE  qpc'[u] \in {"awake", "poll"} /\ ~qActive'[que'[u]] /\ forced'[que'[u]]
    BY DEF CancelledOnDead
  <2>1. u \in Threads /\ que[u] \in Queue!Queues
    BY <1>1, <1>2 DEF Queue!TypeOK
  <2>2. CASE u \in qcancelled
    BY <1>1, <2>1, <2>2 DEF CancelledOnDead, Queue!Asleep, Queue!TypeOK
  <2>3. CASE force /\ u \in Queue!Parked(q)
    BY <1>1, <2>1, <2>3 DEF Queue!Parked, Queue!Asleep, Queue!Awake, Queue!Polling, Queue!TypeOK
  <2> QED BY <1>1, <2>2, <2>3
<1> QED BY <1>2, <1>3, <1>4, <1>6, <1>8, <1>9, <1>10 DEF EInv

-----------------------------------------------------------------------------

LEMMA InitEInv == Queue!QueueSizes /\ Queue!Init => EInv
<1> SUFFICES ASSUME Queue!QueueSizes, Queue!Init PROVE EInv
  OBVIOUS
<1>1. 1 \in Queue!Queues /\ 1 \in 1 .. BufMax
  BY DEF Queue!QueueSizes, Queue!Queues
<1>2. Sound(Queue!EmptyRing(1)) /\ Queue!EmptyRing(1) \in Queue!RingType /\ Queue!EmptyRing(1).count = 0
  BY <1>1, EmptyIsSound DEF Sound
<1>3. Queue!TypeOK
  BY <1>1, <1>2 DEF Queue!Init, Queue!TypeOK, Queue!PcValues, Queue!Kinds, Queue!Events
<1>4. RingsSound /\ EventsOffered
  BY <1>2 DEF Queue!Init, RingsSound, EventsOffered
<1>5. \A q \in Queue!Queues : Queue!Counted(q) = {} /\ Queue!Asleep(q) = {}
  BY DEF Queue!Init, Queue!Counted, Queue!Asleep
<1>6. Queue!WaitersExact
  BY <1>5, FS_EmptySet, SameCardinality DEF Queue!Init, Queue!WaitersExact
<1>7. Queue!NoLostWakeup /\ Queue!NobodyAsleepOnDead /\ Queue!PortsPointAtLive /\ CancelledOnDead
  BY <1>5 DEF Queue!Init, Queue!NoLostWakeup, Queue!NobodyAsleepOnDead, Queue!PortsPointAtLive,
     CancelledOnDead
<1> QED BY <1>3, <1>4, <1>6, <1>7 DEF EInv

LEMMA NextEInv == Queue!QueueSizes /\ EagerReuse = FALSE /\ EInv /\ [Queue!Next]_(Queue!vars) => EInv'
<1> SUFFICES ASSUME Queue!QueueSizes, EagerReuse = FALSE, EInv, [Queue!Next]_(Queue!vars) PROVE EInv'
  OBVIOUS
<1>1. CASE UNCHANGED Queue!vars
  <2>1. Queue!TypeOK' /\ RingsSound' /\ EventsOffered'
    BY <1>1 DEF Queue!vars, EInv, Queue!TypeOK, RingsSound, EventsOffered
  <2>2. Queue!WaitersExact' /\ Queue!NoLostWakeup' /\ Queue!NobodyAsleepOnDead'
    BY <1>1 DEF Queue!vars, EInv, Queue!WaitersExact, Queue!Counted, Queue!NoLostWakeup,
       Queue!NobodyAsleepOnDead, Queue!Asleep, Queue!Awake
  <2>3. Queue!PortsPointAtLive' /\ CancelledOnDead'
    BY <1>1 DEF Queue!vars, EInv, Queue!PortsPointAtLive, CancelledOnDead
  <2> QED BY <2>1, <2>2, <2>3 DEF EInv
<1>2. ASSUME NEW t \in Threads, Queue!Call(t) PROVE EInv'
  BY <1>2, CallsKeep, PortTablesKeep, QueueCreateKeeps, QueueDestroyKeeps DEF Queue!Call
<1>3. ASSUME NEW t \in Threads, Queue!Step(t) \/ Queue!ReceiveTimesOut(t) \/ Queue!SpuriousWake(t) PROVE EInv'
  BY <1>3, PushKeeps, PushFullKeeps, ReceiveGoesOn, EndKeeps, LateKeeps, TryKeeps, DrainKeeps
     DEF Queue!Step
<1> QED BY <1>1, <1>2, <1>3 DEF Queue!Next

\* What the invariant says of the rings, the wakes and the destroyed queues.
LEMMA EInvFollows == Queue!QueueSizes /\ EInv => Queue!QueueSound /\ Queue!DestroySafe
<1> SUFFICES ASSUME Queue!QueueSizes, EInv PROVE Queue!QueueSound /\ Queue!DestroySafe
  OBVIOUS
<1>1. Queue!RingSound
  BY RingIsSound DEF EInv, RingsSound, Sound, Queue!RingSound
<1>2. Queue!QueueSound
  BY <1>1 DEF EInv, Queue!QueueSound
<1>3. Queue!DestroySafe
  BY DEF EInv, Queue!DestroySafe, CancelledOnDead, Queue!ForceCancels
<1> QED BY <1>2, <1>3

(* The ring, the count of waiters and the wakes of every event queue are sound,
   whatever threads, sizes and events.                                       *)
THEOREM QueuesAreSound == Queue!QueueSizes /\ EagerReuse = FALSE => (Queue!Spec => []Queue!QueueSound)
<1> SUFFICES ASSUME Queue!QueueSizes, EagerReuse = FALSE PROVE Queue!Spec => []Queue!QueueSound
  OBVIOUS
<1> QED BY EInvFollows, InitEInv, NextEInv, PTL DEF Queue!Spec

(* A destroy leaves nobody asleep and no port on the queue, and whoever it
   cancelled is on the way out.                                              *)
THEOREM DestroysAreSafe == Queue!QueueSizes /\ EagerReuse = FALSE => (Queue!Spec => []Queue!DestroySafe)
<1> SUFFICES ASSUME Queue!QueueSizes, EagerReuse = FALSE PROVE Queue!Spec => []Queue!DestroySafe
  OBVIOUS
<1> QED BY EInvFollows, InitEInv, NextEInv, PTL DEF Queue!Spec

\* EBUSY is decided by an exact count, so a step that destroys a queue with a
\* sleeper used FORCE.
LEMMA NextSpares == Queue!QueueSizes /\ EInv /\ [Queue!Next]_(Queue!vars) => [Queue!SparesSleepers]_(Queue!vars)
<1> SUFFICES ASSUME Queue!QueueSizes, EInv, Queue!Next, NEW q \in Queue!Queues, qActive[q], ~qActive'[q], Queue!Asleep(q) # {}
             PROVE  forced'[q]
  BY DEF Queue!SparesSleepers
<1>1. PICK t \in Threads, force \in BOOLEAN : Queue!QueueDestroy(t, q, force)
  <2>1. \/ \E t \in Threads : Queue!Call(t)
        \/ UNCHANGED qActive
    BY DEF Queue!Next, Queue!Step, Queue!Push, Queue!PushFull, Queue!ReceiveEnter,
       Queue!ReceiveEnd, Queue!ReceiveResleep, Queue!ReceiveLate,
       Queue!TryReceive, Queue!Drain, Queue!ReceiveTimesOut, Queue!SpuriousWake, Queue!queueVars
  <2>2. PICK t \in Threads : Queue!Call(t)
    BY <2>1
  <2>3. \/ \E p \in Queue!Queues, force \in BOOLEAN : Queue!QueueDestroy(t, p, force)
        \/ \E p \in Queue!Queues, k \in Keys \cup {0}, n \in 1 .. BufMax : Queue!QueueCreate(t, p, k, n)
        \/ UNCHANGED qActive
    BY <2>2 DEF Queue!Call, Queue!PushById, Queue!ReceiveCall, Queue!TryCall, Queue!DrainCall,
       Queue!PortCreate, Queue!PortDestroy,
       Queue!PortDisconnect, Queue!PortConnect, Queue!PortSend, Queue!queueVars
  <2>4. qActive \in [Queue!Queues -> BOOLEAN] /\ qActive'[q] # qActive[q]
    BY DEF EInv, Queue!TypeOK
  <2>5. ASSUME NEW p \in Queue!Queues, NEW k \in Keys \cup {0}, NEW n \in 1 .. BufMax,
               Queue!QueueCreate(t, p, k, n)
        PROVE  FALSE
    BY <2>4, <2>5 DEF Queue!QueueCreate
  <2>6. ASSUME NEW p \in Queue!Queues, NEW force \in BOOLEAN, Queue!QueueDestroy(t, p, force)
        PROVE  p = q
    BY <2>4, <2>6 DEF Queue!QueueDestroy
  <2> QED BY <2>3, <2>4, <2>5, <2>6
<1>2. forced'[q] = (force \/ forced[q]) /\ (force \/ Queue!NoWaiters(q))
  BY <1>1 DEF Queue!QueueDestroy, EInv, Queue!TypeOK
<1>3. ~Queue!NoWaiters(q)
  <2>1. Queue!Asleep(q) \subseteq Queue!Counted(q) /\ IsFiniteSet(Queue!Counted(q))
    BY FS_Subset, SameCardinality DEF Queue!Asleep, Queue!Counted, Queue!QueueSizes
  <2>2. Cardinality(Queue!Counted(q)) \in Nat /\ Cardinality(Queue!Counted(q)) # 0
    BY <2>1, FS_CardinalityType, FS_EmptySet
  <2> QED BY <2>2, SameCardinality DEF EInv, Queue!WaitersExact, Queue!NoWaiters
<1> QED BY <1>2, <1>3

(* Without FORCE no queue with a sleeper is torn down. *)
THEOREM SleepersAreSpared == Queue!QueueSizes /\ EagerReuse = FALSE => (Queue!Spec => Queue!PlainDestroySpares)
<1> SUFFICES ASSUME Queue!QueueSizes, EagerReuse = FALSE PROVE Queue!Spec => Queue!PlainDestroySpares
  OBVIOUS
<1> QED BY NextSpares, InitEInv, NextEInv, PTL DEF Queue!Spec, Queue!PlainDestroySpares

(* Every variable keeps its type. *)
THEOREM QueueTyping == Queue!QueueSizes /\ EagerReuse = FALSE => (Queue!Spec => []Queue!TypeOK)
<1> SUFFICES ASSUME Queue!QueueSizes, EagerReuse = FALSE PROVE Queue!Spec => []Queue!TypeOK
  OBVIOUS
<1>1. EInv => Queue!TypeOK
  BY DEF EInv
<1> QED BY <1>1, InitEInv, NextEInv, PTL DEF Queue!Spec

-----------------------------------------------------------------------------
(* The queue and the FIFO it promises *)

LEMMA PushIsAppend ==
  ASSUME Queue!QueueSizes, NEW r, Sound(r), ~Queue!Full(r), NEW e \in Queue!Events
  PROVE  Queue!Content(Queue!Pushed(r, e)) = Append(Queue!Content(r), e)
<1> DEFINE p == Queue!Pushed(r, e)
<1>1. /\ Sound(p) /\ p.count = r.count + 1 /\ p.cap = r.cap /\ p.head = r.head
      /\ p.buf = [r.buf EXCEPT ![r.tail] = e]
  BY PushedIsSound
<1>2. /\ Queue!Content(r) \in Seq(Queue!Events) /\ Len(Queue!Content(r)) = r.count
      /\ r.count \in Nat /\ r.cap \in Nat \ {0} /\ r.head \in Nat
      /\ \A i \in 1 .. r.count : /\ Queue!Content(r)[i] = r.buf[Wrap(r.head + i - 1, r.cap)]
                                 /\ Wrap(r.head + i - 1, r.cap) \in 0 .. r.cap - 1
  BY ContentIsSeq
<1>3. /\ Queue!Content(p) \in Seq(Queue!Events) /\ Len(Queue!Content(p)) = p.count
      /\ \A i \in 1 .. p.count : Queue!Content(p)[i] = p.buf[Wrap(p.head + i - 1, p.cap)]
  BY <1>1, ContentIsSeq
<1>4. /\ r.tail = Wrap(r.head + r.count, r.cap) /\ r.count < r.cap /\ r.head < r.cap /\ r.cap <= BufMax
      /\ r.buf \in [0 .. BufMax - 1 -> Queue!Events] /\ r.tail \in 0 .. BufMax - 1
  BY RingFields DEF Sound, Queue!Full, Queue!RingType
<1> HIDE DEF p
<1>5. ASSUME NEW i \in 1 .. r.count PROVE Queue!Content(p)[i] = Queue!Content(r)[i]
  <2>1. Wrap(r.head + i - 1, r.cap) # r.tail
    BY <1>2, <1>4 DEF Wrap
  <2>2. Wrap(r.head + i - 1, r.cap) \in 0 .. BufMax - 1
    BY <1>2, <1>4 DEF Queue!QueueSizes
  <2>3. p.buf[Wrap(r.head + i - 1, r.cap)] = r.buf[Wrap(r.head + i - 1, r.cap)]
    BY <1>1, <1>4, <2>1, <2>2
  <2>4. i \in 1 .. p.count
    BY <1>1, <1>2
  <2> QED BY <1>1, <1>2, <1>3, <2>3, <2>4
<1>6. Queue!Content(p)[r.count + 1] = e
  <2>1. r.count + 1 \in 1 .. p.count /\ r.head + (r.count + 1) - 1 = r.head + r.count
    BY <1>1, <1>2
  <2>2. Queue!Content(p)[r.count + 1] = p.buf[r.tail]
    BY <1>1, <1>3, <1>4, <2>1
  <2> QED BY <1>1, <1>4, <2>2
<1>7. /\ Append(Queue!Content(r), e) \in Seq(Queue!Events) /\ Len(Append(Queue!Content(r), e)) = r.count + 1
      /\ \A i \in 1 .. r.count : Append(Queue!Content(r), e)[i] = Queue!Content(r)[i]
      /\ Append(Queue!Content(r), e)[r.count + 1] = e
  BY <1>2, AppendProperties
<1>8. \A i \in 1 .. Len(Queue!Content(p)) : Queue!Content(p)[i] = Append(Queue!Content(r), e)[i]
  BY <1>1, <1>2, <1>3, <1>5, <1>6, <1>7
<1>9. Queue!Content(p) = Append(Queue!Content(r), e)
  BY <1>1, <1>3, <1>7, <1>8, SeqEqual
<1> QED BY <1>9 DEF p

LEMMA PopIsRest ==
  ASSUME Queue!QueueSizes, NEW r, Sound(r), NEW n \in 0 .. r.count
  PROVE  Queue!Content(Queue!Popped(r, n)) = SubSeq(Queue!Content(r), n + 1, Len(Queue!Content(r)))
<1> DEFINE p == Queue!Popped(r, n)
           s == SubSeq(Queue!Content(r), n + 1, Len(Queue!Content(r)))
<1>1. /\ Sound(p) /\ p.count = r.count - n /\ p.cap = r.cap /\ p.head = Wrap(r.head + n, r.cap)
      /\ p.buf = r.buf
  BY PoppedIsSound
<1>2. /\ Queue!Content(r) \in Seq(Queue!Events) /\ Len(Queue!Content(r)) = r.count
      /\ r.count \in Nat /\ r.cap \in Nat \ {0} /\ r.head \in Nat
      /\ \A i \in 1 .. r.count : Queue!Content(r)[i] = r.buf[Wrap(r.head + i - 1, r.cap)]
  BY ContentIsSeq
<1>3. /\ Queue!Content(p) \in Seq(Queue!Events) /\ Len(Queue!Content(p)) = p.count
      /\ \A i \in 1 .. p.count : Queue!Content(p)[i] = p.buf[Wrap(p.head + i - 1, p.cap)]
  BY <1>1, ContentIsSeq
<1>4. r.head < r.cap /\ r.count <= r.cap
  BY DEF Sound
<1> HIDE DEF p
<1>5. /\ s \in Seq(Queue!Events) /\ Len(s) = r.count - n
      /\ \A i \in 1 .. r.count - n : s[i] = Queue!Content(r)[n + i]
  <2>1. \A i \in n + 1 .. r.count : Queue!Content(r)[i] \in Queue!Events
    BY <1>2, ElementOfSeq
  <2>2. n + 1 \in Int /\ r.count \in Int
    BY <1>2
  <2>3. /\ SubSeq(Queue!Content(r), n + 1, r.count) \in Seq(Queue!Events)
        /\ Len(SubSeq(Queue!Content(r), n + 1, r.count)) = IF n + 1 <= r.count THEN r.count - (n + 1) + 1 ELSE 0
        /\ \A i \in 1 .. r.count - (n + 1) + 1 :
              SubSeq(Queue!Content(r), n + 1, r.count)[i] = Queue!Content(r)[n + 1 + i - 1]
    BY <2>1, <2>2, SubSeqProperties
  <2>4. s = SubSeq(Queue!Content(r), n + 1, r.count)
    BY <1>2
  <2>5. Len(s) = r.count - n
    BY <1>2, <2>3, <2>4
  <2>6. ASSUME NEW i \in 1 .. r.count - n PROVE s[i] = Queue!Content(r)[n + i]
    <3>1. i \in 1 .. r.count - (n + 1) + 1 /\ n + 1 + i - 1 = n + i
      BY <1>2
    <3> QED BY <2>3, <2>4, <3>1
  <2> QED BY <2>3, <2>4, <2>5, <2>6
<1> HIDE DEF s
<1>6. ASSUME NEW i \in 1 .. r.count - n PROVE Queue!Content(p)[i] = s[i]
  <2>1. Wrap(p.head + i - 1, r.cap) = Wrap(r.head + (n + i) - 1, r.cap)
    BY <1>1, <1>2, <1>4 DEF Wrap
  <2>2. n + i \in 1 .. r.count /\ i \in 1 .. p.count
    BY <1>1, <1>2
  <2>3. Queue!Content(r)[n + i] = r.buf[Wrap(r.head + (n + i) - 1, r.cap)]
    BY <1>2, <2>2
  <2>4. Queue!Content(p)[i] = r.buf[Wrap(p.head + i - 1, r.cap)]
    BY <1>1, <1>3, <2>2
  <2>5. s[i] = Queue!Content(r)[n + i]
    BY <1>5
  <2> QED BY <2>1, <2>3, <2>4, <2>5
<1>7. Queue!Content(p) = s
  <2>1. Len(Queue!Content(p)) = Len(s) /\ \A i \in 1 .. Len(Queue!Content(p)) : Queue!Content(p)[i] = s[i]
    BY <1>1, <1>3, <1>5, <1>6
  <2> QED BY <1>3, <1>5, <2>1, SeqEqual
<1> QED BY <1>7 DEF p, s

LEMMA OldestIsFirst ==
  ASSUME Queue!QueueSizes, NEW r, Sound(r), r.count > 0
  PROVE  <<r.buf[r.head]>> = SubSeq(Queue!Content(r), 1, 1)
<1>1. /\ Queue!Content(r) \in Seq(Queue!Events) /\ Len(Queue!Content(r)) = r.count /\ r.count \in Nat /\ r.count >= 1
      /\ r.head \in Nat /\ r.cap \in Nat
      /\ \A i \in 1 .. r.count : Queue!Content(r)[i] = r.buf[Wrap(r.head + i - 1, r.cap)]
  BY ContentIsSeq
<1>2. Queue!Content(r)[1] = r.buf[r.head]
  <2>1. Wrap(r.head + 1 - 1, r.cap) = r.head /\ 1 \in 1 .. r.count
    BY <1>1 DEF Wrap, Sound
  <2> QED BY <1>1, <2>1
<1>3. \A i \in 1 .. 1 : Queue!Content(r)[i] \in Queue!Events
  BY <1>1, ElementOfSeq
<1>4. /\ SubSeq(Queue!Content(r), 1, 1) \in Seq(Queue!Events) /\ Len(SubSeq(Queue!Content(r), 1, 1)) = 1
      /\ SubSeq(Queue!Content(r), 1, 1)[1] = Queue!Content(r)[1]
  BY <1>3, SubSeqProperties
<1>5. r.buf[r.head] \in Queue!Events
  BY <1>2, <1>3
<1> DEFINE x == r.buf[r.head]
           s == SubSeq(Queue!Content(r), 1, 1)
<1>6. <<x>> \in Seq(Queue!Events) /\ Len(<<x>>) = 1 /\ <<x>>[1] = x
  BY <1>5, OneIsSeq
<1>7. s \in Seq(Queue!Events) /\ Len(s) = 1 /\ s[1] = x
  BY <1>2, <1>4
<1> HIDE DEF x, s
<1>8. <<x>> = s
  BY <1>6, <1>7, SeqEqual
<1> QED BY <1>8 DEF x, s

Contents == [q \in Queue!Queues |-> Queue!Content(ring[q])]
Abstract == <<Contents, evt, got>>

LEMMA ContentsStep ==
  ASSUME Queue!TypeOK, NEW q \in Queue!Queues, NEW r, ring' = [ring EXCEPT ![q] = r]
  PROVE  Contents' = [Contents EXCEPT ![q] = Queue!Content(r)] /\ Contents[q] = Queue!Content(ring[q])
<1>1. \A p \in Queue!Queues : ring'[p] = IF p = q THEN r ELSE ring[p]
  BY DEF Queue!TypeOK
<1>2. Contents' = [p \in Queue!Queues |-> Queue!Content(ring'[p])]
  BY DEF Contents, Queue!Content
<1>3. ASSUME NEW p \in Queue!Queues
      PROVE  Queue!Content(ring'[p]) = IF p = q THEN Queue!Content(r) ELSE Queue!Content(ring[p])
  <2>1. CASE p = q
    <3>1. ring'[p] = r
      BY <1>1, <2>1
    <3> QED BY <2>1, <3>1
  <2>2. CASE p # q
    <3>1. ring'[p] = ring[p]
      BY <1>1, <2>2
    <3> QED BY <2>2, <3>1
  <2> QED BY <2>1, <2>2
<1>4. Contents' = [p \in Queue!Queues |-> IF p = q THEN Queue!Content(r) ELSE Queue!Content(ring[p])]
  BY <1>2, <1>3, Zenon
<1>5. /\ [Contents EXCEPT ![q] = Queue!Content(r)]
           = [p \in Queue!Queues |-> IF p = q THEN Queue!Content(r) ELSE Queue!Content(ring[p])]
      /\ Contents[q] = Queue!Content(ring[q])
  BY DEF Contents
<1> QED BY <1>4, <1>5

\* A call that has nothing to push returns what it has not offered.
LEMMA NothingOffered ==
  ASSUME EInv, NEW t \in Threads, qpc[t] # "push", evt' = [evt EXCEPT ![t] = Queue!Blank]
  PROVE  evt' = evt
  BY DEF EInv, EventsOffered, Queue!TypeOK

LEMMA OffersSimulated ==
  ASSUME Queue!QueueSizes, EInv, NEW t \in Threads, NEW e \in Queue!Events \ {Queue!Blank}, qpc[t] = "idle",
         evt' = [evt EXCEPT ![t] = e], UNCHANGED <<ring, got>>
  PROVE  Queue!Fifo!Offer(t, e)
  BY DEF Queue!Fifo!Offer, EInv, EventsOffered

LEMMA CallSimulated ==
  ASSUME Queue!QueueSizes, EInv, NEW t \in Threads, Queue!Call(t)
  PROVE  Queue!Fifo!Next \/ UNCHANGED Abstract
<1>1. ASSUME NEW q \in Queue!Queues, NEW k \in Keys \cup {0}, NEW n \in 1 .. BufMax, Queue!QueueCreate(t, q, k, n)
      PROVE  Queue!Fifo!Next
  <2>1. ring' = [ring EXCEPT ![q] = Queue!EmptyRing(n)] /\ UNCHANGED <<evt, got>> /\ Queue!TypeOK
    BY <1>1 DEF Queue!QueueCreate, Queue!callVars, EInv
  <2>2. Contents' = [Contents EXCEPT ![q] = <<>>]
    <3>1. Contents' = [Contents EXCEPT ![q] = Queue!Content(Queue!EmptyRing(n))]
      BY <2>1, ContentsStep
    <3>2. Queue!Content(Queue!EmptyRing(n)) = <<>>
      BY EmptyIsSound
    <3> QED BY <3>1, <3>2
  <2>3. Queue!Fifo!Clear(q)
    BY <2>1, <2>2 DEF Queue!Fifo!Clear, Contents
  <2> QED BY <2>3 DEF Queue!Fifo!Next
<1>2. ASSUME NEW p \in Queue!Ports, NEW d \in Data, Queue!PortSend(t, p, d) PROVE Queue!Fifo!Next
  <2>1. [source |-> p, data |-> d] \in Queue!Events \ {Queue!Blank}
    BY DEF Queue!QueueSizes, Queue!Events, Queue!Blank
  <2>2. Queue!Fifo!Offer(t, [source |-> p, data |-> d])
    BY <1>2, <2>1, OffersSimulated DEF Queue!PortSend, Queue!Begin, Queue!queueVars
  <2> QED BY <2>1, <2>2 DEF Queue!Fifo!Next
<1>3. ASSUME NEW q \in Queue!Queues, NEW d \in Data, Queue!PushById(t, q, d) PROVE Queue!Fifo!Next
  <2>1. [source |-> 0, data |-> d] \in Queue!Events \ {Queue!Blank}
    BY DEF Queue!QueueSizes, Queue!Events, Queue!Blank
  <2>2. Queue!Fifo!Offer(t, [source |-> 0, data |-> d])
    BY <1>3, <2>1, OffersSimulated DEF Queue!PushById, Queue!Begin, Queue!queueVars
  <2> QED BY <2>1, <2>2 DEF Queue!Fifo!Next
<1>4. CASE \/ \E q \in Queue!Queues : \/ \E force \in BOOLEAN : Queue!QueueDestroy(t, q, force)
                                      \/ \E k \in Queue!Kinds : Queue!ReceiveCall(t, q, k)
                                      \/ Queue!TryCall(t, q) \/ Queue!DrainCall(t, q)
           \/ \E p \in Queue!Ports : \/ Queue!PortCreate(t, p) \/ Queue!PortDestroy(t, p) \/ Queue!PortDisconnect(t, p)
                                     \/ \E q \in Queue!Queues : Queue!PortConnect(t, p, q)
  <2>1. UNCHANGED <<ring, evt, got>>
    BY <1>4 DEF Queue!QueueDestroy, Queue!ReceiveCall, Queue!TryCall, Queue!DrainCall,
       Queue!PortCreate, Queue!PortDestroy,
       Queue!PortDisconnect, Queue!PortConnect, Queue!Begin, Queue!queueVars, Queue!callVars
  <2> QED BY <2>1 DEF Abstract, Contents, Queue!Content
<1> QED BY <1>1, <1>2, <1>3, <1>4 DEF Queue!Call

LEMMA PushSimulated ==
  ASSUME Queue!QueueSizes, EInv, NEW t \in Threads, Queue!Push(t) PROVE Queue!Fifo!Next
<1> DEFINE q == que[t]
<1>1. /\ q \in Queue!Queues /\ evt[t] # Queue!Blank /\ evt[t] \in Queue!Events
      /\ Sound(ring[q]) /\ ~Queue!Full(ring[q]) /\ ring' = [ring EXCEPT ![q] = Queue!Pushed(ring[q], evt[t])]
      /\ got' = got /\ evt' = [evt EXCEPT ![t] = Queue!Blank]
  BY PushFacts
<1>2. Contents' = [Contents EXCEPT ![q] = Append(Contents[q], evt[t])] /\ Contents[q] = Queue!Content(ring[q])
  <2>1. Queue!TypeOK
    BY DEF EInv
  <2>2. /\ Contents' = [Contents EXCEPT ![q] = Queue!Content(Queue!Pushed(ring[q], evt[t]))]
        /\ Contents[q] = Queue!Content(ring[q])
    BY <1>1, <2>1, ContentsStep
  <2>3. Queue!Content(Queue!Pushed(ring[q], evt[t])) = Append(Queue!Content(ring[q]), evt[t])
    BY <1>1, PushIsAppend
  <2> QED BY <2>2, <2>3
<1>3. Len(Contents[q]) < BufMax
  <2>1. ring[q].count < ring[q].cap /\ ring[q].cap <= BufMax /\ Len(Queue!Content(ring[q])) = ring[q].count
        /\ ring[q].count \in Nat /\ ring[q].cap \in Nat /\ BufMax \in Nat
    BY <1>1, ContentIsSeq, RingFields DEF Sound, Queue!Full, Queue!QueueSizes
  <2> QED BY <1>2, <2>1
<1>4. Queue!Fifo!Put(t, q)
  BY <1>1, <1>2, <1>3 DEF Queue!Fifo!Put, Contents
<1> QED BY <1>1, <1>4 DEF Queue!Fifo!Next

LEMMA PushFullSimulated ==
  ASSUME Queue!QueueSizes, EInv, NEW t \in Threads, Queue!PushFull(t) PROVE Queue!Fifo!Next
<1>1. /\ que[t] \in Queue!Queues /\ Queue!Full(ring[que[t]]) /\ evt' = [evt EXCEPT ![t] = Queue!Blank]
      /\ UNCHANGED <<ring, got>>
  BY DEF Queue!PushFull, Queue!Return, Queue!queueVars, EInv, Queue!TypeOK
<1>2. Contents[que[t]] # <<>>
  <2>1. Sound(ring[que[t]])
    BY <1>1, CountOfRing
  <2>2. Len(Queue!Content(ring[que[t]])) = ring[que[t]].count /\ ring[que[t]].count \in Nat
        /\ ring[que[t]].cap \in Nat \ {0} /\ Queue!Content(ring[que[t]]) \in Seq(Queue!Events)
    BY <2>1, ContentIsSeq
  <2>3. ring[que[t]].count # 0
    BY <1>1, <2>2 DEF Queue!Full
  <2>4. Queue!Content(ring[que[t]]) # <<>>
    BY <2>2, <2>3, EmptySeq
  <2> QED BY <1>1, <2>4 DEF Contents
<1>3. Queue!Fifo!Refuse(t, que[t])
  BY <1>1, <1>2 DEF Queue!Fifo!Refuse, Contents, Queue!Content
<1> QED BY <1>1, <1>3 DEF Queue!Fifo!Next

LEMMA TakeSimulated ==
  ASSUME Queue!QueueSizes, EInv, NEW q \in Queue!Queues, NEW n \in 0 .. ring[q].count,
         ring' = [ring EXCEPT ![q] = Queue!Popped(ring[q], n)], got' = SubSeq(Queue!Content(ring[q]), 1, n),
         evt' = evt
  PROVE  Queue!Fifo!Next
<1>1. Sound(ring[q]) /\ Queue!TypeOK
  BY CountOfRing DEF EInv
<1>2. /\ Contents' = [Contents EXCEPT ![q] = SubSeq(Contents[q], n + 1, Len(Contents[q]))]
      /\ Contents[q] = Queue!Content(ring[q])
  <2>1. /\ Contents' = [Contents EXCEPT ![q] = Queue!Content(Queue!Popped(ring[q], n))]
        /\ Contents[q] = Queue!Content(ring[q])
    BY <1>1, ContentsStep
  <2>2. Queue!Content(Queue!Popped(ring[q], n)) = SubSeq(Queue!Content(ring[q]), n + 1, Len(Queue!Content(ring[q])))
    BY <1>1, PopIsRest
  <2> QED BY <2>1, <2>2
<1>3. n \in 0 .. Len(Contents[q])
  BY <1>1, <1>2, ContentIsSeq
<1>4. Queue!Fifo!Take(q, n)
  BY <1>2 DEF Queue!Fifo!Take, Contents
<1> QED BY <1>3, <1>4 DEF Queue!Fifo!Next, Contents

LEMMA StepSimulated ==
  ASSUME Queue!QueueSizes, EInv, NEW t \in Threads, Queue!Step(t) \/ Queue!ReceiveTimesOut(t) \/ Queue!SpuriousWake(t)
  PROVE  Queue!Fifo!Next \/ UNCHANGED Abstract
<1>0. Queue!TypeOK /\ que[t] \in Queue!Queues
  BY DEF EInv, Queue!TypeOK
<1>1. CASE Queue!ReceiveEnd(t)
  <2>1. LET q == que[t] IN
        /\ Queue!Return(t, qpc) /\ qpc[t] \in {"enter", "awake", "poll"}
        /\ qActive[q] => /\ ring[q].count > 0
                         /\ ring' = [ring EXCEPT ![q] = Queue!Popped(ring[q], 1)]
                         /\ got' = <<ring[q].buf[ring[q].head]>>
        /\ ~qActive[q] => ring' = ring /\ got' = got
    BY <1>1, EndFacts
  <2>2. evt' = evt
    BY <2>1, NothingOffered DEF Queue!Return
  <2>3. CASE qActive[que[t]]
    <3>1. got' = SubSeq(Queue!Content(ring[que[t]]), 1, 1) /\ 1 \in 0 .. ring[que[t]].count
      BY <1>0, <2>1, <2>3, CountOfRing, OldestIsFirst
    <3> QED BY <1>0, <2>1, <2>2, <2>3, <3>1, TakeSimulated
  <2>4. CASE ~qActive[que[t]]
    BY <2>1, <2>2, <2>4 DEF Abstract, Contents, Queue!Content
  <2> QED BY <2>3, <2>4
<1>2. ASSUME NEW n \in 0 .. BufMax, Queue!TryReceive(t, n) PROVE Queue!Fifo!Next
  <2>1. PICK k \in 0 .. ring[que[t]].count :
           /\ ring' = [ring EXCEPT ![que[t]] = Queue!Popped(ring[que[t]], k)]
           /\ got' = SubSeq(Queue!Content(ring[que[t]]), 1, k)
    BY <1>2, TryFacts
  <2>2. evt' = evt
    BY <1>2, NothingOffered DEF Queue!TryReceive, Queue!Return
  <2> QED BY <1>0, <2>1, <2>2, TakeSimulated
<1>3. CASE Queue!Drain(t)
  <2>1. ring' = [ring EXCEPT ![que[t]] = Queue!Drained(ring[que[t]])] /\ got' = got /\ evt' = evt
    BY <1>3, NothingOffered DEF Queue!Drain, Queue!Return
  <2>2. Contents' = [Contents EXCEPT ![que[t]] = <<>>]
    <3> DEFINE q == que[t]
    <3>1. Contents' = [Contents EXCEPT ![q] = Queue!Content(Queue!Drained(ring[q]))]
      BY <1>0, <2>1, ContentsStep
    <3>2. Queue!Content(Queue!Drained(ring[q])) = <<>>
      BY <1>0, CountOfRing, DrainedIsSound
    <3> QED BY <3>1, <3>2
  <2>3. Queue!Fifo!Clear(que[t])
    BY <2>1, <2>2 DEF Queue!Fifo!Clear, Contents
  <2> QED BY <1>0, <2>3 DEF Queue!Fifo!Next
<1>4. CASE Queue!ReceiveLate(t)
  <2>1. evt' = evt /\ UNCHANGED <<ring, got>>
    BY <1>4, NothingOffered DEF Queue!ReceiveLate, Queue!Return
  <2> QED BY <2>1 DEF Abstract, Contents, Queue!Content
<1>5. CASE Queue!ReceiveEnter(t) \/ Queue!ReceiveResleep(t) \/ Queue!ReceiveTimesOut(t) \/ Queue!SpuriousWake(t)
  <2>1. UNCHANGED <<ring, evt, got>>
    BY <1>5 DEF Queue!ReceiveEnter, Queue!ReceiveResleep, Queue!ReceiveTimesOut,
       Queue!SpuriousWake, Queue!Goto, Queue!queueVars
  <2> QED BY <2>1 DEF Abstract, Contents, Queue!Content
<1> QED BY <1>1, <1>2, <1>3, <1>4, <1>5, PushSimulated, PushFullSimulated DEF Queue!Step

LEMMA InitSimulated == ASSUME Queue!QueueSizes, Queue!Init PROVE Queue!Fifo!Init
<1>1. 1 \in 1 .. BufMax
  BY DEF Queue!QueueSizes
<1>2. \A q \in Queue!Queues : Queue!Content(ring[q]) = <<>>
  BY <1>1, EmptyIsSound DEF Queue!Init
<1> QED BY <1>2 DEF Queue!Init, Queue!Fifo!Init

\* A step of a queue is a step of the FIFO or leaves what it shows alone.
LEMMA NextSimulated == Queue!QueueSizes /\ EInv /\ [Queue!Next]_(Queue!vars) => Queue!Fifo!Next \/ UNCHANGED Abstract
<1> SUFFICES ASSUME Queue!QueueSizes, EInv, [Queue!Next]_(Queue!vars) PROVE Queue!Fifo!Next \/ UNCHANGED Abstract
  OBVIOUS
<1>1. CASE Queue!Next
  BY <1>1, CallSimulated, StepSimulated DEF Queue!Next
<1>2. CASE UNCHANGED Queue!vars
  BY <1>2 DEF Queue!vars, Abstract, Contents, Queue!Content
<1> QED BY <1>1, <1>2

(* Every event queue implements the bounded FIFO: its ring, cut at the lock,
   appends what is offered and brings the oldest first, at every size.       *)
THEOREM QueuesAreFifos == Queue!QueueSizes /\ EagerReuse = FALSE => (Queue!Spec => Queue!ImplementsFifo)
<1> SUFFICES ASSUME Queue!QueueSizes, EagerReuse = FALSE PROVE Queue!Spec => Queue!ImplementsFifo
  OBVIOUS
<1>1. EInv /\ [Queue!Next]_(Queue!vars)
        => [Queue!Fifo!Next]_(<<[q \in Queue!Queues |-> Queue!Content(ring[q])], evt, got>>)
  BY NextSimulated DEF Abstract, Contents
<1>2. Queue!Init => Queue!Fifo!Init
  BY InitSimulated
<1> QED BY <1>1, <1>2, InitEInv, NextEInv, PTL DEF Queue!Spec, Queue!ImplementsFifo,
           Queue!Fifo!Spec

-----------------------------------------------------------------------------
(* Lightweight mutexes and conditions *)

\* Some structures and slots, and finitely many threads, none of them called None.
LwSizes ==
    /\ IsFiniteSet(LightThreads) /\ None \notin LightThreads
    /\ LwMutexes # {} /\ LwConds # {}
    /\ NumLwSlots \in Nat \ {0} /\ MaxDepth \in Nat /\ MaxWipes \in Nat

\* Where a call of a thread can be, and what the variables hold.
Ways == {"idle", "enter", "own", "leave", "wipe", "bury"} \cup Light!Looking \cup Light!Parked

LwmRec  == [sq : Light!LwSlots \cup {0}, word : {"free", "held", "zero", "dead"},
            recursive : BOOLEAN, count : Nat]
SlotRec == [inUse : BOOLEAN, recursive : BOOLEAN, gen : 0..MaxWipes,
            owner : LightThreads \cup {None}, cs : LightThreads \cup {None}, n : Nat]
CondRec == [inUse : BOOLEAN, m : Light!LwSlots, committed : Nat, pending : Nat]
CallRec == [pc : Ways, x : LwMutexes, c : LwConds, slot : Light!LwSlots, gen : 0..MaxWipes, kind : Light!LwKinds]

LwTypes ==
    /\ lwm \in [LwMutexes -> LwmRec]
    /\ slots \in [Light!LwSlots -> SlotRec]
    /\ nextSlot \in Light!LwSlots
    /\ lwc \in [LwConds -> CondRec]
    /\ lwcall \in [LightThreads -> CallRec]
    /\ held \in [LightThreads -> [LwMutexes -> 0..MaxDepth]]

Ending == {"wipe", "bury"}

\* No destroy of x is under way.
Calm(x) == \A t \in LightThreads : Light!Obj(t) = x => lwcall[t].pc \notin Ending

\* x names a slot that is its own.
Alive(x) == lwm[x].sq # 0 /\ Calm(x)

\* While one thread takes x down, no other does or looks x up, and its slot is named
\* until it is wiped.
Teardown ==
    /\ \A t, u \in LightThreads :
          Light!Obj(t) = Light!Obj(u) /\ lwcall[t].pc \in Ending => t = u \/ lwcall[u].pc \notin Light!Looking \cup Ending
    /\ \A t \in LightThreads : lwcall[t].pc = "bury" => lwm[Light!Obj(t)].sq = 0
    /\ \A x \in LwMutexes : lwm[x].word = "dead" => lwm[x].sq = 0

OwnSlots ==
    /\ \A x \in LwMutexes : Alive(x) => slots[lwm[x].sq].inUse
    /\ \A x, y \in LwMutexes : Alive(x) /\ Alive(y) /\ lwm[x].sq = lwm[y].sq => x = y

\* A call that has its slot finds the generation it read only while its lwmutex is
\* there, and one that waits finds it always.
Knows(t) ==
    /\ lwcall[t].pc \in {"enter", "own"} \cup Light!Parked =>
          /\ lwcall[t].gen <= Light!Slot(t).gen
          /\ lwcall[t].gen = Light!Slot(t).gen =>
                Light!Slot(t).inUse /\ Alive(Light!Obj(t)) /\ lwm[Light!Obj(t)].sq = lwcall[t].slot
    /\ lwcall[t].pc \in Light!Parked => lwcall[t].gen = Light!Slot(t).gen /\ held[t][Light!Obj(t)] > 0
    /\ lwcall[t].pc \in Light!Looking \cup {"enter", "own"} => held[t][Light!Obj(t)] < MaxDepth

\* Entries of the critical section: those of the lwmutex that t did not leave for a
\* wait, and that of a call on its way in or out.
Levels(t, x) == held[t][x] - (IF lwcall[t].pc \in Light!Parked /\ Light!Obj(t) = x THEN 1 ELSE 0)
Passing(t, i) == IF lwcall[t].pc \in {"own", "leave"} /\ lwcall[t].slot = i THEN 1 ELSE 0

Entries(i) ==
    /\ slots[i].cs = None => slots[i].n = 0
    /\ \A t \in LightThreads : slots[i].cs = t =>
          /\ slots[i].n > 0
          /\ \A x \in LwMutexes : Alive(x) /\ lwm[x].sq = i => slots[i].n = Levels(t, x) + Passing(t, i)
          /\ (\A x \in LwMutexes : Alive(x) => lwm[x].sq # i) => slots[i].n = Passing(t, i)

\* What is held is there, what is entered is in the critical section, and who is
\* inside is the owner.
Holds(t) ==
    /\ lwcall[t].pc \in {"own", "leave"} => Light!Slot(t).cs = t
    /\ \A x \in LwMutexes :
          /\ held[t][x] > 0 => Alive(x)
          /\ Levels(t, x) > 0 => slots[lwm[x].sq].cs = t
          /\ held[t][x] > 0 /\ ~(lwcall[t].pc \in Light!Parked /\ Light!Obj(t) = x) => slots[lwm[x].sq].owner = t

\* recursive_count is the number of locks that were not given back.
Taken(x) == {p \in LightThreads \X (1..MaxDepth) : p[2] <= held[p[1]][x]}
Counts == \A x \in LwMutexes : lwm[x].count = Cardinality(Taken(x))

Conds ==
    \A c \in LwConds :
       /\ lwc[c].committed = Cardinality(Light!Waiters(c)) /\ lwc[c].pending <= lwc[c].committed
       /\ ~lwc[c].inUse => Light!Waiters(c) = {}

LwInv ==
    /\ LwTypes /\ Teardown /\ OwnSlots
    /\ \A t \in LightThreads : Knows(t) /\ Holds(t)
    /\ \A i \in Light!LwSlots : Entries(i)
    /\ Counts /\ Conds

-----------------------------------------------------------------------------
(* What the invariant says, and the first state *)

\* The invariant's types are those of the module.
LEMMA LwTyping == LwSizes /\ LwInv => Light!TypeOK
<1> SUFFICES ASSUME LwSizes, LwInv PROVE Light!TypeOK
  OBVIOUS
<1>1. LwTypes
  BY DEF LwInv
<1>2. \A x \in LwMutexes : lwm[x] \in LwmRec
  BY <1>1 DEF LwTypes
<1>3. \A i \in Light!LwSlots : slots[i] \in SlotRec
  BY <1>1 DEF LwTypes
<1>4. \A t \in LightThreads : lwcall[t] \in CallRec
  BY <1>1 DEF LwTypes
<1>5. nextSlot \in Light!LwSlots
  BY <1>1 DEF LwTypes
<1> QED BY <1>2, <1>3, <1>4, <1>5 DEF Light!TypeOK, LwmRec, SlotRec, CallRec, Ways

LEMMA LwInvFollows == LwSizes /\ LwInv => Light!LwExclusive
<1> SUFFICES ASSUME LwSizes, LwInv PROVE Light!LwExclusive
  OBVIOUS
<1>1. ASSUME NEW x \in LwMutexes, NEW t \in Light!Inside(x)
      PROVE  t \in LightThreads /\ Alive(x) /\ slots[lwm[x].sq].cs = t
  BY DEF LwInv, LwTypes, Holds, Light!Inside, Levels
<1>2. Light!InsideItsSlot
  BY <1>1 DEF Light!InsideItsSlot, Alive
<1>3. Light!OneInside
  <2> SUFFICES ASSUME NEW x \in LwMutexes PROVE Cardinality(Light!Inside(x)) <= 1
    BY SameCardinality DEF Light!OneInside
  <2>1. CASE Light!Inside(x) = {}
    BY <2>1, FS_EmptySet
  <2>2. ASSUME NEW t \in Light!Inside(x) PROVE Cardinality(Light!Inside(x)) <= 1
    <3>1. \A u \in Light!Inside(x) : u = t
      BY <1>1, <2>2
    <3>2. Light!Inside(x) = {t}
      BY <2>2, <3>1
    <3>3. Cardinality({t}) = 1
      BY FS_Singleton
    <3> QED BY <3>2, <3>3
  <2> QED BY <2>1, <2>2
<1>4. Light!NoSharedSlot
  <2> SUFFICES ASSUME NEW x \in LwMutexes, NEW y \in LwMutexes, lwm[x].sq = lwm[y].sq, lwm[x].sq # 0,
                      ~\E t \in LightThreads : Light!At(t, "wipe") /\ Light!Obj(t) \in {x, y}
               PROVE  x = y
    BY DEF Light!NoSharedSlot
  <2>1. Alive(x) /\ Alive(y)
    BY DEF LwInv, Teardown, Alive, Calm, Ending, Light!At
  <2> QED BY <2>1 DEF LwInv, OwnSlots
<1>5. Light!CondsExact
  <2> SUFFICES ASSUME NEW c \in LwConds
               PROVE  lwc[c].committed = Cardinality(Light!Waiters(c)) /\ lwc[c].pending \in 0 .. lwc[c].committed
    BY SameCardinality DEF Light!CondsExact
  <2> QED BY DEF LwInv, LwTypes, CondRec, Conds
<1> QED BY <1>2, <1>3, <1>4, <1>5 DEF Light!LwExclusive

LEMMA LwInitInv == LwSizes /\ Light!Init => LwInv
<1> SUFFICES ASSUME LwSizes, Light!Init PROVE LwInv
  OBVIOUS
<1>1. PICK x0 \in LwMutexes, c0 \in LwConds : \A t \in LightThreads : lwcall[t] = Light!Idle(x0, c0)
  BY DEF LwSizes, Light!Init
<1>2. LwTypes
  <2>1. lwcall \in [LightThreads -> CallRec]
    <3>1. Light!Idle(x0, c0) \in CallRec
      BY DEF LwSizes, Light!Idle, CallRec, Ways, Light!LwSlots, Light!LwKinds
    <3> QED BY <1>1, <3>1 DEF Light!Init
  <2>2. lwm \in [LwMutexes -> LwmRec] /\ slots \in [Light!LwSlots -> SlotRec] /\ nextSlot \in Light!LwSlots
    BY DEF LwSizes, Light!Init, LwmRec, SlotRec, Light!FreeSlot, Light!LwSlots
  <2>3. lwc \in [LwConds -> CondRec] /\ held \in [LightThreads -> [LwMutexes -> 0..MaxDepth]]
    BY DEF LwSizes, Light!Init, CondRec, Light!LwSlots
  <2> QED BY <2>1, <2>2, <2>3 DEF LwTypes
<1>3. /\ \A t \in LightThreads : lwcall[t].pc = "idle"
      /\ \A x \in LwMutexes : lwm[x].sq = 0 /\ lwm[x].word = "free" /\ lwm[x].count = 0
  BY <1>1 DEF Light!Init, Light!Idle
<1>4. Teardown /\ OwnSlots
  BY <1>3 DEF Teardown, OwnSlots, Alive, Light!Looking, Ending
<1>5. \A t \in LightThreads : Knows(t) /\ Holds(t)
  <2>1. \A t \in LightThreads, x \in LwMutexes : held[t][x] = 0
    BY DEF Light!Init
  <2> QED BY <1>3, <2>1 DEF Knows, Holds, Levels, Light!Looking, Light!Parked
<1>6. \A i \in Light!LwSlots : Entries(i)
  BY DEF Light!Init, Light!FreeSlot, Entries, LwSizes
<1>7. Counts
  <2>1. \A x \in LwMutexes : Taken(x) = {}
    BY DEF Light!Init, Taken
  <2> QED BY <1>3, <2>1, FS_EmptySet DEF Counts
<1>8. Conds
  <2>1. \A c \in LwConds : Light!Waiters(c) = {}
    BY <1>3 DEF Light!Waiters, Light!At
  <2>2. \A c \in LwConds : lwc[c].committed = 0 /\ lwc[c].pending = 0
    BY DEF Light!Init
  <2> QED BY <2>1, <2>2, FS_EmptySet DEF Conds
<1> QED BY <1>2, <1>4, <1>5, <1>6, <1>7, <1>8 DEF LwInv

-----------------------------------------------------------------------------
(* What rests while thread t moves *)

Apart(t) == lwcall' \in [LightThreads -> CallRec] /\ \A u \in LightThreads \ {t} : lwcall'[u] = lwcall[u]

\* t goes to another place in its call.
Goes(t, w) ==
    /\ Apart(t) /\ lwcall'[t].pc = w /\ Light!Obj(t)' = Light!Obj(t) /\ lwcall'[t].c = lwcall[t].c
    /\ lwcall'[t].slot = lwcall[t].slot /\ lwcall'[t].gen = lwcall[t].gen /\ lwcall'[t].kind = lwcall[t].kind

LEMMA GoGoes ==
  ASSUME LwTypes, NEW t \in LightThreads, NEW w \in Ways, Light!Go(t, w)
  PROVE  Goes(t, w)
<1>1. [lwcall[t] EXCEPT !.pc = w] \in CallRec
  BY DEF LwTypes, CallRec
<1>2. lwcall' = [lwcall EXCEPT ![t] = [lwcall[t] EXCEPT !.pc = w]]
  BY DEF Light!Go
<1>3. lwcall'[t] = [lwcall[t] EXCEPT !.pc = w]
  BY <1>2 DEF LwTypes
<1>4. Apart(t)
  BY <1>1, <1>2 DEF Apart, LwTypes
<1> QED BY <1>3, <1>4 DEF Goes, Light!Obj, LwTypes, CallRec

Neither(t, places) == lwcall[t].pc \notin places /\ lwcall'[t].pc \notin places

LEMMA AliveKept ==
  ASSUME NEW t \in LightThreads, Apart(t), Neither(t, Ending), NEW x \in LwMutexes, lwm'[x].sq = lwm[x].sq
  PROVE  Alive(x)' <=> Alive(x)
  BY DEF Apart, Neither, Alive, Calm, Light!Obj

LEMMA TeardownKept ==
  ASSUME Teardown, NEW t \in LightThreads, Apart(t), Neither(t, Ending), LwTypes,
         lwcall'[t].pc \in Light!Looking => Calm(Light!Obj(t)'),
         \A x \in LwMutexes : lwm'[x].sq = lwm[x].sq /\ (lwm'[x].word = "dead" => lwm[x].sq = 0)
  PROVE  Teardown'
<1>1. \A u \in LightThreads : Light!Obj(u)' \in LwMutexes
  BY DEF Apart, CallRec, Light!Obj
<1>2. ASSUME NEW u \in LightThreads, NEW v \in LightThreads, Light!Obj(u)' = Light!Obj(v)', lwcall'[u].pc \in Ending
      PROVE  u = v \/ lwcall'[v].pc \notin Light!Looking \cup Ending
  BY <1>2 DEF Teardown, Apart, Neither, Calm, Light!Obj
<1>3. ASSUME NEW u \in LightThreads, lwcall'[u].pc = "bury" PROVE lwm'[Light!Obj(u)'].sq = 0
  BY <1>1, <1>3 DEF Teardown, Apart, Neither, Ending, Light!Obj
<1> QED BY <1>2, <1>3 DEF Teardown

LEMMA OwnSlotsKept ==
  ASSUME LwTypes, OwnSlots, \A x \in LwMutexes : lwm'[x].sq = lwm[x].sq /\ (Alive(x)' <=> Alive(x)),
         \A i \in Light!LwSlots : slots'[i].inUse = slots[i].inUse
  PROVE  OwnSlots'
<1>1. \A x \in LwMutexes : Alive(x) => lwm[x].sq \in Light!LwSlots
  BY DEF LwTypes, LwmRec, Alive
<1> QED BY <1>1 DEF OwnSlots

LEMMA KnowsKept ==
  ASSUME LwTypes, NEW t \in LightThreads, Apart(t), NEW u \in LightThreads \ {t}, Knows(u), held'[u] = held[u],
         \A x \in LwMutexes : Alive(x) => Alive(x)' /\ lwm'[x].sq = lwm[x].sq,
         \A i \in Light!LwSlots : slots'[i].inUse = slots[i].inUse /\ slots'[i].gen = slots[i].gen
  PROVE  Knows(u)'
<1>1. lwcall'[u] = lwcall[u] /\ Light!Obj(u) \in LwMutexes /\ lwcall[u].slot \in Light!LwSlots
  BY DEF Apart, LwTypes, CallRec, Light!Obj
<1> QED BY <1>1 DEF Knows, Light!Obj, Light!Slot

LEMMA WaitersKept ==
  ASSUME NEW t \in LightThreads, Apart(t), Neither(t, {"asleep"}), NEW c \in LwConds
  PROVE  Light!Waiters(c)' = Light!Waiters(c)
  BY DEF Apart, Neither, Light!Waiters, Light!At

LEMMA CondsKept ==
  ASSUME Conds, NEW t \in LightThreads, Apart(t), Neither(t, {"asleep"}), lwc' = lwc
  PROVE  Conds'
<1>1. \A c \in LwConds : Light!Waiters(c)' = Light!Waiters(c)
  BY WaitersKept
<1> QED BY <1>1 DEF Conds

LEMMA CountsKept ==
  ASSUME Counts, held' = held, \A x \in LwMutexes : lwm'[x].count = lwm[x].count
  PROVE  Counts'
<1>1. \A x \in LwMutexes : Taken(x)' = Taken(x)
  BY DEF Taken
<1> QED BY <1>1 DEF Counts

\* A call that looks, or gives up, changes nothing but where it is.
LEMMA WalkKeeps ==
  ASSUME LwSizes, LwInv, NEW t \in LightThreads, Apart(t),
         lwcall[t].pc \in {"idle", "enter"} \cup Light!Looking,
         lwcall'[t].pc \in {"idle", "enter"} \cup Light!Looking,
         lwcall'[t].pc \in Light!Looking => Calm(Light!Obj(t)'), Knows(t)',
         UNCHANGED <<lwm, slots, nextSlot, lwc, held>>
  PROVE  LwInv'
<1>0. /\ LwTypes /\ LwTypes' /\ Neither(t, Ending) /\ Neither(t, {"asleep"})
      /\ Neither(t, Light!Parked) /\ Neither(t, {"own", "leave"})
  BY DEF LwInv, LwTypes, Apart, Neither, Ending, Light!Parked, Light!Looking
<1>1. \A x \in LwMutexes : Alive(x)' <=> Alive(x)
  BY <1>0, AliveKept
<1>2. Teardown'
  BY <1>0, TeardownKept DEF LwInv, Teardown
<1>3. OwnSlots'
  BY <1>0, <1>1, OwnSlotsKept DEF LwInv
<1>4. ASSUME NEW u \in LightThreads PROVE Knows(u)'
  BY <1>0, <1>1, KnowsKept DEF LwInv
<1>5. ASSUME NEW u \in LightThreads
      PROVE  /\ \A x \in LwMutexes : Levels(u, x)' = Levels(u, x)
             /\ \A i \in Light!LwSlots : Passing(u, i)' = Passing(u, i)
  BY <1>0 DEF Levels, Passing, Neither, Apart, Light!Obj
<1>6. ASSUME NEW u \in LightThreads PROVE Holds(u)'
  BY <1>0, <1>1, <1>5 DEF LwInv, Holds, Apart, Neither, Light!Obj, Light!Slot
<1>7. ASSUME NEW i \in Light!LwSlots PROVE Entries(i)'
  BY <1>1, <1>5 DEF LwInv, Entries
<1>8. Counts' /\ Conds'
  BY <1>0, CountsKept, CondsKept DEF LwInv
<1> QED BY <1>0, <1>2, <1>3, <1>4, <1>6, <1>7, <1>8 DEF LwInv

-----------------------------------------------------------------------------
(* The calls that look up an lwmutex *)

LEMMA NthIsSlot ==
  ASSUME LwSizes, LwTypes, NEW i \in 0 .. NumLwSlots - 1
  PROVE  Light!Nth(i) \in Light!LwSlots /\ (Light!Nth(i) % NumLwSlots) + 1 \in Light!LwSlots
<1>1. ASSUME NEW n \in Nat PROVE (n % NumLwSlots) + 1 \in Light!LwSlots
  BY DEF LwSizes, Light!LwSlots
<1>2. nextSlot - 1 + i \in Nat /\ Light!LwSlots \subseteq Nat
  BY DEF LwSizes, LwTypes, Light!LwSlots
<1> QED BY <1>1, <1>2 DEF Light!Nth

\* Slot i is taken for the lwmutex x.
Takes(x, i, b) ==
    /\ ~slots[i].inUse /\ nextSlot' \in Light!LwSlots
    /\ slots' = [slots EXCEPT ![i].inUse = TRUE, ![i].owner = None, ![i].recursive = b]
    /\ lwm' = [lwm EXCEPT ![x] = [sq |-> i, word |-> "free", recursive |-> FALSE, count |-> 0]]

LEMMA RegisterTakesFree ==
  ASSUME LwSizes, LwTypes, NEW x, NEW b, Light!Register(x, b)
  PROVE  \E i \in Light!LwSlots : Takes(x, i, b)
<1> DEFINE k == CHOOSE i \in Light!Free : \A j \in Light!Free : i <= j
<1>1. Light!Free \in SUBSET Nat /\ Light!Free # {}
  <2>1. Light!Free # {}
    BY DEF Light!Register
  <2>2. Light!Free \subseteq 0 .. NumLwSlots - 1
    BY DEF Light!Free
  <2> HIDE DEF k
  <2> QED BY <2>1, <2>2
<1>2. k \in Light!Free
  BY <1>1, LeastExists
<1>3. k \in 0 .. NumLwSlots - 1 /\ ~slots[Light!Nth(k)].inUse
  BY <1>2 DEF Light!Free
<1>4. Light!Nth(k) \in Light!LwSlots /\ (Light!Nth(k) % NumLwSlots) + 1 \in Light!LwSlots
  BY <1>3, NthIsSlot
<1>5. /\ slots' = [slots EXCEPT ![Light!Nth(k)].inUse = TRUE, ![Light!Nth(k)].owner = None, ![Light!Nth(k)].recursive = b]
      /\ lwm' = [lwm EXCEPT ![x] = [sq |-> Light!Nth(k), word |-> "free", recursive |-> FALSE, count |-> 0]]
      /\ nextSlot' = (Light!Nth(k) % NumLwSlots) + 1
  BY DEF Light!Register
<1> HIDE DEF k
<1> QED BY <1>3, <1>4, <1>5 DEF Takes

\* A free slot is named by x, that named none; a call of t for x goes on.
LEMMA NamingKeeps ==
  ASSUME LwSizes, LwInv, NEW t \in LightThreads, NEW x \in LwMutexes, NEW i \in Light!LwSlots, NEW b \in BOOLEAN,
         lwm[x].sq = 0, Calm(x), Takes(x, i, b),
         \/ lwcall' = lwcall /\ lwcall[t].pc = "idle"
         \/ lwcall[t].pc = "register" /\ Goes(t, "slot"),
         UNCHANGED <<lwc, held>>
  PROVE  LwInv'
<1>0. LwTypes /\ i # 0
  BY DEF LwInv, Light!LwSlots
<1>1. /\ Apart(t) /\ Neither(t, Ending) /\ Neither(t, {"asleep"}) /\ Neither(t, Light!Parked)
      /\ Neither(t, {"own", "leave", "enter"}) /\ Light!Obj(t)' = Light!Obj(t)
      /\ lwcall'[t].pc \in Light!Looking => lwcall[t].pc \in Light!Looking
  <2>1. CASE lwcall' = lwcall /\ lwcall[t].pc = "idle"
    BY <1>0, <2>1 DEF LwTypes, Apart, Neither, Ending, Light!Parked, Light!Looking, Light!Obj
  <2>2. CASE lwcall[t].pc = "register" /\ Goes(t, "slot")
    BY <2>2 DEF Goes, Neither, Ending, Light!Parked, Light!Looking, Light!Obj
  <2> QED BY <2>1, <2>2
<1>2. LwTypes'
  <2>1. slots' \in [Light!LwSlots -> SlotRec]
    <3> DEFINE r == [slots[i] EXCEPT !.inUse = TRUE, !.owner = None, !.recursive = b]
    <3>1. slots[i] \in SlotRec
      BY <1>0 DEF LwTypes
    <3>2. r \in SlotRec
      BY <3>1 DEF SlotRec
    <3>3. slots' = [slots EXCEPT ![i] = r]
      BY <1>0 DEF LwTypes, Takes
    <3> QED BY <1>0, <3>2, <3>3 DEF LwTypes
  <2>2. lwm' \in [LwMutexes -> LwmRec]
    BY <1>0 DEF LwTypes, Takes, LwmRec
  <2> QED BY <1>0, <1>1, <2>1, <2>2 DEF LwTypes, Takes, Apart
<1>3. /\ \A y \in LwMutexes : y # x => lwm'[y] = lwm[y]
      /\ lwm'[x].sq = i /\ lwm'[x].word = "free" /\ lwm'[x].count = 0
      /\ \A j \in Light!LwSlots : /\ slots'[j].cs = slots[j].cs /\ slots'[j].n = slots[j].n
                                  /\ slots'[j].gen = slots[j].gen
                                  /\ j # i => slots'[j] = slots[j]
      /\ slots'[i].inUse /\ ~slots[i].inUse
  <2>1. /\ \A y \in LwMutexes : y # x => lwm'[y] = lwm[y]
        /\ lwm'[x] = [sq |-> i, word |-> "free", recursive |-> FALSE, count |-> 0]
    BY <1>0 DEF LwTypes, Takes
  <2>2. /\ \A j \in Light!LwSlots : j # i => slots'[j] = slots[j]
        /\ slots'[i] = [slots[i] EXCEPT !.inUse = TRUE, !.owner = None, !.recursive = b]
    BY <1>0 DEF LwTypes, Takes
  <2>3. slots[i] \in SlotRec
    BY <1>0 DEF LwTypes
  <2>4. /\ slots'[i].cs = slots[i].cs /\ slots'[i].n = slots[i].n
        /\ slots'[i].gen = slots[i].gen /\ slots'[i].inUse
    BY <2>2, <2>3 DEF SlotRec
  <2>5. ~slots[i].inUse
    BY DEF Takes
  <2>6. lwm'[x].sq = i /\ lwm'[x].word = "free" /\ lwm'[x].count = 0
    BY <2>1
  <2>7. ASSUME NEW j \in Light!LwSlots
        PROVE  /\ slots'[j].cs = slots[j].cs /\ slots'[j].n = slots[j].n
               /\ slots'[j].gen = slots[j].gen /\ (j # i => slots'[j] = slots[j])
    BY <2>2, <2>4
  <2> QED BY <2>1, <2>4, <2>5, <2>6, <2>7
<1>4. /\ \A y \in LwMutexes : Calm(y)' <=> Calm(y)
      /\ Alive(x)' /\ ~Alive(x)
      /\ \A y \in LwMutexes : y # x => (Alive(y)' <=> Alive(y))
      /\ \A y \in LwMutexes : Alive(y) => lwm[y].sq \in Light!LwSlots \ {i}
  <2>1. ASSUME NEW y \in LwMutexes PROVE Calm(y)' <=> Calm(y)
    BY <1>1 DEF Apart, Neither, Calm, Light!Obj
  <2>2. Alive(x)' /\ ~Alive(x)
    BY <1>0, <1>3, <2>1 DEF Alive
  <2>3. ASSUME NEW y \in LwMutexes, y # x PROVE Alive(y)' <=> Alive(y)
    BY <1>3, <2>1, <2>3 DEF Alive
  <2>4. ASSUME NEW y \in LwMutexes, Alive(y) PROVE lwm[y].sq \in Light!LwSlots \ {i}
    BY <1>0, <1>3, <2>4 DEF Alive, LwInv, OwnSlots, LwTypes, LwmRec
  <2> QED BY <2>1, <2>2, <2>3, <2>4
<1>5. \A u \in LightThreads : held[u][x] = 0 /\ ~(lwcall[u].pc \in Light!Parked /\ Light!Obj(u) = x)
  <2> SUFFICES ASSUME NEW u \in LightThreads PROVE held[u][x] = 0 /\ ~(lwcall[u].pc \in Light!Parked /\ Light!Obj(u) = x)
    OBVIOUS
  <2>1. held[u][x] = 0
    BY <1>0, <1>4 DEF LwInv, Holds, LwTypes
  <2>2. CASE lwcall[u].pc \in Light!Parked /\ Light!Obj(u) = x
    BY <1>4, <2>2 DEF LwInv, Knows
  <2> QED BY <2>1, <2>2
<1>6. Teardown'
  <2>1. ASSUME NEW u \in LightThreads, NEW v \in LightThreads, Light!Obj(u)' = Light!Obj(v)', lwcall'[u].pc \in Ending
        PROVE  u = v \/ lwcall'[v].pc \notin Light!Looking \cup Ending
    BY <1>1, <2>1 DEF LwInv, Teardown, Apart, Neither, Light!Obj
  <2>2. ASSUME NEW u \in LightThreads, lwcall'[u].pc = "bury" PROVE lwm'[Light!Obj(u)'].sq = 0
    <3>1. lwcall'[u] = lwcall[u] /\ Light!Obj(u) # x
      BY <1>1, <1>4, <2>2 DEF Apart, Neither, Ending, Light!Obj, Calm
    <3>2. Light!Obj(u) \in LwMutexes /\ Light!Obj(u)' = Light!Obj(u) /\ lwm[Light!Obj(u)].sq = 0
      BY <1>0, <2>2, <3>1 DEF LwInv, Teardown, Light!Obj, LwTypes, CallRec
    <3> QED BY <1>3, <3>1, <3>2
  <2> QED BY <1>3, <2>1, <2>2 DEF LwInv, Teardown
<1>7. OwnSlots'
  BY <1>3, <1>4 DEF LwInv, OwnSlots
<1>8. ASSUME NEW u \in LightThreads PROVE Knows(u)'
  <2>1. lwcall[u].slot \in Light!LwSlots /\ Light!Obj(u) \in LwMutexes
    BY <1>0 DEF LwTypes, CallRec, Light!Obj
  <2>2. CASE u = t
    BY <1>1, <2>1, <2>2 DEF LwInv, Knows, Neither, Light!Obj
  <2>3. CASE u # t
    BY <1>1, <1>3, <1>4, <2>1, <2>3 DEF LwInv, Knows, Apart, Light!Slot, Light!Obj
  <2> QED BY <2>2, <2>3
<1>9. ASSUME NEW u \in LightThreads
      PROVE  /\ \A y \in LwMutexes : Levels(u, y)' = Levels(u, y)
             /\ \A j \in Light!LwSlots : Passing(u, j)' = Passing(u, j)
  BY <1>1 DEF Levels, Passing, Neither, Apart, Light!Obj
<1>10. ASSUME NEW u \in LightThreads PROVE Holds(u)'
  <2>1. lwcall'[u].pc \in {"own", "leave"} => Light!Slot(u)'.cs = u
    BY <1>0, <1>1, <1>3 DEF LwInv, Holds, Apart, Neither, Light!Slot, LwTypes, CallRec
  <2>2. ASSUME NEW y \in LwMutexes
        PROVE  /\ held'[u][y] > 0 => Alive(y)'
               /\ Levels(u, y)' > 0 => slots'[lwm'[y].sq].cs = u
               /\ held'[u][y] > 0 /\ ~(lwcall'[u].pc \in Light!Parked /\ Light!Obj(u)' = y) => slots'[lwm'[y].sq].owner = u
    <3>1. CASE y = x
      BY <1>5, <1>9, <3>1 DEF Levels
    <3>2. CASE y # x
      <4>1. Levels(u, y) > 0 => held[u][y] > 0
        BY <1>0 DEF LwTypes, Levels
      <4>2. (lwcall'[u].pc \in Light!Parked /\ Light!Obj(u)' = y) <=> (lwcall[u].pc \in Light!Parked /\ Light!Obj(u) = y)
        BY <1>1 DEF Apart, Neither, Light!Obj
      <4> QED BY <1>3, <1>4, <1>9, <3>2, <4>1, <4>2 DEF LwInv, Holds
    <3> QED BY <3>1, <3>2
  <2> QED BY <2>1, <2>2 DEF Holds
<1>11. ASSUME NEW j \in Light!LwSlots PROVE Entries(j)'
  <2>1. CASE j = i
    <3>1. \A u \in LightThreads : slots[i].cs = u => slots[i].n > 0 /\ slots[i].n = Passing(u, i)
      BY <1>4 DEF LwInv, Entries
    <3>2. \A u \in LightThreads : Levels(u, x) = 0
      BY <1>5 DEF Levels
    <3>3. \A y \in LwMutexes : Alive(y)' /\ lwm'[y].sq = i => y = x
      BY <1>3, <1>4
    <3>4. \A u \in LightThreads : Passing(u, i) \in Nat
      BY DEF Passing
    <3> QED BY <1>3, <1>4, <1>9, <2>1, <3>1, <3>2, <3>3, <3>4 DEF LwInv, Entries
  <2>2. CASE j # i
    BY <1>3, <1>4, <1>9, <2>2 DEF LwInv, Entries
  <2> QED BY <2>1, <2>2
<1>12. Counts'
  <2>1. \A y \in LwMutexes : Taken(y)' = Taken(y)
    BY DEF Taken
  <2>2. Taken(x) = {}
    BY <1>5 DEF Taken
  <2>3. lwm'[x].count = Cardinality(Taken(x))
    BY <1>3, <2>2, FS_EmptySet
  <2>4. \A y \in LwMutexes : lwm'[y].count = Cardinality(Taken(y))
    BY <1>3, <2>3 DEF LwInv, Counts
  <2> QED BY <2>1, <2>4 DEF Counts
<1>13. Conds'
  BY <1>1, CondsKept DEF LwInv
<1> QED BY <1>2, <1>6, <1>7, <1>8, <1>10, <1>11, <1>12, <1>13 DEF LwInv

\* The lookup finds the slot.
LEMMA LockSlotKeeps == LwSizes /\ LwInv /\ (\E t \in LightThreads : Light!LockSlot(t)) => LwInv'
<1> SUFFICES ASSUME LwSizes, LwInv, NEW t \in LightThreads, Light!LockSlot(t) PROVE LwInv'
  OBVIOUS
<1> DEFINE i == lwm[Light!Obj(t)].sq
<1>0. LwTypes /\ lwcall[t].pc = "slot" /\ Light!Obj(t) \in LwMutexes
  BY DEF LwInv, Light!LockSlot, Light!At, LwTypes, CallRec, Light!Obj
<1>1. CASE Light!Go(t, "idle")
  <2>1. Goes(t, "idle")
    BY <1>0, <1>1, GoGoes DEF Ways
  <2> QED BY <1>0, <2>1, WalkKeeps DEF Goes, Light!LockSlot, Light!Looking, Knows, Light!Parked
<1>2. CASE /\ i # 0 /\ slots[i].inUse
           /\ lwcall' = [lwcall EXCEPT ![t].pc = "enter", ![t].slot = i, ![t].gen = slots[i].gen]
  <2>1. i \in Light!LwSlots /\ slots[i].gen \in 0..MaxWipes
    BY <1>0, <1>2 DEF LwTypes, LwmRec, SlotRec
  <2> DEFINE r == [lwcall[t] EXCEPT !.pc = "enter", !.slot = i, !.gen = slots[i].gen]
  <2>2. lwcall' = [lwcall EXCEPT ![t] = r]
    BY <1>0, <1>2 DEF LwTypes
  <2>3. r \in CallRec
    BY <1>0, <2>1 DEF LwTypes, CallRec, Ways
  <2>4. r.pc = "enter" /\ r.slot = i /\ r.gen = slots[i].gen /\ r.x = lwcall[t].x
    BY <1>0 DEF LwTypes, CallRec
  <2> HIDE DEF r
  <2>5. Apart(t) /\ lwcall'[t] = r
    BY <1>0, <2>2, <2>3 DEF Apart, LwTypes
  <2>6. Calm(Light!Obj(t)) /\ Neither(t, Ending)
    BY <1>0, <2>4, <2>5 DEF LwInv, Teardown, Calm, Light!Looking, Neither, Ending
  <2>7. Alive(Light!Obj(t)) /\ held[t][Light!Obj(t)] < MaxDepth /\ UNCHANGED <<lwm, slots, nextSlot, lwc, held>>
    BY <1>0, <1>2, <2>6 DEF Alive, LwInv, Knows, Light!Looking, Light!LockSlot
  <2>8. Light!Obj(t)' = Light!Obj(t) /\ Light!Slot(t)' = slots[i]
    BY <2>4, <2>5, <2>7 DEF Light!Obj, Light!Slot
  <2>9. Alive(Light!Obj(t))'
    BY <2>4, <2>5, <2>6, <2>7, <2>8 DEF Alive, Calm, Apart, Light!Obj, Ending
  <2>10. Knows(t)'
    BY <1>2, <2>1, <2>4, <2>5, <2>7, <2>8, <2>9 DEF Knows, Light!Parked
  <2> HIDE DEF i
  <2> QED BY <1>0, <2>4, <2>5, <2>7, <2>10, WalkKeeps DEF Light!Looking
<1> QED BY <1>1, <1>2 DEF Light!LockSlot

\* The other steps before the critical section.
LEMMA LookKeeps ==
  ASSUME LwSizes, LwInv, Churn = FALSE, NEW t \in LightThreads,
         \/ Light!LockCheck(t) \/ Light!LockLazy(t) \/ Light!LockRegister(t) \/ Light!LockGiveUp(t)
         \/ \E x \in LwMutexes : \/ \E b \in BOOLEAN : Light!Create(t, x, b)
                                 \/ \E k \in Light!LwKinds : Light!LockCall(t, x, k)
  PROVE  LwInv'
<1>0. LwTypes /\ Light!Obj(t) \in LwMutexes /\ lwcall[t] \in CallRec
  BY DEF LwInv, LwTypes, CallRec, Light!Obj
<1>1. ASSUME NEW w \in {"idle", "lazy", "register", "slot"}, Light!Go(t, w),
             lwcall[t].pc \in {"enter"} \cup Light!Looking, lwcall[t].pc = "enter" => w = "idle",
             UNCHANGED <<lwm, slots, nextSlot, lwc, held>>
      PROVE  LwInv'
  <2>1. Goes(t, w)
    BY <1>0, <1>1, GoGoes DEF Ways, Light!Looking
  <2>2. w \in Light!Looking => Calm(Light!Obj(t)) /\ held[t][Light!Obj(t)] < MaxDepth
    BY <1>0, <1>1 DEF LwInv, Teardown, Calm, Knows, Light!Looking, Ending
  <2>3. Knows(t)' /\ (w \in Light!Looking => Calm(Light!Obj(t)'))
    BY <1>1, <2>1, <2>2 DEF Knows, Goes, Light!Looking, Light!Parked
  <2> QED BY <1>1, <2>1, <2>3, WalkKeeps DEF Goes, Light!Looking
<1>2. CASE Light!LockCheck(t) \/ Light!LockLazy(t) \/ Light!LockGiveUp(t)
  BY <1>1, <1>2 DEF Light!LockCheck, Light!LockLazy, Light!LockGiveUp, Light!At, Light!Looking
<1>3. CASE Light!LockRegister(t)
  <2>1. CASE \/ Light!Registers(Light!Obj(t)) /\ Light!Free = {} /\ Light!Go(t, "idle") /\ UNCHANGED <<lwm, slots, nextSlot>>
             \/ ~Light!Registers(Light!Obj(t)) /\ Light!Go(t, "slot") /\ UNCHANGED <<lwm, slots, nextSlot>>
    BY <1>1, <1>3, <2>1 DEF Light!LockRegister, Light!At, Light!Looking
  <2>2. CASE Light!Registers(Light!Obj(t)) /\ Light!Register(Light!Obj(t), lwm[Light!Obj(t)].recursive) /\ Light!Go(t, "slot")
    <3>1. lwcall[t].pc = "register" /\ Goes(t, "slot") /\ lwm[Light!Obj(t)].sq = 0
      BY <1>0, <1>3, <2>2, GoGoes DEF Light!LockRegister, Light!At, Light!Registers, Ways,
         Light!Looking
    <3>2. PICK i \in Light!LwSlots : Takes(Light!Obj(t), i, lwm[Light!Obj(t)].recursive)
      BY <1>0, <2>2, RegisterTakesFree
    <3>3. Calm(Light!Obj(t)) /\ lwm[Light!Obj(t)].recursive \in BOOLEAN /\ UNCHANGED <<lwc, held>>
      BY <1>0, <1>3, <3>1 DEF LwInv, Teardown, Calm, Light!Looking, Ending, LwTypes, LwmRec,
         Light!LockRegister
    <3> QED BY <1>0, <3>1, <3>2, <3>3, NamingKeeps
  <2> QED BY <1>3, <2>1, <2>2 DEF Light!LockRegister
<1>4. ASSUME NEW x \in LwMutexes, NEW b \in BOOLEAN, Light!Create(t, x, b) PROVE LwInv'
  <2>1. PICK i \in Light!LwSlots : Takes(x, i, b)
    BY <1>0, <1>4, RegisterTakesFree DEF Light!Create
  <2>2. lwm[x].sq = 0 /\ Calm(x) /\ lwcall' = lwcall /\ lwcall[t].pc = "idle" /\ UNCHANGED <<lwc, held>>
    BY <1>4 DEF Light!Create, LwInv, Teardown, Light!Settled, Calm, Ending, Light!At
  <2> QED BY <2>1, <2>2, NamingKeeps
<1>5. ASSUME NEW x \in LwMutexes, NEW k \in Light!LwKinds, Light!LockCall(t, x, k) PROVE LwInv'
  <2> DEFINE r == [lwcall[t] EXCEPT !.pc = "check", !.x = x, !.kind = k]
  <2>1. lwcall' = [lwcall EXCEPT ![t] = r] /\ lwcall[t].pc = "idle"
    BY <1>0, <1>5 DEF Light!LockCall, LwTypes, Light!At
  <2>2. r \in CallRec /\ r.pc = "check" /\ r.x = x
    BY <1>0 DEF CallRec, Ways, Light!Looking
  <2> HIDE DEF r
  <2>3. Apart(t) /\ lwcall'[t] = r
    BY <1>0, <2>1, <2>2 DEF Apart, LwTypes
  <2>4. /\ Calm(x) /\ held[t][x] < MaxDepth
        /\ UNCHANGED <<lwm, slots, nextSlot, lwc, held>>
    BY <1>5 DEF Light!LockCall, Calm, Ending
  <2>5. Knows(t)' /\ Light!Obj(t)' = x
    BY <2>2, <2>3, <2>4 DEF Knows, Light!Parked, Light!Obj
  <2> QED BY <2>1, <2>2, <2>3, <2>4, <2>5, WalkKeeps DEF Light!Looking
<1> QED BY <1>2, <1>3, <1>4, <1>5

-----------------------------------------------------------------------------
(* The critical section *)

\* Slot i stays what it is, but for its critical section and owner; the others rest.
Touches(i) ==
    /\ slots' \in [Light!LwSlots -> SlotRec]
    /\ slots'[i].inUse = slots[i].inUse /\ slots'[i].gen = slots[i].gen
    /\ \A j \in Light!LwSlots \ {i} : slots'[j] = slots[j]

\* The structures go on naming their slots.
NamesStay ==
    /\ lwm' \in [LwMutexes -> LwmRec]
    /\ \A x \in LwMutexes : lwm'[x].sq = lwm[x].sq /\ (lwm'[x].word = "dead" => lwm[x].sq = 0)

HeldApart(t) ==
    /\ held' \in [LightThreads -> [LwMutexes -> 0..MaxDepth]]
    /\ \A u \in LightThreads \ {t} : held'[u] = held[u]

LEMMA NamesKeep ==
  ASSUME LwInv, NEW t \in LightThreads, Apart(t), Neither(t, Ending), lwcall'[t].pc \notin Light!Looking,
         NamesStay, HeldApart(t), NEW i \in Light!LwSlots, Touches(i)
  PROVE  /\ \A x \in LwMutexes : Alive(x)' <=> Alive(x)
         /\ Teardown' /\ OwnSlots'
         /\ \A u \in LightThreads \ {t} : Knows(u)'
<1>1. LwTypes
  BY DEF LwInv
<1>2. \A x \in LwMutexes : Alive(x)' <=> Alive(x)
  BY AliveKept DEF NamesStay
<1>3. Teardown'
  BY <1>1, TeardownKept DEF LwInv, NamesStay
<1>4. \A j \in Light!LwSlots : slots'[j].inUse = slots[j].inUse /\ slots'[j].gen = slots[j].gen
  BY DEF Touches
<1>5. OwnSlots'
  BY <1>1, <1>2, <1>4, OwnSlotsKept DEF LwInv, NamesStay
<1>6. ASSUME NEW u \in LightThreads \ {t} PROVE Knows(u)'
  BY <1>1, <1>2, <1>4, KnowsKept DEF LwInv, NamesStay, HeldApart
<1> QED BY <1>2, <1>3, <1>5, <1>6

\* The entries of slot i as thread t accounts for them.
Accounts(t, i) ==
    /\ slots[i].cs \in {None, t}
    /\ slots[i].cs = None => slots[i].n = 0
    /\ slots[i].cs = t => slots[i].n > 0
    /\ \A x \in LwMutexes : Alive(x) /\ lwm[x].sq = i => slots[i].n = Levels(t, x) + Passing(t, i)
    /\ (\A x \in LwMutexes : Alive(x) => lwm[x].sq # i) => slots[i].n = Passing(t, i)

LEMMA AccountsNow ==
  ASSUME LwSizes, LwInv, NEW t \in LightThreads, NEW i \in Light!LwSlots, slots[i].cs \in {None, t}
  PROVE  Accounts(t, i)
<1>1. CASE slots[i].cs = t
  BY <1>1 DEF LwSizes, LwInv, Entries, Accounts
<1>2. CASE slots[i].cs = None
  <2>1. slots[i].n = 0 /\ t # None
    BY <1>2 DEF LwSizes, LwInv, Entries
  <2>2. lwcall[t].slot \in Light!LwSlots /\ (lwcall[t].pc \in {"own", "leave"} => slots[lwcall[t].slot].cs = t)
    BY DEF LwInv, LwTypes, CallRec, Holds, Light!Slot
  <2>3. Passing(t, i) = 0
    BY <1>2, <2>1, <2>2 DEF Passing
  <2>4. ASSUME NEW x \in LwMutexes, Alive(x), lwm[x].sq = i PROVE Levels(t, x) = 0
    <3>1. ~(Levels(t, x) > 0)
      BY <1>2, <2>1, <2>4 DEF LwInv, Holds
    <3>2. held[t][x] \in Nat /\ (lwcall[t].pc \in Light!Parked /\ Light!Obj(t) = x => held[t][x] > 0)
      BY DEF LwSizes, LwInv, LwTypes, Knows
    <3> QED BY <3>1, <3>2 DEF Levels
  <2> QED BY <1>2, <2>1, <2>3, <2>4 DEF Accounts
<1> QED BY <1>1, <1>2

LEMMA LevelsAreNumbers ==
  ASSUME LwTypes, NEW t \in LightThreads, NEW x \in LwMutexes
  PROVE  Levels(t, x) \in Int
  BY DEF LwTypes, Levels

\* The entries move by d, and so does what t accounts for.
LEMMA AccountsMove ==
  ASSUME LwTypes, LwTypes', NEW t \in LightThreads, NEW i \in Light!LwSlots, Accounts(t, i), NamesStay, NEW d \in Int,
         \A x \in LwMutexes : Alive(x)' <=> Alive(x),
         slots'[i].n = slots[i].n + d, slots'[i].cs \in {None, t}, t # None,
         slots'[i].cs = None <=> slots'[i].n = 0,
         \A x \in LwMutexes : Alive(x) /\ lwm[x].sq = i =>
            Levels(t, x)' + Passing(t, i)' = Levels(t, x) + Passing(t, i) + d,
         (\A x \in LwMutexes : Alive(x) => lwm[x].sq # i) => Passing(t, i)' = Passing(t, i) + d
  PROVE  Accounts(t, i)'
<1>1. slots'[i].n \in Nat /\ slots[i].n \in Nat
  BY DEF LwTypes, SlotRec
<1>2. ASSUME NEW x \in LwMutexes, Alive(x)', lwm'[x].sq = i
      PROVE  slots'[i].n = Levels(t, x)' + Passing(t, i)'
  BY <1>2 DEF Accounts, NamesStay
<1>3. ASSUME \A x \in LwMutexes : Alive(x)' => lwm'[x].sq # i
      PROVE  slots'[i].n = Passing(t, i)'
  BY <1>3 DEF Accounts, NamesStay
<1> QED BY <1>1, <1>2, <1>3 DEF Accounts

\* A step of t at slot i, whose critical section is free or its own.
LEMMA SectionKeeps ==
  ASSUME LwSizes, LwInv, NEW t \in LightThreads, Apart(t), NEW i \in Light!LwSlots, Touches(i),
         NamesStay, HeldApart(t), \A x \in LwMutexes : Alive(x)' <=> Alive(x),
         slots[i].cs \in {None, t}, Accounts(t, i)',
         \A x \in LwMutexes : Alive(x) /\ lwm[x].sq # i => Levels(t, x)' = Levels(t, x),
         \A j \in Light!LwSlots \ {i} : Passing(t, j)' = Passing(t, j)
  PROVE  /\ \A j \in Light!LwSlots : Entries(j)'
         /\ \A u \in LightThreads \ {t} : Holds(u)'
<1>1. ASSUME NEW u \in LightThreads \ {t}
      PROVE  /\ lwcall'[u] = lwcall[u] /\ held'[u] = held[u] /\ Light!Obj(u)' = Light!Obj(u)
             /\ \A x \in LwMutexes : Levels(u, x)' = Levels(u, x)
             /\ \A j \in Light!LwSlots : Passing(u, j)' = Passing(u, j)
  BY DEF Apart, HeldApart, Levels, Passing, Light!Obj
<1>2. ASSUME NEW j \in Light!LwSlots PROVE Entries(j)'
  <2>1. CASE j = i
    BY <2>1 DEF Accounts, Entries, LwSizes
  <2>2. CASE j # i
    <3>1. slots'[j] = slots[j] /\ \A x \in LwMutexes : lwm'[x].sq = lwm[x].sq
      BY <2>2 DEF Touches, NamesStay
    <3>2. ASSUME NEW u \in LightThreads, slots[j].cs = u
          PROVE  /\ slots[j].n > 0
                 /\ \A x \in LwMutexes : Alive(x)' /\ lwm'[x].sq = j => slots[j].n = Levels(u, x)' + Passing(u, j)'
                 /\ (\A x \in LwMutexes : Alive(x)' => lwm'[x].sq # j) => slots[j].n = Passing(u, j)'
      <4>1. Passing(u, j)' = Passing(u, j)
        BY <1>1, <2>2
      <4>2. \A x \in LwMutexes : Alive(x) /\ lwm[x].sq = j => Levels(u, x)' = Levels(u, x)
        BY <1>1, <2>2
      <4> QED BY <3>1, <3>2, <4>1, <4>2 DEF LwInv, Entries
    <3> QED BY <3>1, <3>2 DEF LwInv, Entries
  <2> QED BY <2>1, <2>2
<1>3. ASSUME NEW u \in LightThreads \ {t} PROVE Holds(u)'
  <2>0. u # None /\ LwTypes
    BY DEF LwSizes, LwInv
  <2>1. lwcall'[u].pc \in {"own", "leave"} => Light!Slot(u)'.cs = u
    BY <1>1, <2>0 DEF LwInv, Holds, LwTypes, CallRec, Light!Slot, Touches
  <2>2. ASSUME NEW x \in LwMutexes
        PROVE  /\ held'[u][x] > 0 => Alive(x)'
               /\ Levels(u, x)' > 0 => slots'[lwm'[x].sq].cs = u
               /\ held'[u][x] > 0 /\ ~(lwcall'[u].pc \in Light!Parked /\ Light!Obj(u)' = x) => slots'[lwm'[x].sq].owner = u
    <3>1. held[u][x] > 0 => Alive(x) /\ lwm[x].sq \in Light!LwSlots
      BY <2>0 DEF LwInv, Holds, Alive, LwTypes, LwmRec
    <3>2. Levels(u, x) > 0 => held[u][x] > 0 /\ slots[lwm[x].sq].cs = u /\ lwm[x].sq # i
      BY <2>0, <3>1 DEF LwInv, Holds, Levels, LwTypes
    <3>3. held[u][x] > 0 /\ ~(lwcall[u].pc \in Light!Parked /\ Light!Obj(u) = x) => Levels(u, x) > 0
      BY <2>0 DEF Levels, LwTypes
    <3> QED BY <1>1, <3>1, <3>2, <3>3 DEF LwInv, Holds, Touches, NamesStay
  <2> QED BY <2>1, <2>2 DEF Holds
<1> QED BY <1>2, <1>3

\* A slot is changed as one record.
LEMMA SlotTouched ==
  ASSUME LwTypes, NEW i \in Light!LwSlots, NEW s \in SlotRec, slots' = [slots EXCEPT ![i] = s],
         s.inUse = slots[i].inUse, s.gen = slots[i].gen
  PROVE  Touches(i) /\ slots'[i] = s
  BY DEF LwTypes, Touches

LEMMA SlotFields ==
  ASSUME NEW s \in SlotRec, NEW t \in LightThreads
  PROVE  /\ Light!Entered(s, t) \in SlotRec /\ Light!Entered(s, t).inUse = s.inUse /\ Light!Entered(s, t).gen = s.gen
         /\ Light!Entered(s, t).cs = t /\ Light!Entered(s, t).n = s.n + 1 /\ Light!Entered(s, t).owner = s.owner
         /\ s.n > 0 =>
              /\ Light!Left(s) \in SlotRec /\ Light!Left(s).inUse = s.inUse /\ Light!Left(s).gen = s.gen
              /\ Light!Left(s).cs = (IF s.n = 1 THEN None ELSE s.cs) /\ Light!Left(s).n = s.n - 1 /\ Light!Left(s).owner = s.owner
<1>1. /\ s.n + 1 \in Nat /\ (s.n > 0 => s.n - 1 \in Nat)
      /\ (IF s.n = 1 THEN None ELSE s.cs) \in LightThreads \cup {None}
  BY DEF SlotRec
<1>2. /\ Light!Entered(s, t) \in SlotRec /\ Light!Entered(s, t).inUse = s.inUse /\ Light!Entered(s, t).gen = s.gen
      /\ Light!Entered(s, t).cs = t /\ Light!Entered(s, t).n = s.n + 1 /\ Light!Entered(s, t).owner = s.owner
  BY <1>1 DEF Light!Entered, SlotRec
<1>3. ASSUME s.n > 0
      PROVE  /\ Light!Left(s) \in SlotRec /\ Light!Left(s).inUse = s.inUse /\ Light!Left(s).gen = s.gen
             /\ Light!Left(s).cs = (IF s.n = 1 THEN None ELSE s.cs) /\ Light!Left(s).n = s.n - 1 /\ Light!Left(s).owner = s.owner
  <2> DEFINE c == IF s.n = 1 THEN None ELSE s.cs
  <2>1. Light!Left(s) = [s EXCEPT !.n = s.n - 1, !.cs = c]
    BY DEF Light!Left
  <2>2. c \in LightThreads \cup {None} /\ s.n - 1 \in Nat
    BY <1>1, <1>3
  <2> HIDE DEF c
  <2>3. /\ Light!Left(s) \in SlotRec /\ Light!Left(s).inUse = s.inUse /\ Light!Left(s).gen = s.gen
        /\ Light!Left(s).cs = c /\ Light!Left(s).n = s.n - 1 /\ Light!Left(s).owner = s.owner
    BY <2>1, <2>2 DEF SlotRec
  <2> QED BY <2>3 DEF c
<1> QED BY <1>2, <1>3

LEMMA LockEnterKeeps == LwSizes /\ LwInv /\ (\E t \in LightThreads : Light!LockEnter(t)) => LwInv'
<1> SUFFICES ASSUME LwSizes, LwInv, NEW t \in LightThreads, Light!LockEnter(t) PROVE LwInv'
  OBVIOUS
<1> PICK i \in Light!LwSlots : i = lwcall[t].slot
  BY DEF LwInv, LwTypes, CallRec
<1>0. /\ LwTypes /\ lwcall[t] \in CallRec /\ slots[i] \in SlotRec
      /\ lwcall[t].pc = "enter" /\ slots[i].cs \in {None, t} /\ UNCHANGED <<lwm, nextSlot, lwc, held>>
  BY DEF LwInv, LwTypes, CallRec, Light!LockEnter, Light!At, Light!Enterable
<1>1. Goes(t, "own")
  BY <1>0, GoGoes DEF Light!LockEnter, Ways
<1>2. Touches(i) /\ slots'[i] = Light!Entered(slots[i], t)
  <2> DEFINE e == Light!Entered(slots[i], t)
  <2>1. e \in SlotRec /\ e.inUse = slots[i].inUse /\ e.gen = slots[i].gen
    BY <1>0, SlotFields
  <2>2. LwTypes /\ slots' = [slots EXCEPT ![i] = e]
    BY <1>0 DEF Light!LockEnter
  <2> HIDE DEF e
  <2>3. Touches(i) /\ slots'[i] = e
    BY <2>1, <2>2, SlotTouched
  <2> QED BY <2>3 DEF e
<1>3. /\ slots'[i].cs = t /\ slots'[i].n = slots[i].n + 1 /\ slots'[i].owner = slots[i].owner
  <2>1. slots[i] \in SlotRec
    BY <1>0
  <2>2. /\ Light!Entered(slots[i], t).cs = t /\ Light!Entered(slots[i], t).n = slots[i].n + 1
        /\ Light!Entered(slots[i], t).owner = slots[i].owner
    BY <2>1, SlotFields
  <2> QED BY <1>2, <2>2
<1>4. /\ Apart(t) /\ Neither(t, Ending) /\ Neither(t, {"asleep"}) /\ Neither(t, Light!Parked)
      /\ lwcall'[t].pc = "own" /\ Light!Obj(t)' = Light!Obj(t) /\ lwcall'[t].slot = i /\ lwcall'[t].gen = lwcall[t].gen
  BY <1>0, <1>1 DEF Goes, Neither, Ending, Light!Parked
<1>5. NamesStay /\ HeldApart(t) /\ LwTypes'
  BY <1>0, <1>2, <1>4 DEF LwInv, Teardown, NamesStay, HeldApart, LwTypes, Touches, Apart
<1>6. /\ \A x \in LwMutexes : Alive(x)' <=> Alive(x)
      /\ Teardown' /\ OwnSlots' /\ \A u \in LightThreads \ {t} : Knows(u)'
  BY <1>0, <1>2, <1>4, <1>5, NamesKeep DEF Light!Looking
<1>7. /\ \A x \in LwMutexes : Levels(t, x)' = Levels(t, x)
      /\ \A j \in Light!LwSlots \ {i} : Passing(t, j)' = Passing(t, j)
      /\ Passing(t, i) = 0 /\ Passing(t, i)' = 1
  BY <1>0, <1>4 DEF Levels, Passing, Neither
<1>8. Accounts(t, i)'
  <2>1. Accounts(t, i) /\ t # None /\ slots[i].n \in Nat
    BY <1>0, AccountsNow DEF LwSizes, SlotRec
  <2>2. \A x \in LwMutexes : Levels(t, x) \in Int
    BY <1>0, LevelsAreNumbers
  <2> QED BY <1>0, <1>3, <1>5, <1>6, <1>7, <2>1, <2>2, AccountsMove
<1>9. (\A j \in Light!LwSlots : Entries(j)') /\ (\A u \in LightThreads \ {t} : Holds(u)')
  BY <1>0, <1>2, <1>4, <1>5, <1>6, <1>7, <1>8, SectionKeeps
<1>10. Knows(t)'
  <2>1. Light!Slot(t)' = slots'[i] /\ slots'[i].gen = slots[i].gen /\ slots'[i].inUse = slots[i].inUse /\ Light!Slot(t) = slots[i]
    BY <1>0, <1>2, <1>4 DEF Light!Slot, Touches
  <2>2. Light!Obj(t) \in LwMutexes /\ (Alive(Light!Obj(t)) => Alive(Light!Obj(t))')
    BY <1>0, <1>4, <1>5 DEF Alive, Calm, Apart, Neither, Light!Obj, CallRec, NamesStay
  <2> QED BY <1>0, <1>4, <2>1, <2>2 DEF LwInv, Knows, Light!Parked
<1>11. Holds(t)'
  <2>1. Light!Slot(t)'.cs = t
    BY <1>3, <1>4 DEF Light!Slot
  <2>2. ASSUME NEW x \in LwMutexes
        PROVE  /\ held'[t][x] > 0 => Alive(x)'
               /\ Levels(t, x)' > 0 => slots'[lwm'[x].sq].cs = t
               /\ held'[t][x] > 0 /\ ~(lwcall'[t].pc \in Light!Parked /\ Light!Obj(t)' = x) => slots'[lwm'[x].sq].owner = t
    <3>1. Levels(t, x) = held[t][x] /\ lwcall[t].pc \notin Light!Parked
      BY <1>0, <1>4 DEF Levels, Neither, LwTypes
    <3>2. held[t][x] > 0 => Alive(x) /\ lwm[x].sq \in Light!LwSlots /\ slots[lwm[x].sq].cs = t /\ slots[lwm[x].sq].owner = t
      BY <1>0, <3>1 DEF LwInv, Holds, Alive, LwTypes, LwmRec
    <3> QED BY <1>0, <1>2, <1>3, <1>6, <1>7, <3>1, <3>2 DEF Touches
  <2> QED BY <2>1, <2>2 DEF Holds
<1>12. Counts' /\ Conds'
  BY <1>0, <1>4, CountsKept, CondsKept DEF LwInv
<1> QED BY <1>5, <1>6, <1>9, <1>10, <1>11, <1>12 DEF LwInv

-----------------------------------------------------------------------------
(* The locks that are taken and given back *)

LEMMA TakenFinite == ASSUME LwSizes, NEW x \in LwMutexes PROVE IsFiniteSet(Taken(x))
<1>1. IsFiniteSet(1..MaxDepth)
  BY FS_Interval DEF LwSizes
<1>2. IsFiniteSet(LightThreads \X (1..MaxDepth))
  BY <1>1, FS_Product DEF LwSizes
<1> QED BY <1>2, FS_Subset DEF Taken

\* One more, or one less, of thread t on x, and so in the count.
LEMMA TakenMoves ==
  ASSUME LwSizes, LwTypes, LwTypes', Counts, NEW t \in LightThreads, NEW x \in LwMutexes, HeldApart(t),
         \A y \in LwMutexes \ {x} : held'[t][y] = held[t][y] /\ lwm'[y].count = lwm[y].count,
         \/ held'[t][x] = held[t][x] + 1 /\ lwm'[x].count = lwm[x].count + 1
         \/ held'[t][x] = held[t][x] - 1 /\ lwm'[x].count = lwm[x].count - 1
  PROVE  Counts'
<1>1. /\ held[t][x] \in 0..MaxDepth /\ held'[t][x] \in 0..MaxDepth /\ MaxDepth \in Nat
      /\ \A u \in LightThreads : held[u][x] \in 0..MaxDepth
  BY DEF LwTypes, LwSizes
<1>2. \A y \in LwMutexes \ {x} : Taken(y)' = Taken(y)
  BY DEF Taken, HeldApart
<1>3. CASE held'[t][x] = held[t][x] + 1 /\ lwm'[x].count = lwm[x].count + 1
  <2>1. Taken(x)' = Taken(x) \cup {<<t, held[t][x] + 1>>}
    <3>1. ASSUME NEW u \in LightThreads, NEW n \in 1..MaxDepth
          PROVE  n <= held'[u][x] <=> n <= held[u][x] \/ <<u, n>> = <<t, held[t][x] + 1>>
      <4>1. n \in Int /\ held[u][x] \in Int
        BY <1>1
      <4>2. CASE u = t
        BY <1>3, <4>1, <4>2
      <4>3. CASE u # t
        BY <4>1, <4>3 DEF HeldApart
      <4> QED BY <4>2, <4>3
    <3>2. <<t, held[t][x] + 1>> \in LightThreads \X (1..MaxDepth)
      BY <1>1, <1>3
    <3> QED BY <3>1, <3>2 DEF Taken
  <2>2. <<t, held[t][x] + 1>> \notin Taken(x)
    BY <1>1 DEF Taken
  <2>3. Cardinality(Taken(x)') = Cardinality(Taken(x)) + 1
    BY <2>1, <2>2, TakenFinite, FS_AddElement
  <2>4. lwm'[x].count = Cardinality(Taken(x)')
    BY <1>3, <2>3 DEF Counts
  <2> QED BY <1>2, <2>4 DEF Counts
<1>4. CASE held'[t][x] = held[t][x] - 1 /\ lwm'[x].count = lwm[x].count - 1
  <2>1. Taken(x)' = Taken(x) \ {<<t, held[t][x]>>}
    BY <1>1, <1>4 DEF Taken, HeldApart
  <2>2. <<t, held[t][x]>> \in Taken(x)
    BY <1>1, <1>4 DEF Taken
  <2>3. Cardinality(Taken(x)') = Cardinality(Taken(x)) - 1
    <3>1. IsFiniteSet(Taken(x))
      BY TakenFinite
    <3> QED BY <2>1, <2>2, <3>1, FS_RemoveElement
  <2>4. lwm'[x].count = Cardinality(Taken(x)')
    BY <1>4, <2>3 DEF Counts
  <2> QED BY <1>2, <2>4 DEF Counts
<1> QED BY <1>3, <1>4

\* Whoever holds x without having left it for a wait is in its critical section, as
\* the owner; nobody else is.
LEMMA InsideOwns ==
  ASSUME LwInv, NEW t \in LightThreads, NEW x \in LwMutexes, held[t][x] > 0,
         ~(lwcall[t].pc \in Light!Parked /\ Light!Obj(t) = x)
  PROVE  /\ Alive(x) /\ lwm[x].sq \in Light!LwSlots /\ slots[lwm[x].sq].inUse
         /\ slots[lwm[x].sq].cs = t /\ slots[lwm[x].sq].owner = t
<1>1. LwTypes /\ Levels(t, x) > 0
  BY DEF LwInv, Levels, LwTypes
<1> QED BY <1>1 DEF LwInv, Holds, Alive, OwnSlots, LwTypes, LwmRec

\* The entries of slot i move by d, and so does what t accounts for.
MovesEntries(t, i, d) ==
    /\ slots[i].cs \in {None, t} /\ slots'[i].cs \in {None, t}
    /\ slots'[i].n = slots[i].n + d
    /\ slots'[i].cs = None <=> slots'[i].n = 0
    /\ \A x \in LwMutexes : Alive(x) /\ lwm[x].sq = i =>
          Levels(t, x)' + Passing(t, i)' = Levels(t, x) + Passing(t, i) + d
    /\ (\A x \in LwMutexes : Alive(x) => lwm[x].sq # i) => Passing(t, i)' = Passing(t, i) + d
    /\ \A x \in LwMutexes : Alive(x) /\ lwm[x].sq # i => Levels(t, x)' = Levels(t, x)
    /\ \A j \in Light!LwSlots \ {i} : Passing(t, j)' = Passing(t, j)

\* What is left to show of a step of t at slot i.
LEMMA SectionStep ==
  ASSUME LwSizes, LwInv, LwTypes', NEW t \in LightThreads, NEW i \in Light!LwSlots, NEW d \in Int,
         Apart(t), Neither(t, Ending), lwcall'[t].pc \notin Light!Looking, Touches(i), NamesStay, HeldApart(t),
         MovesEntries(t, i, d), Knows(t)', Holds(t)', Counts', Conds'
  PROVE  LwInv'
<1>1. LwTypes /\ t # None
  BY DEF LwInv, LwSizes
<1>2. /\ \A x \in LwMutexes : Alive(x)' <=> Alive(x)
      /\ Teardown' /\ OwnSlots' /\ \A u \in LightThreads \ {t} : Knows(u)'
  BY NamesKeep
<1>3. Accounts(t, i)
  BY AccountsNow DEF MovesEntries
<1>4. Accounts(t, i)'
  BY <1>1, <1>2, <1>3, AccountsMove DEF MovesEntries
<1>5. (\A j \in Light!LwSlots : Entries(j)') /\ (\A u \in LightThreads \ {t} : Holds(u)')
  BY <1>2, <1>4, SectionKeeps DEF MovesEntries
<1> QED BY <1>2, <1>5 DEF LwInv

LEMMA LockOwnKeeps ==
  ASSUME LwSizes, LwInv, NEW t \in LightThreads, Light!LockOwn(t), Light!StillThere(t)
  PROVE  LwInv'
<1> PICK i \in Light!LwSlots, x \in LwMutexes : i = lwcall[t].slot /\ x = Light!Obj(t)
  BY DEF LwInv, LwTypes, CallRec, Light!Obj
<1>0. /\ LwTypes /\ slots[i] \in SlotRec /\ lwm[x] \in LwmRec /\ lwcall[t].pc = "own"
      /\ slots[i].cs = t /\ slots[i].n > 0 /\ Alive(x) /\ lwm[x].sq = i /\ held[t][x] < MaxDepth
      /\ UNCHANGED <<nextSlot, lwc>>
  BY DEF LwInv, LwTypes, Light!LockOwn, Light!StillThere, Light!At, Light!Slot, Holds, Knows,
     Entries
<1>1. Goes(t, "idle")
  BY <1>0, GoGoes DEF Light!LockOwn, Ways
<1>2. /\ Apart(t) /\ Neither(t, Ending) /\ Neither(t, {"asleep"}) /\ Neither(t, Light!Parked)
      /\ lwcall'[t].pc = "idle" /\ lwcall'[t].slot = i
  BY <1>0, <1>1 DEF Goes, Neither, Ending, Light!Parked
<1>3. Touches(i) /\ slots'[i] = [slots[i] EXCEPT !.owner = t]
  <2> DEFINE s == [slots[i] EXCEPT !.owner = t]
  <2>1. s \in SlotRec /\ s.inUse = slots[i].inUse /\ s.gen = slots[i].gen
    BY <1>0 DEF SlotRec
  <2>2. slots' = [slots EXCEPT ![i] = s]
    BY <1>0 DEF Light!LockOwn, LwTypes
  <2> QED BY <1>0, <2>1, <2>2, SlotTouched
<1>4. slots'[i].cs = t /\ slots'[i].n = slots[i].n /\ slots'[i].owner = t
  BY <1>0, <1>3 DEF SlotRec
<1>5. /\ lwm' \in [LwMutexes -> LwmRec] /\ \A y \in LwMutexes \ {x} : lwm'[y] = lwm[y]
      /\ lwm'[x].sq = lwm[x].sq /\ lwm'[x].word = "held" /\ lwm'[x].count = lwm[x].count + 1
  <2> DEFINE m == [lwm[x] EXCEPT !.word = "held", !.count = lwm[x].count + 1]
  <2>1. m \in LwmRec /\ m.sq = lwm[x].sq /\ m.word = "held" /\ m.count = lwm[x].count + 1
    <3>1. lwm[x].count + 1 \in Nat
      BY <1>0 DEF LwmRec
    <3> QED BY <1>0, <3>1 DEF LwmRec
  <2>2. lwm' = [lwm EXCEPT ![x] = m]
    BY <1>0 DEF Light!LockOwn, LwTypes
  <2> HIDE DEF m
  <2> QED BY <1>0, <2>1, <2>2 DEF LwTypes
<1>6. /\ HeldApart(t) /\ held'[t][x] = held[t][x] + 1
      /\ \A y \in LwMutexes \ {x} : held'[t][y] = held[t][y]
  <2>1. held' = [held EXCEPT ![t] = [held[t] EXCEPT ![x] = held[t][x] + 1]]
    BY <1>0 DEF Light!LockOwn, LwTypes
  <2>2. held[t][x] + 1 \in 0..MaxDepth
    BY <1>0 DEF LwTypes, LwSizes
  <2> QED BY <1>0, <2>1, <2>2 DEF LwTypes, HeldApart
<1>7. LwTypes' /\ NamesStay
  BY <1>0, <1>2, <1>3, <1>5, <1>6 DEF LwInv, Teardown, LwTypes, NamesStay, Touches, Apart,
     HeldApart
<1>8. \A y \in LwMutexes : Alive(y)' <=> Alive(y)
  BY <1>2, <1>7, AliveKept DEF NamesStay
<1>9. /\ Levels(t, x)' = Levels(t, x) + 1
      /\ \A y \in LwMutexes \ {x} : Levels(t, y)' = Levels(t, y)
      /\ \A j \in Light!LwSlots \ {i} : Passing(t, j)' = Passing(t, j)
      /\ Passing(t, i) = 1 /\ Passing(t, i)' = 0
  BY <1>0, <1>2, <1>6 DEF Levels, Passing, Neither, LwTypes
<1>10. Knows(t)'
  BY <1>2 DEF Knows, Light!Parked, Light!Looking
<1>11. Holds(t)'
  <2>1. ASSUME NEW y \in LwMutexes, held'[t][y] > 0
        PROVE  Alive(y)' /\ slots'[lwm'[y].sq].cs = t /\ slots'[lwm'[y].sq].owner = t
    <3>1. CASE y = x
      BY <1>0, <1>4, <1>5, <1>8, <3>1
    <3>2. CASE y # x
      <4>1. Alive(y) /\ lwm[y].sq \in Light!LwSlots /\ slots[lwm[y].sq].cs = t /\ slots[lwm[y].sq].owner = t
        BY <1>2, <1>6, <2>1, <3>2, InsideOwns DEF Neither
      <4>2. lwm'[y].sq = lwm[y].sq /\ lwm[y].sq # i
        BY <1>0, <1>5, <3>2, <4>1 DEF LwInv, OwnSlots
      <4> QED BY <1>3, <1>8, <4>1, <4>2 DEF Touches
    <3> QED BY <3>1, <3>2
  <2>2. \A y \in LwMutexes : Levels(t, y)' > 0 => held'[t][y] > 0
    BY <1>2, <1>7 DEF Levels, Neither, LwTypes
  <2> QED BY <1>2, <2>1, <2>2 DEF Holds
<1>12. Counts'
  BY <1>0, <1>5, <1>6, <1>7, TakenMoves DEF LwInv
<1>13. Conds'
  BY <1>0, <1>2, CondsKept DEF LwInv
<1>14. \A y \in LwMutexes : Alive(y) /\ lwm[y].sq = i => y = x
  BY <1>0 DEF LwInv, OwnSlots
<1>15. t # None /\ Levels(t, x) \in Int /\ slots[i].n \in Nat
  BY <1>0, LevelsAreNumbers DEF LwSizes, SlotRec
<1>16. MovesEntries(t, i, 0)
  BY <1>0, <1>4, <1>9, <1>14, <1>15 DEF MovesEntries
<1> QED BY <1>2, <1>3, <1>6, <1>7, <1>10, <1>11, <1>12, <1>13, <1>16, SectionStep
           DEF Light!Looking

\* A call leaves the critical section: at the end of an unlock, or because the lwmutex
\* it waited for is gone.
LEMMA LeaveKeeps ==
  ASSUME LwSizes, LwInv, NEW t \in LightThreads, Light!UnlockLeave(t) \/ (Light!LockOwn(t) /\ ~Light!StillThere(t))
  PROVE  LwInv'
<1> PICK i \in Light!LwSlots : i = lwcall[t].slot
  BY DEF LwInv, LwTypes, CallRec
<1>0. /\ LwTypes /\ slots[i] \in SlotRec /\ lwcall[t].pc \in {"own", "leave"} /\ Light!Go(t, "idle")
      /\ slots[i].cs = t /\ slots[i].n > 0 /\ slots' = [slots EXCEPT ![i] = Light!Left(slots[i])]
      /\ UNCHANGED <<lwm, nextSlot, lwc, held>>
  BY DEF LwInv, LwTypes, Light!LockOwn, Light!UnlockLeave, Light!At, Light!Slot, Holds, Entries
<1>1. Goes(t, "idle")
  BY <1>0, GoGoes DEF Ways
<1>2. /\ Apart(t) /\ Neither(t, Ending) /\ Neither(t, {"asleep"}) /\ Neither(t, Light!Parked)
      /\ lwcall'[t].pc = "idle" /\ lwcall'[t].slot = i
  BY <1>0, <1>1 DEF Goes, Neither, Ending, Light!Parked
<1>3. /\ Light!Left(slots[i]) \in SlotRec /\ Light!Left(slots[i]).inUse = slots[i].inUse /\ Light!Left(slots[i]).gen = slots[i].gen
      /\ Light!Left(slots[i]).cs = (IF slots[i].n = 1 THEN None ELSE t)
      /\ Light!Left(slots[i]).n = slots[i].n - 1 /\ Light!Left(slots[i]).owner = slots[i].owner
  BY <1>0, SlotFields
<1>4. Touches(i) /\ slots'[i] = Light!Left(slots[i])
  BY <1>0, <1>3, SlotTouched
<1>5. /\ slots[i].n \in Nat /\ t # None
      /\ slots'[i].cs = (IF slots[i].n = 1 THEN None ELSE t)
      /\ slots'[i].n = slots[i].n - 1 /\ slots'[i].owner = slots[i].owner
  BY <1>0, <1>3, <1>4 DEF LwSizes, SlotRec
<1>6. HeldApart(t) /\ NamesStay /\ LwTypes'
  BY <1>0, <1>2, <1>4 DEF LwInv, Teardown, LwTypes, NamesStay, Touches, Apart, HeldApart
<1>7. \A x \in LwMutexes : Alive(x)' <=> Alive(x)
  BY <1>2, <1>6, AliveKept DEF NamesStay
<1>8. /\ \A x \in LwMutexes : Levels(t, x)' = Levels(t, x) /\ Levels(t, x) = held[t][x]
      /\ \A j \in Light!LwSlots \ {i} : Passing(t, j)' = Passing(t, j)
      /\ Passing(t, i) = 1 /\ Passing(t, i)' = 0
  BY <1>0, <1>2 DEF Levels, Passing, Neither, LwTypes
<1>9. MovesEntries(t, i, -1)
  <2>1. \A x \in LwMutexes : Levels(t, x) \in Int
    BY <1>0, LevelsAreNumbers
  <2> QED BY <1>0, <1>5, <1>8, <2>1 DEF MovesEntries
<1>10. Knows(t)'
  BY <1>2 DEF Knows, Light!Parked, Light!Looking
<1>11. Holds(t)'
  <2>1. ASSUME NEW x \in LwMutexes, held[t][x] > 0
        PROVE  Alive(x)' /\ slots'[lwm'[x].sq].cs = t /\ slots'[lwm'[x].sq].owner = t
    <3>1. Alive(x) /\ lwm[x].sq \in Light!LwSlots /\ slots[lwm[x].sq].cs = t /\ slots[lwm[x].sq].owner = t
      BY <1>2, <2>1, InsideOwns DEF Neither
    <3>2. CASE lwm[x].sq = i
      <4>1. slots[i].n = held[t][x] + 1 /\ held[t][x] \in Nat
        BY <1>0, <1>8, <3>1, <3>2 DEF LwInv, Entries, LwTypes, LwSizes
      <4> QED BY <1>0, <1>5, <1>7, <2>1, <3>1, <3>2, <4>1
    <3>3. CASE lwm[x].sq # i
      BY <1>0, <1>4, <1>7, <3>1, <3>3 DEF Touches
    <3> QED BY <3>2, <3>3
  <2> QED BY <1>0, <1>2, <1>8, <2>1 DEF Holds
<1>12. Counts' /\ Conds'
  BY <1>0, <1>2, CountsKept, CondsKept DEF LwInv
<1> QED BY <1>2, <1>4, <1>6, <1>9, <1>10, <1>11, <1>12, SectionStep DEF Light!Looking

LEMMA UnlockCallKeeps ==
  ASSUME LwSizes, LwInv, NEW t \in LightThreads, NEW x \in LwMutexes, Light!UnlockCall(t, x)
  PROVE  LwInv'
<1> PICK i \in Light!LwSlots \cup {0} : i = lwm[x].sq
  BY DEF LwInv, LwTypes, LwmRec
<1>0. /\ LwTypes /\ i \in Light!LwSlots /\ slots[i] \in SlotRec /\ lwm[x] \in LwmRec /\ lwcall[t] \in CallRec
      /\ lwcall[t].pc = "idle" /\ slots[i].inUse /\ slots[i].owner = t /\ lwm[x].count # 0
      /\ lwm[x].count \in Nat /\ held[t][x] \in 0..MaxDepth /\ UNCHANGED <<nextSlot, lwc>>
  BY DEF LwInv, LwTypes, Light!UnlockCall, Light!At, LwmRec
\* The caller holds x: a stale owner is ruled out by the count.
<1>1. held[t][x] > 0
  <2> SUFFICES ASSUME Light!CountExact(x) PROVE held[t][x] > 0
    BY DEF Light!UnlockCall
  <2>1. Taken(x) # {}
    BY <1>0, FS_EmptySet DEF LwInv, Counts
  <2>2. PICK u \in LightThreads : held[u][x] > 0
    BY <1>0, <2>1 DEF Taken, LwTypes
  <2>3. ~(lwcall[u].pc \in Light!Parked /\ Light!Obj(u) = x)
    BY <2>2 DEF LwInv, Knows, Light!CountExact
  <2>4. slots[i].owner = u
    BY <1>0, <2>2, <2>3, InsideOwns
  <2> QED BY <1>0, <2>2, <2>4
<1>2. Alive(x) /\ slots[i].cs = t
  BY <1>0, <1>1, InsideOwns DEF Light!Parked
<1>3. /\ Apart(t) /\ Neither(t, Ending) /\ Neither(t, {"asleep"}) /\ Neither(t, Light!Parked)
      /\ lwcall'[t].pc = "leave" /\ lwcall'[t].slot = i
  <2> DEFINE r == [lwcall[t] EXCEPT !.pc = "leave", !.x = x, !.slot = i]
  <2>1. lwcall' = [lwcall EXCEPT ![t] = r]
    BY <1>0 DEF Light!UnlockCall, LwTypes
  <2>2. r \in CallRec /\ r.pc = "leave" /\ r.slot = i
    BY <1>0 DEF CallRec, Ways
  <2> HIDE DEF r
  <2>3. Apart(t) /\ lwcall'[t] = r
    BY <1>0, <2>1, <2>2 DEF Apart, LwTypes
  <2> QED BY <1>0, <2>2, <2>3 DEF Neither, Ending, Light!Parked
<1>4. /\ HeldApart(t) /\ held'[t][x] = held[t][x] - 1
      /\ \A y \in LwMutexes \ {x} : held'[t][y] = held[t][y]
  <2>1. held' = [held EXCEPT ![t] = [held[t] EXCEPT ![x] = held[t][x] - 1]]
    BY <1>0 DEF Light!UnlockCall, LwTypes
  <2>2. held[t][x] - 1 \in 0..MaxDepth
    BY <1>0, <1>1 DEF LwSizes
  <2> QED BY <1>0, <2>1, <2>2 DEF LwTypes, HeldApart
<1>5. /\ lwm' \in [LwMutexes -> LwmRec] /\ \A y \in LwMutexes \ {x} : lwm'[y] = lwm[y]
      /\ lwm'[x].sq = lwm[x].sq /\ lwm'[x].word \in {"zero", lwm[x].word} /\ lwm'[x].count = lwm[x].count - 1
  <2> DEFINE w == IF lwm[x].count = 1 THEN "zero" ELSE lwm[x].word
             m == [lwm[x] EXCEPT !.count = lwm[x].count - 1, !.word = w]
  <2>1. w \in {"free", "held", "zero", "dead"} /\ w \in {"zero", lwm[x].word}
    BY <1>0 DEF LwmRec
  <2>2. lwm[x].count - 1 \in Nat
    BY <1>0
  <2>3. lwm' = [lwm EXCEPT ![x] = m]
    BY <1>0 DEF Light!UnlockCall, LwTypes
  <2> HIDE DEF w
  <2>4. m \in LwmRec /\ m.sq = lwm[x].sq /\ m.word = w /\ m.count = lwm[x].count - 1
    BY <1>0, <2>1, <2>2 DEF LwmRec
  <2> HIDE DEF m
  <2> QED BY <1>0, <2>1, <2>3, <2>4 DEF LwTypes
<1>6. /\ Touches(i) /\ slots'[i].cs = t /\ slots'[i].n = slots[i].n
      /\ slots'[i].owner = IF lwm[x].count = 1 THEN None ELSE t
  <2>1. CASE lwm[x].count = 1
    <3> DEFINE s == [slots[i] EXCEPT !.owner = None]
    <3>1. s \in SlotRec /\ s.inUse = slots[i].inUse /\ s.gen = slots[i].gen /\ s.cs = t /\ s.n = slots[i].n /\ s.owner = None
      BY <1>0, <1>2 DEF SlotRec
    <3>2. slots' = [slots EXCEPT ![i] = s]
      BY <1>0, <2>1 DEF Light!UnlockCall, LwTypes
    <3> HIDE DEF s
    <3>3. Touches(i) /\ slots'[i] = s
      BY <1>0, <3>1, <3>2, SlotTouched
    <3> QED BY <2>1, <3>1, <3>3
  <2>2. CASE lwm[x].count # 1
    BY <1>0, <1>2, <2>2 DEF Light!UnlockCall, Touches, LwTypes
  <2> QED BY <2>1, <2>2
<1>7. LwTypes' /\ NamesStay
  <2>1. LwTypes'
    BY <1>0, <1>3, <1>4, <1>5, <1>6 DEF LwTypes, Touches, Apart, HeldApart
  <2>2. \A y \in LwMutexes : lwm[y].word = "dead" => lwm[y].sq = 0
    BY DEF LwInv, Teardown
  <2>3. ASSUME NEW y \in LwMutexes
        PROVE  lwm'[y].sq = lwm[y].sq /\ (lwm'[y].word = "dead" => lwm[y].sq = 0)
    BY <1>5, <2>2
  <2> QED BY <1>5, <2>1, <2>3 DEF NamesStay
<1>8. \A y \in LwMutexes : Alive(y)' <=> Alive(y)
  BY <1>3, <1>7, AliveKept DEF NamesStay
<1>9. /\ Levels(t, x)' = Levels(t, x) - 1
      /\ \A y \in LwMutexes \ {x} : Levels(t, y)' = Levels(t, y)
      /\ \A j \in Light!LwSlots \ {i} : Passing(t, j)' = Passing(t, j)
      /\ Passing(t, i) = 0 /\ Passing(t, i)' = 1
  BY <1>0, <1>3, <1>4 DEF Levels, Passing, Neither, LwTypes
<1>10. \A y \in LwMutexes : Alive(y) /\ lwm[y].sq = i => y = x
  BY <1>0, <1>2 DEF LwInv, OwnSlots
<1>11. MovesEntries(t, i, 0)
  <2>1. t # None /\ Levels(t, x) \in Int /\ slots[i].n \in Nat /\ slots[i].n > 0
    BY <1>0, <1>2, LevelsAreNumbers DEF LwSizes, SlotRec, LwInv, Entries
  <2>2. lwm[x].sq = i
    OBVIOUS
  <2> QED BY <1>0, <1>2, <1>6, <1>9, <1>10, <2>1, <2>2 DEF MovesEntries
<1>12. Knows(t)'
  BY <1>3 DEF Knows, Light!Parked, Light!Looking
\* The last level of x is the last of all threads when recursive_count is one.
<1>13. held'[t][x] > 0 => lwm[x].count # 1
  <2>1. held'[t][x] > 0 => {<<t, 1>>, <<t, 2>>} \subseteq Taken(x)
    BY <1>0, <1>4 DEF Taken, LwSizes
  <2>2. Cardinality(Taken(x)) = 1 => \E p : Taken(x) = {p}
    BY TakenFinite, FS_Singleton
  <2> QED BY <2>1, <2>2 DEF LwInv, Counts
<1>14. Holds(t)'
  <2>1. ASSUME NEW y \in LwMutexes, held'[t][y] > 0
        PROVE  Alive(y)' /\ slots'[lwm'[y].sq].cs = t /\ slots'[lwm'[y].sq].owner = t
    <3>1. CASE y = x
      BY <1>0, <1>2, <1>5, <1>6, <1>8, <1>13, <2>1, <3>1
    <3>2. CASE y # x
      <4>1. Alive(y) /\ lwm[y].sq \in Light!LwSlots /\ slots[lwm[y].sq].cs = t /\ slots[lwm[y].sq].owner = t
        BY <1>3, <1>4, <2>1, <3>2, InsideOwns DEF Neither
      <4>2. lwm'[y].sq = lwm[y].sq /\ lwm[y].sq # i
        BY <1>5, <1>10, <3>2, <4>1
      <4> QED BY <1>6, <1>8, <4>1, <4>2 DEF Touches
    <3> QED BY <3>1, <3>2
  <2>2. \A y \in LwMutexes : Levels(t, y)' > 0 => held'[t][y] > 0
    BY <1>3, <1>7 DEF Levels, Neither, LwTypes
  <2>3. Light!Slot(t)'.cs = t
    BY <1>3, <1>6 DEF Light!Slot
  <2> QED BY <2>1, <2>2, <2>3 DEF Holds
<1>15. Counts'
  BY <1>0, <1>4, <1>5, <1>7, TakenMoves DEF LwInv
<1>16. Conds'
  BY <1>0, <1>3, CondsKept DEF LwInv
<1> QED BY <1>0, <1>3, <1>4, <1>6, <1>7, <1>11, <1>12, <1>14, <1>15, <1>16, SectionStep
           DEF Light!Looking

-----------------------------------------------------------------------------
(* destroy *)

\* An lwmutex that nobody holds is not entered either.
LEMMA NobodyHolds ==
  ASSUME LwSizes, LwInv, NEW x \in LwMutexes, \A u \in LightThreads : held[u][x] = 0
  PROVE  /\ Taken(x) = {}
         /\ \A u \in LightThreads : Levels(u, x) = 0 /\ ~(lwcall[u].pc \in Light!Parked /\ Light!Obj(u) = x)
<1>1. \A u \in LightThreads : ~(lwcall[u].pc \in Light!Parked /\ Light!Obj(u) = x)
  BY DEF LwInv, Knows
<1>2. Taken(x) = {}
  BY DEF Taken
<1> QED BY <1>1, <1>2 DEF Levels

LEMMA DestroyCallKeeps ==
  ASSUME LwSizes, LwInv, Churn = FALSE, NEW t \in LightThreads, NEW x \in LwMutexes, Light!DestroyCall(t, x)
  PROVE  LwInv'
<1> PICK i \in Light!LwSlots \cup {0} : i = lwm[x].sq
  BY DEF LwInv, LwTypes, LwmRec
<1>0. /\ LwTypes /\ i \in Light!LwSlots /\ slots[i] \in SlotRec /\ lwcall[t] \in CallRec
      /\ lwcall[t].pc = "idle" /\ slots[i].inUse /\ slots[i].owner = None /\ slots[i].cs \in {None, t}
      /\ slots[i].gen \in 0..MaxWipes /\ slots[i].gen < MaxWipes /\ Light!Settled(x) /\ Light!CountExact(x)
      /\ UNCHANGED <<lwm, nextSlot, lwc, held>>
  BY DEF LwInv, LwTypes, Light!DestroyCall, Light!At, Light!Enterable, SlotRec
<1>1. Alive(x) /\ t # None
  BY <1>0 DEF Light!Settled, Alive, Calm, Ending, Light!LwSlots, LwSizes
\* The owner word and the critical section say that nobody holds it.
<1>2. \A u \in LightThreads : held[u][x] = 0
  <2> SUFFICES ASSUME NEW u \in LightThreads, held[u][x] > 0 PROVE FALSE
    BY <1>0 DEF LwTypes
  <2>1. ~(lwcall[u].pc \in Light!Parked /\ Light!Obj(u) = x)
    BY <1>0 DEF LwInv, Knows, Light!CountExact
  <2>2. slots[i].owner = u
    BY <2>1, InsideOwns
  <2> QED BY <1>0, <2>2 DEF LwSizes
<1>3. /\ Taken(x) = {}
      /\ \A u \in LightThreads : Levels(u, x) = 0 /\ ~(lwcall[u].pc \in Light!Parked /\ Light!Obj(u) = x)
  BY <1>2, NobodyHolds
<1>4. slots[i].cs = None
  <2>1. slots[i].cs = t => slots[i].n > 0 /\ slots[i].n = Levels(t, x) + Passing(t, i)
    BY <1>0, <1>1 DEF LwInv, Entries
  <2>2. Passing(t, i) = 0
    BY <1>0 DEF Passing
  <2> QED BY <1>0, <1>3, <2>1, <2>2
<1>5. /\ Apart(t) /\ Neither(t, {"asleep"}) /\ Neither(t, Light!Parked) /\ Neither(t, {"own", "leave", "enter"})
      /\ lwcall'[t].pc = "wipe" /\ Light!Obj(t)' = x
  <2> DEFINE r == [lwcall[t] EXCEPT !.pc = "wipe", !.x = x]
  <2>1. lwcall' = [lwcall EXCEPT ![t] = r]
    BY <1>0 DEF Light!DestroyCall, LwTypes
  <2>2. r \in CallRec /\ r.pc = "wipe" /\ r.x = x
    BY <1>0 DEF CallRec, Ways
  <2> HIDE DEF r
  <2>3. Apart(t) /\ lwcall'[t] = r
    BY <1>0, <2>1, <2>2 DEF Apart, LwTypes
  <2> QED BY <1>0, <2>2, <2>3 DEF Neither, Light!Parked, Light!Obj
<1>6. /\ slots' \in [Light!LwSlots -> SlotRec] /\ \A j \in Light!LwSlots \ {i} : slots'[j] = slots[j]
      /\ slots'[i].gen = slots[i].gen + 1 /\ slots'[i].cs = slots[i].cs /\ slots'[i].n = slots[i].n
  <2> DEFINE s == [slots[i] EXCEPT !.inUse = FALSE, !.gen = slots[i].gen + 1]
  <2>1. slots' = [slots EXCEPT ![i] = s]
    BY <1>0 DEF Light!DestroyCall, LwTypes
  <2>2. slots[i].gen + 1 \in 0..MaxWipes
    BY <1>0 DEF LwSizes
  <2>3. s \in SlotRec /\ s.gen = slots[i].gen + 1 /\ s.cs = slots[i].cs /\ s.n = slots[i].n
    BY <1>0, <2>2 DEF SlotRec
  <2> HIDE DEF s
  <2> QED BY <1>0, <2>1, <2>3 DEF LwTypes
<1>7. LwTypes'
  BY <1>0, <1>5, <1>6 DEF LwTypes, Apart
<1>8. /\ ~Alive(x)' /\ \A y \in LwMutexes \ {x} : Alive(y)' <=> Alive(y)
      /\ \A y \in LwMutexes \ {x} : Alive(y) => lwm[y].sq \in Light!LwSlots \ {i}
  <2>1. ~Alive(x)'
    BY <1>5 DEF Alive, Calm, Ending, Light!Obj
  <2>2. ASSUME NEW y \in LwMutexes \ {x} PROVE Alive(y)' <=> Alive(y)
    BY <1>0, <1>5 DEF Alive, Calm, Ending, Light!Obj, Apart
  <2>3. ASSUME NEW y \in LwMutexes \ {x}, Alive(y) PROVE lwm[y].sq \in Light!LwSlots \ {i}
    BY <1>0, <1>1, <2>3 DEF LwInv, OwnSlots, LwTypes, LwmRec, Alive
  <2> QED BY <2>1, <2>2, <2>3
<1>9. Teardown'
  <2>1. ASSUME NEW u \in LightThreads, NEW v \in LightThreads, Light!Obj(u)' = Light!Obj(v)', lwcall'[u].pc \in Ending
        PROVE  u = v \/ lwcall'[v].pc \notin Light!Looking \cup Ending
    BY <1>0, <1>5, <2>1 DEF LwInv, Teardown, Apart, Light!Settled, Ending, Light!Obj
  <2>2. ASSUME NEW u \in LightThreads, lwcall'[u].pc = "bury" PROVE lwm'[Light!Obj(u)'].sq = 0
    BY <1>0, <1>5, <2>2 DEF LwInv, Teardown, Apart, Light!Obj
  <2> QED BY <1>0, <2>1, <2>2 DEF LwInv, Teardown
<1>10. OwnSlots'
  BY <1>0, <1>6, <1>8 DEF LwInv, OwnSlots
<1>11. ASSUME NEW u \in LightThreads
       PROVE  /\ \A y \in LwMutexes : Levels(u, y)' = Levels(u, y)
              /\ \A j \in Light!LwSlots : Passing(u, j)' = Passing(u, j)
  BY <1>0, <1>5 DEF Levels, Passing, Neither, Apart, Light!Obj
<1>12. ASSUME NEW u \in LightThreads PROVE Knows(u)'
  <2>1. CASE u = t
    BY <1>5, <2>1 DEF Knows, Light!Parked, Light!Looking
  <2>2. CASE u # t
    <3>1. /\ lwcall'[u] = lwcall[u] /\ Light!Obj(u)' = Light!Obj(u) /\ Light!Obj(u) \in LwMutexes
          /\ lwcall[u].slot \in Light!LwSlots /\ lwcall[u].gen \in Nat /\ Knows(u)
      BY <1>0, <1>5, <2>2 DEF LwInv, LwTypes, CallRec, Apart, Light!Obj
    <3>2. CASE lwcall[u].slot # i
      BY <1>0, <1>1, <1>6, <1>8, <3>1, <3>2 DEF Knows, Light!Slot
    <3>3. CASE lwcall[u].slot = i
      <4>1. lwcall[u].pc \notin Light!Parked
        BY <1>0, <3>3 DEF Light!CountExact
      <4>2. lwcall[u].pc \in {"enter", "own"} => lwcall[u].gen < slots'[i].gen
        BY <1>0, <1>6, <3>1, <3>3 DEF Knows, Light!Slot
      <4>3. Light!Slot(u)' = slots'[i] /\ slots'[i].gen \in Nat
        BY <1>0, <1>6, <3>1, <3>3 DEF Light!Slot
      <4> QED BY <1>0, <3>1, <4>1, <4>2, <4>3 DEF Knows
    <3> QED BY <3>2, <3>3
  <2> QED BY <2>1, <2>2
<1>13. ASSUME NEW u \in LightThreads PROVE Holds(u)'
  <2>1. lwcall'[u].pc \in {"own", "leave"} => Light!Slot(u)'.cs = u
    <3>1. \A j \in Light!LwSlots : slots'[j].cs = slots[j].cs
      BY <1>6
    <3>2. CASE u # t
      <4>1. lwcall'[u] = lwcall[u] /\ lwcall[u].slot \in Light!LwSlots
        BY <1>0, <1>5, <3>2 DEF Apart, LwTypes, CallRec
      <4> QED BY <3>1, <4>1 DEF LwInv, Holds, Light!Slot
    <3> QED BY <1>5, <3>2
  <2>2. ASSUME NEW y \in LwMutexes \ {x}, held[u][y] > 0
        PROVE  /\ Alive(y)' /\ slots'[lwm[y].sq] = slots[lwm[y].sq]
    BY <1>0, <1>6, <1>8, <2>2 DEF LwInv, Holds
  <2>3. \A y \in LwMutexes : Levels(u, y) > 0 => held[u][y] > 0
    BY <1>0 DEF Levels, LwTypes
  <2>4. \A y \in LwMutexes : (lwcall'[u].pc \in Light!Parked /\ Light!Obj(u)' = y) <=> (lwcall[u].pc \in Light!Parked /\ Light!Obj(u) = y)
    BY <1>5 DEF Apart, Neither, Light!Obj
  <2> QED BY <1>0, <1>2, <1>3, <1>11, <2>1, <2>2, <2>3, <2>4 DEF LwInv, Holds
<1>14. ASSUME NEW j \in Light!LwSlots PROVE Entries(j)'
  <2>1. CASE j = i
    BY <1>4, <1>6, <2>1 DEF LwInv, Entries, LwSizes
  <2>2. CASE j # i
    BY <1>0, <1>1, <1>6, <1>8, <1>11, <2>2 DEF LwInv, Entries
  <2> QED BY <2>1, <2>2
<1>15. Counts' /\ Conds'
  BY <1>0, <1>5, CountsKept, CondsKept DEF LwInv
<1> QED BY <1>7, <1>9, <1>10, <1>12, <1>13, <1>14, <1>15 DEF LwInv

\* The structure is wiped, and then marked dead.
LEMMA DestroyEndKeeps ==
  ASSUME LwSizes, LwInv, NEW t \in LightThreads, Light!DestroyWipe(t) \/ Light!DestroyBury(t)
  PROVE  LwInv'
<1> PICK x \in LwMutexes : x = Light!Obj(t)
  BY DEF LwInv, LwTypes, CallRec, Light!Obj
<1>0. /\ LwTypes /\ lwm[x] \in LwmRec /\ lwcall[t].pc \in Ending
      /\ UNCHANGED <<slots, nextSlot, lwc, held>>
  BY DEF LwInv, LwTypes, Light!DestroyWipe, Light!DestroyBury, Light!At, Ending
<1>1. /\ Goes(t, IF lwcall[t].pc = "wipe" THEN "bury" ELSE "idle")
      /\ lwm' \in [LwMutexes -> LwmRec] /\ \A y \in LwMutexes \ {x} : lwm'[y] = lwm[y]
      /\ lwm'[x].sq = 0 /\ lwm'[x].count \in {0, lwm[x].count}
  <2>1. CASE Light!DestroyWipe(t)
    <3>1. Goes(t, "bury") /\ lwcall[t].pc = "wipe"
      BY <1>0, <2>1, GoGoes DEF Light!DestroyWipe, Ways, Light!At
    <3>2. lwm' = [lwm EXCEPT ![x] = [sq |-> 0, word |-> "zero", recursive |-> FALSE, count |-> 0]]
      BY <2>1 DEF Light!DestroyWipe
    <3> QED BY <1>0, <3>1, <3>2 DEF LwTypes, LwmRec
  <2>2. CASE Light!DestroyBury(t)
    <3>1. Goes(t, "idle") /\ lwcall[t].pc = "bury" /\ lwm[x].sq = 0
      BY <1>0, <2>2, GoGoes DEF Light!DestroyBury, Ways, Light!At, LwInv, Teardown
    <3> DEFINE m == [lwm[x] EXCEPT !.word = "dead"]
    <3>2. lwm' = [lwm EXCEPT ![x] = m]
      BY <1>0, <2>2 DEF Light!DestroyBury, LwTypes
    <3>3. m \in LwmRec /\ m.sq = lwm[x].sq /\ m.count = lwm[x].count
      BY <1>0 DEF LwmRec
    <3> HIDE DEF m
    <3> QED BY <1>0, <3>1, <3>2, <3>3 DEF LwTypes
  <2> QED BY <2>1, <2>2
<1>2. /\ Apart(t) /\ Neither(t, {"asleep"}) /\ Neither(t, Light!Parked) /\ Neither(t, {"own", "leave", "enter"})
      /\ Neither(t, Light!Looking) /\ lwcall'[t].pc \in {"bury", "idle"} /\ Light!Obj(t)' = x
  BY <1>0, <1>1 DEF Goes, Neither, Ending, Light!Parked, Light!Looking
<1>3. LwTypes' /\ ~Alive(x)
  BY <1>0, <1>1, <1>2 DEF LwTypes, Apart, Alive, Calm
<1>4. /\ ~Alive(x)' /\ \A y \in LwMutexes \ {x} : Alive(y)' <=> Alive(y)
  BY <1>0, <1>1, <1>2 DEF Alive, Calm, Apart, Light!Obj
<1>5. \A u \in LightThreads : held[u][x] = 0
  BY <1>0, <1>3 DEF LwInv, Holds, LwTypes
<1>6. /\ Taken(x) = {}
      /\ \A u \in LightThreads : Levels(u, x) = 0 /\ ~(lwcall[u].pc \in Light!Parked /\ Light!Obj(u) = x)
  BY <1>5, NobodyHolds
<1>7. Teardown'
  <2>1. ASSUME NEW u \in LightThreads, NEW v \in LightThreads, Light!Obj(u)' = Light!Obj(v)', lwcall'[u].pc \in Ending
        PROVE  u = v \/ lwcall'[v].pc \notin Light!Looking \cup Ending
    BY <1>0, <1>2, <2>1 DEF LwInv, Teardown, Apart, Ending, Light!Obj
  <2>2. ASSUME NEW u \in LightThreads, lwcall'[u].pc = "bury" PROVE lwm'[Light!Obj(u)'].sq = 0
    <3>1. CASE u = t
      BY <1>1, <1>2, <3>1
    <3>2. CASE u # t
      <4>1. lwcall'[u] = lwcall[u] /\ Light!Obj(u)' = Light!Obj(u) /\ Light!Obj(u) \in LwMutexes /\ lwm[Light!Obj(u)].sq = 0
        BY <1>0, <1>2, <2>2, <3>2 DEF LwInv, Teardown, Apart, Light!Obj, LwTypes, CallRec
      <4> QED BY <1>1, <4>1
    <3> QED BY <3>1, <3>2
  <2> QED BY <1>1, <2>1, <2>2 DEF LwInv, Teardown
<1>8. OwnSlots'
  BY <1>0, <1>1, <1>4 DEF LwInv, OwnSlots
<1>9. ASSUME NEW u \in LightThreads
      PROVE  /\ \A y \in LwMutexes : Levels(u, y)' = Levels(u, y)
             /\ \A j \in Light!LwSlots : Passing(u, j)' = Passing(u, j)
             /\ \A y \in LwMutexes : (lwcall'[u].pc \in Light!Parked /\ Light!Obj(u)' = y)
                                       <=> (lwcall[u].pc \in Light!Parked /\ Light!Obj(u) = y)
  BY <1>0, <1>2 DEF Levels, Passing, Neither, Apart, Light!Obj
<1>10. ASSUME NEW u \in LightThreads PROVE Knows(u)'
  <2>1. CASE u = t
    BY <1>2, <2>1 DEF Knows, Neither, Light!Parked, Light!Looking
  <2>2. CASE u # t
    <3>1. lwcall'[u] = lwcall[u] /\ Light!Obj(u)' = Light!Obj(u) /\ Light!Obj(u) \in LwMutexes /\ Light!Slot(u)' = Light!Slot(u) /\ Knows(u)
      BY <1>0, <1>2, <2>2 DEF LwInv, LwTypes, CallRec, Apart, Light!Obj, Light!Slot
    <3>2. Alive(Light!Obj(u)) => Alive(Light!Obj(u))' /\ lwm'[Light!Obj(u)].sq = lwm[Light!Obj(u)].sq
      <4>1. CASE Light!Obj(u) = x
        BY <1>3, <4>1
      <4>2. CASE Light!Obj(u) # x
        BY <1>0, <1>1, <1>2, <2>2, <3>1, <4>2 DEF Alive, Calm, Apart, Light!Obj
      <4> QED BY <4>1, <4>2
    <3> QED BY <1>0, <3>1, <3>2 DEF Knows
  <2> QED BY <2>1, <2>2
<1>11. ASSUME NEW u \in LightThreads PROVE Holds(u)'
  <2>1. lwcall'[u].pc \in {"own", "leave"} => Light!Slot(u)'.cs = u
    BY <1>0, <1>2 DEF LwInv, Holds, Apart, Neither, Light!Slot
  <2>2. ASSUME NEW y \in LwMutexes \ {x} PROVE lwm'[y].sq = lwm[y].sq /\ (Alive(y)' <=> Alive(y))
    BY <1>1, <1>4
  <2> QED BY <1>0, <1>5, <1>6, <1>9, <2>1, <2>2 DEF LwInv, Holds
<1>12. ASSUME NEW j \in Light!LwSlots PROVE Entries(j)'
  BY <1>0, <1>1, <1>3, <1>4, <1>9 DEF LwInv, Entries
<1>13. Counts'
  <2>1. \A y \in LwMutexes : Taken(y)' = Taken(y)
    BY <1>0 DEF Taken
  <2>2. lwm'[x].count = Cardinality(Taken(x))
    BY <1>1, <1>6, FS_EmptySet DEF LwInv, Counts
  <2>3. \A y \in LwMutexes : lwm'[y].count = Cardinality(Taken(y))
    BY <1>1, <2>2 DEF LwInv, Counts
  <2> QED BY <2>1, <2>3 DEF Counts
<1>14. Conds'
  BY <1>0, <1>2, CondsKept DEF LwInv
<1> QED BY <1>3, <1>7, <1>8, <1>10, <1>11, <1>12, <1>13, <1>14 DEF LwInv

-----------------------------------------------------------------------------
(* conditions *)

LEMMA WaitersFinite == ASSUME LwSizes, NEW c \in LwConds PROVE IsFiniteSet(Light!Waiters(c))
  BY FS_Subset DEF LwSizes, Light!Waiters

\* Steps that move no call.
LEMMA CondOnlyKeeps ==
  ASSUME LwSizes, LwInv, NEW t \in LightThreads, NEW c \in LwConds, Churn = FALSE,
         \/ Light!CondDestroy(t, c) \/ Light!CondSignal(t, c) \/ Light!CondSignalAll(t, c)
         \/ \E x \in LwMutexes : Light!CondCreate(t, c, x)
  PROVE  LwInv'
<1>0. LwTypes /\ UNCHANGED <<lwm, slots, nextSlot, lwcall, held>> /\ lwc[c] \in CondRec
  BY DEF LwInv, LwTypes, Light!CondDestroy, Light!CondSignal, Light!CondSignalAll,
     Light!CondCreate
<1>1. \A d \in LwConds : Light!Waiters(d)' = Light!Waiters(d)
  BY <1>0 DEF Light!Waiters, Light!At
<1>2. PICK r \in CondRec :
         /\ lwc' = [lwc EXCEPT ![c] = r]
         /\ r.committed = Cardinality(Light!Waiters(c)) /\ r.pending <= r.committed
         /\ ~r.inUse => Light!Waiters(c) = {}
  <2>1. ASSUME NEW x \in LwMutexes, Light!CondCreate(t, c, x)
        PROVE  \E r \in CondRec : /\ lwc' = [lwc EXCEPT ![c] = r]
                                  /\ r.committed = Cardinality(Light!Waiters(c)) /\ r.pending <= r.committed
                                  /\ ~r.inUse => Light!Waiters(c) = {}
    <3> DEFINE r == [inUse |-> TRUE, m |-> lwm[x].sq, committed |-> 0, pending |-> 0]
    <3>1. lwm[x].sq \in Light!LwSlots
      BY <1>0, <2>1 DEF Light!CondCreate, LwTypes, LwmRec
    <3>2. Light!Waiters(c) = {} /\ Cardinality(Light!Waiters(c)) = 0
      BY <2>1, FS_EmptySet DEF Light!CondCreate, LwInv, Conds
    <3>3. r \in CondRec /\ r.committed = 0 /\ r.pending = 0 /\ r.inUse
      BY <3>1 DEF CondRec
    <3>4. lwc' = [lwc EXCEPT ![c] = r]
      BY <2>1 DEF Light!CondCreate
    <3> HIDE DEF r
    <3>5. r.committed = Cardinality(Light!Waiters(c)) /\ r.pending <= r.committed
      BY <3>2, <3>3
    <3> QED BY <3>3, <3>4, <3>5
  <2>2. CASE Light!CondDestroy(t, c)
    <3> DEFINE r == [lwc[c] EXCEPT !.inUse = FALSE]
    <3>1. r \in CondRec /\ r.committed = lwc[c].committed /\ r.pending = lwc[c].pending
      BY <1>0 DEF CondRec
    <3>2. lwc' = [lwc EXCEPT ![c] = r] /\ Light!Waiters(c) = {}
      BY <1>0, <2>2 DEF Light!CondDestroy, LwTypes
    <3> HIDE DEF r
    <3> QED BY <3>1, <3>2 DEF LwInv, Conds
  <2>3. CASE Light!CondSignal(t, c) \/ Light!CondSignalAll(t, c)
    <3>1. PICK n \in Nat : lwc' = [lwc EXCEPT ![c] = [lwc[c] EXCEPT !.pending = n]]
                           /\ n <= lwc[c].committed /\ lwc[c].inUse
      <4>1. lwc[c].committed \in Nat /\ lwc[c].pending \in Nat
        BY <1>0 DEF CondRec
      <4>2. CASE Light!CondSignal(t, c)
        <5>1. lwc' = [lwc EXCEPT ![c] = [lwc[c] EXCEPT !.pending = lwc[c].pending + 1]]
              /\ lwc[c].inUse /\ lwc[c].committed > lwc[c].pending
          BY <1>0, <4>2 DEF Light!CondSignal, LwTypes
        <5>2. lwc[c].pending + 1 \in Nat /\ lwc[c].pending + 1 <= lwc[c].committed
          BY <4>1, <5>1
        <5> QED BY <5>1, <5>2
      <4>3. CASE Light!CondSignalAll(t, c)
        <5>1. lwc' = [lwc EXCEPT ![c] = [lwc[c] EXCEPT !.pending = lwc[c].committed]] /\ lwc[c].inUse
          BY <1>0, <4>3 DEF Light!CondSignalAll, LwTypes
        <5>2. lwc[c].committed <= lwc[c].committed
          BY <4>1
        <5> QED BY <4>1, <5>1, <5>2
      <4> QED BY <2>3, <4>2, <4>3
    <3> DEFINE r == [lwc[c] EXCEPT !.pending = n]
    <3>2. r \in CondRec /\ r.committed = lwc[c].committed /\ r.pending = n /\ r.inUse = lwc[c].inUse
      BY <1>0 DEF CondRec
    <3>3. lwc' = [lwc EXCEPT ![c] = r]
      BY <3>1
    <3> HIDE DEF r
    <3> QED BY <3>1, <3>2, <3>3 DEF LwInv, Conds
  <2> QED BY <2>1, <2>2, <2>3
<1>3. LwTypes'
  BY <1>0, <1>2 DEF LwTypes
<1>4. Conds'
  BY <1>0, <1>1, <1>2 DEF LwInv, Conds, LwTypes
<1>5. Teardown' /\ OwnSlots' /\ Counts'
  BY <1>0 DEF LwInv, Teardown, OwnSlots, Counts, Alive, Calm, Light!Obj, Taken
<1>6. \A u \in LightThreads : Knows(u)' /\ Holds(u)'
  BY <1>0 DEF LwInv, Knows, Holds, Light!Slot, Light!Obj, Alive, Calm, Levels
<1>7. \A i \in Light!LwSlots : Entries(i)'
  BY <1>0 DEF LwInv, Entries, Alive, Calm, Light!Obj, Levels, Passing
<1> QED BY <1>3, <1>4, <1>5, <1>6, <1>7 DEF LwInv

\* A condition changes to r as thread t begins or ends to wait.
LEMMA WaitersMove ==
  ASSUME LwSizes, LwInv, NEW t \in LightThreads, Apart(t), NEW c \in LwConds, NEW r \in CondRec,
         lwc' = [lwc EXCEPT ![c] = r], r.pending <= r.committed, r.inUse \/ ~lwc[c].inUse,
         \/ lwcall[t].pc # "asleep" /\ lwcall'[t].pc = "asleep" /\ lwcall'[t].c = c
              /\ r.committed = lwc[c].committed + 1 /\ r.inUse
         \/ lwcall[t].pc = "asleep" /\ lwcall[t].c = c /\ lwcall'[t].pc # "asleep"
              /\ r.committed = lwc[c].committed - 1
  PROVE  Conds'
<1>0. LwTypes
  BY DEF LwInv
<1>1. \A d \in LwConds \ {c} : Light!Waiters(d)' = Light!Waiters(d)
  BY DEF Light!Waiters, Light!At, Apart
<1>2. lwc'[c] = r /\ \A d \in LwConds \ {c} : lwc'[d] = lwc[d]
  BY <1>0 DEF LwTypes
<1>3. CASE lwcall[t].pc # "asleep" /\ lwcall'[t].pc = "asleep" /\ lwcall'[t].c = c
              /\ r.committed = lwc[c].committed + 1 /\ r.inUse
  <2>1. Light!Waiters(c)' = Light!Waiters(c) \cup {t} /\ t \notin Light!Waiters(c)
    BY <1>3 DEF Light!Waiters, Light!At, Apart
  <2>2. Cardinality(Light!Waiters(c)') = Cardinality(Light!Waiters(c)) + 1
    BY <2>1, WaitersFinite, FS_AddElement
  <2> QED BY <1>1, <1>2, <1>3, <2>2 DEF LwInv, Conds
<1>4. CASE lwcall[t].pc = "asleep" /\ lwcall[t].c = c /\ lwcall'[t].pc # "asleep"
              /\ r.committed = lwc[c].committed - 1
  <2>1. Light!Waiters(c)' = Light!Waiters(c) \ {t} /\ t \in Light!Waiters(c)
    BY <1>4 DEF Light!Waiters, Light!At, Apart
  <2>2. Cardinality(Light!Waiters(c)') = Cardinality(Light!Waiters(c)) - 1
    BY <2>1, WaitersFinite, FS_RemoveElement
  <2>3. lwc[c].inUse
    BY <2>1 DEF LwInv, Conds
  <2> QED BY <1>1, <1>2, <1>4, <2>2, <2>3 DEF LwInv, Conds
<1> QED BY <1>3, <1>4

\* A holder begins to wait: one level is left, the others stay entered.
LEMMA CondWaitKeeps ==
  ASSUME LwSizes, LwInv, NEW t \in LightThreads, NEW c \in LwConds, NEW x \in LwMutexes,
         NEW k \in {"forever", "timed"}, Light!CondWait(t, c, x, k)
  PROVE  LwInv'
<1> PICK i \in Light!LwSlots : i = lwc[c].m
  BY DEF LwInv, LwTypes, CondRec
<1>0. /\ LwTypes /\ slots[i] \in SlotRec /\ lwc[c] \in CondRec /\ lwcall[t].pc = "idle"
      /\ lwc[c].inUse /\ slots[i].inUse /\ lwm[x].sq = i /\ held[t][x] > 0
      /\ UNCHANGED <<lwm, nextSlot, held>>
  BY DEF LwInv, LwTypes, Light!CondWait, Light!At
<1>1. Alive(x) /\ slots[i].cs = t /\ slots[i].n > 0 /\ t # None /\ slots[i].n \in Nat
  BY <1>0, InsideOwns DEF Light!Parked, LwInv, Entries, LwSizes, SlotRec
<1>2. /\ Touches(i) /\ slots'[i].n = slots[i].n - 1 /\ slots'[i].gen = slots[i].gen /\ slots'[i].inUse
      /\ slots'[i].cs = (IF slots[i].n = 1 THEN None ELSE t)
  <2> DEFINE l == Light!Left(slots[i])
             s == [l EXCEPT !.owner = None]
  <2>1. /\ l \in SlotRec /\ l.inUse = slots[i].inUse /\ l.gen = slots[i].gen
        /\ l.cs = (IF slots[i].n = 1 THEN None ELSE t) /\ l.n = slots[i].n - 1
    <3>1. slots[i] \in SlotRec /\ slots[i].n > 0 /\ slots[i].cs = t /\ t \in LightThreads
      BY <1>0, <1>1
    <3> QED BY ONLY <3>1, SlotFields
  <2>2. slots' = [slots EXCEPT ![i] = s]
    BY <1>0 DEF Light!CondWait, LwTypes
  <2> HIDE DEF l
  <2>3. s \in SlotRec /\ s.inUse = l.inUse /\ s.gen = l.gen /\ s.cs = l.cs /\ s.n = l.n
    BY <2>1 DEF SlotRec
  <2> HIDE DEF s
  <2>4. LwTypes /\ s \in SlotRec /\ s.inUse = slots[i].inUse /\ s.gen = slots[i].gen
    BY <1>0, <2>1, <2>3
  <2>5. Touches(i) /\ slots'[i] = s
    BY <2>2, <2>4, SlotTouched
  <2> QED BY <1>0, <2>1, <2>3, <2>5
<1>3. /\ Apart(t) /\ Neither(t, Ending) /\ lwcall'[t].pc = "asleep" /\ Light!Obj(t)' = x /\ lwcall'[t].c = c
      /\ lwcall'[t].slot = i /\ lwcall'[t].gen = slots[i].gen
  <2> DEFINE r == [pc |-> "asleep", x |-> x, c |-> c, slot |-> i, gen |-> slots[i].gen, kind |-> k]
  <2>1. lwcall' = [lwcall EXCEPT ![t] = r]
    BY DEF Light!CondWait
  <2>2. r \in CallRec
    BY <1>0 DEF CallRec, Ways, Light!Parked, Light!LwKinds, SlotRec
  <2>3. r.pc = "asleep" /\ r.x = x /\ r.c = c /\ r.slot = i /\ r.gen = slots[i].gen
    OBVIOUS
  <2> HIDE DEF r
  <2>4. Apart(t) /\ lwcall'[t] = r
    BY <1>0, <2>1, <2>2 DEF Apart, LwTypes
  <2> QED BY <1>0, <2>3, <2>4 DEF Neither, Ending, Light!Obj
<1>4. HeldApart(t) /\ NamesStay
  BY <1>0 DEF LwInv, Teardown, LwTypes, NamesStay, HeldApart
<1>5. \A y \in LwMutexes : Alive(y)' <=> Alive(y)
  BY <1>3, <1>4, AliveKept DEF NamesStay
<1>6. /\ Levels(t, x)' = Levels(t, x) - 1
      /\ \A y \in LwMutexes \ {x} : Levels(t, y)' = Levels(t, y)
      /\ \A j \in Light!LwSlots : Passing(t, j)' = Passing(t, j)
      /\ \A y \in LwMutexes : Levels(t, y) = held[t][y]
  BY <1>0, <1>3 DEF Levels, Passing, LwTypes, Light!Parked
<1>7. \A y \in LwMutexes : Alive(y) /\ lwm[y].sq = i => y = x
  BY <1>0, <1>1 DEF LwInv, OwnSlots
<1>8. MovesEntries(t, i, -1)
  <2>1. Levels(t, x) \in Int /\ Passing(t, i) \in Int
    BY <1>0, LevelsAreNumbers DEF Passing
  <2> QED BY <1>0, <1>1, <1>2, <1>6, <1>7, <2>1 DEF MovesEntries
<1>9. PICK r \in CondRec : /\ lwc' = [lwc EXCEPT ![c] = r] /\ r.pending <= r.committed /\ r.inUse
                           /\ r.committed = lwc[c].committed + 1
  <2> DEFINE r == [lwc[c] EXCEPT !.committed = lwc[c].committed + 1]
  <2>1. lwc' = [lwc EXCEPT ![c] = r]
    BY <1>0 DEF Light!CondWait, LwTypes
  <2>2. lwc[c].committed \in Nat /\ lwc[c].pending \in Nat /\ lwc[c].pending <= lwc[c].committed
    BY <1>0 DEF LwInv, Conds, CondRec
  <2>3. lwc[c].committed + 1 \in Nat /\ lwc[c].pending <= lwc[c].committed + 1
    BY <2>2
  <2>4. r \in CondRec /\ r.inUse /\ r.pending = lwc[c].pending /\ r.committed = lwc[c].committed + 1
    BY <1>0, <2>3 DEF CondRec
  <2> HIDE DEF r
  <2> QED BY <2>1, <2>3, <2>4
<1>10. Conds'
  BY <1>0, <1>3, <1>9, WaitersMove
<1>11. LwTypes'
  BY <1>0, <1>2, <1>3, <1>9 DEF LwTypes, Touches, Apart
<1>12. Knows(t)'
  <2>1. Light!Slot(t)' = slots'[i] /\ slots[i].gen \in 0..MaxWipes
    BY <1>0, <1>3 DEF Light!Slot, SlotRec
  <2>2. Alive(Light!Obj(t))' /\ lwm'[Light!Obj(t)'].sq = i
    BY <1>0, <1>1, <1>3 DEF Alive, Calm, Apart, Neither, Light!Obj, Ending
  <2> QED BY <1>0, <1>2, <1>3, <2>1, <2>2 DEF Knows, Light!Parked, Light!Looking
<1>13. Holds(t)'
  <2>1. ASSUME NEW y \in LwMutexes, held[t][y] > 0
        PROVE  /\ Alive(y)'
               /\ y # x => slots'[lwm'[y].sq].cs = t /\ slots'[lwm'[y].sq].owner = t
    <3>1. Alive(y) /\ lwm[y].sq \in Light!LwSlots /\ slots[lwm[y].sq].cs = t /\ slots[lwm[y].sq].owner = t
      BY <1>0, <2>1, InsideOwns DEF Light!Parked
    <3>2. y # x => lwm[y].sq # i
      BY <1>7, <3>1
    <3> QED BY <1>0, <1>2, <1>5, <3>1, <3>2 DEF Touches
  <2>2. Levels(t, x)' > 0 => slots'[lwm'[x].sq].cs = t
    <3>1. slots[i].n = Levels(t, x) + Passing(t, i)
      BY <1>0, <1>1 DEF LwInv, Entries
    <3>2. Passing(t, i) = 0 /\ Levels(t, x) \in Int
      BY <1>0, LevelsAreNumbers DEF Passing
    <3> QED BY <1>0, <1>1, <1>2, <1>6, <3>1, <3>2
  <2>3. \A y \in LwMutexes \ {x} : Levels(t, y)' > 0 => held[t][y] > 0
    BY <1>6
  <2> QED BY <1>0, <1>3, <2>1, <2>2, <2>3 DEF Holds, Light!Parked
<1>14. Counts'
  BY <1>0, CountsKept DEF LwInv
<1> QED BY <1>2, <1>3, <1>4, <1>8, <1>10, <1>11, <1>12, <1>13, <1>14, SectionStep
           DEF Light!Looking

\* A sleeper is served, or its deadline passed.
LEMMA CondWakesKeeps ==
  ASSUME LwSizes, LwInv, NEW t \in LightThreads, Light!CondWakes(t)
  PROVE  LwInv'
<1> PICK c \in LwConds : c = lwcall[t].c
  BY DEF LwInv, LwTypes, CallRec
<1>0. /\ LwTypes /\ lwc[c] \in CondRec /\ lwcall[t].pc = "asleep" /\ UNCHANGED <<lwm, slots, nextSlot, held>>
  BY DEF LwInv, LwTypes, Light!CondWakes, Light!At
<1>1. Goes(t, "reenter")
  BY <1>0, GoGoes DEF Light!CondWakes, Ways, Light!Parked
<1>2. /\ Apart(t) /\ Neither(t, Ending) /\ Neither(t, Light!Looking) /\ Neither(t, {"own", "leave"})
      /\ lwcall'[t].pc = "reenter" /\ lwcall'[t].x = lwcall[t].x
      /\ lwcall'[t].slot = lwcall[t].slot /\ lwcall'[t].gen = lwcall[t].gen
  BY <1>0, <1>1 DEF Goes, Neither, Ending, Light!Looking, Light!Obj
<1>3. /\ lwc[c].committed \in Nat /\ lwc[c].pending \in Nat
      /\ lwc[c].pending <= lwc[c].committed /\ lwc[c].committed > 0
  <2>1. t \in Light!Waiters(c)
    BY <1>0 DEF Light!Waiters, Light!At
  <2>2. Cardinality(Light!Waiters(c)) # 0
    BY <2>1, WaitersFinite, FS_EmptySet
  <2> QED BY <1>0, <2>2 DEF LwInv, Conds, CondRec
<1>4. PICK r \in CondRec : /\ lwc' = [lwc EXCEPT ![c] = r] /\ r.pending <= r.committed
                           /\ r.inUse = lwc[c].inUse /\ r.committed = lwc[c].committed - 1
  <2> DEFINE served == lwc[c].pending > 0
             p == Light!AtMost(IF served THEN lwc[c].pending - 1 ELSE lwc[c].pending, lwc[c].committed - 1)
             r == [lwc[c] EXCEPT !.committed = lwc[c].committed - 1, !.pending = p]
  <2>1. p \in Nat /\ p <= lwc[c].committed - 1 /\ lwc[c].committed - 1 \in Nat
    BY <1>3 DEF Light!AtMost
  <2>2. lwc' = [lwc EXCEPT ![c] = r]
    BY <1>0 DEF Light!CondWakes, LwTypes
  <2> HIDE DEF p
  <2>3. r \in CondRec /\ r.committed = lwc[c].committed - 1 /\ r.pending = p /\ r.inUse = lwc[c].inUse
    BY <1>0, <2>1 DEF CondRec
  <2> HIDE DEF r
  <2> QED BY <2>1, <2>2, <2>3
<1>5. Conds'
  BY <1>0, <1>2, <1>4, WaitersMove
<1>6. LwTypes'
  BY <1>0, <1>2, <1>4 DEF LwTypes, Apart
<1>7. \A x \in LwMutexes : Alive(x)' <=> Alive(x)
  BY <1>0, <1>2, AliveKept
<1>8. Teardown' /\ OwnSlots'
  BY <1>0, <1>2, <1>7, TeardownKept, OwnSlotsKept DEF LwInv, Teardown, Neither
<1>9. ASSUME NEW u \in LightThreads
      PROVE  /\ \A x \in LwMutexes : Levels(u, x)' = Levels(u, x)
             /\ \A i \in Light!LwSlots : Passing(u, i)' = Passing(u, i)
             /\ \A x \in LwMutexes : (lwcall'[u].pc \in Light!Parked /\ Light!Obj(u)' = x)
                                       <=> (lwcall[u].pc \in Light!Parked /\ Light!Obj(u) = x)
             /\ Light!Slot(u)' = Light!Slot(u)
  <2>1. CASE u = t
    BY <1>0, <1>2, <2>1 DEF Levels, Passing, Light!Obj, Light!Parked, Light!Slot
  <2>2. CASE u # t
    BY <1>0, <1>2, <2>2 DEF Levels, Passing, Light!Obj, Light!Parked, Light!Slot, Apart
  <2> QED BY <2>1, <2>2
<1>10. ASSUME NEW u \in LightThreads PROVE Knows(u)'
  <2>1. CASE u = t
    <3>1. Knows(t) /\ Light!Obj(t) \in LwMutexes /\ Light!Obj(t)' = Light!Obj(t)
      BY <1>0, <1>2 DEF LwInv, LwTypes, CallRec, Light!Obj
    <3>2. Alive(Light!Obj(t)) => Alive(Light!Obj(t))'
      BY <1>0, <1>2, <3>1 DEF Alive, Calm, Apart, Neither, Light!Obj, Ending
    <3> QED BY <1>0, <1>2, <1>9, <2>1, <3>1, <3>2 DEF Knows, Light!Parked, Light!Looking
  <2>2. CASE u # t
    BY <1>0, <1>2, <1>7, <2>2, KnowsKept DEF LwInv
  <2> QED BY <2>1, <2>2
<1>11. ASSUME NEW u \in LightThreads PROVE Holds(u)'
  <2>1. lwcall'[u].pc \in {"own", "leave"} => lwcall[u].pc \in {"own", "leave"}
    BY <1>2 DEF Apart
  <2> QED BY <1>0, <1>7, <1>9, <2>1 DEF LwInv, Holds
<1>12. ASSUME NEW i \in Light!LwSlots PROVE Entries(i)'
  BY <1>0, <1>7, <1>9 DEF LwInv, Entries
<1>13. Counts'
  BY <1>0, CountsKept DEF LwInv
<1> QED BY <1>5, <1>6, <1>8, <1>10, <1>11, <1>12, <1>13 DEF LwInv

\* The waiter enters again; its lwmutex is there.
LEMMA CondReenterKeeps ==
  ASSUME LwSizes, LwInv, NEW t \in LightThreads, Light!CondReenter(t)
  PROVE  LwInv'
<1> PICK i \in Light!LwSlots, x \in LwMutexes : i = lwcall[t].slot /\ x = Light!Obj(t)
  BY DEF LwInv, LwTypes, CallRec, Light!Obj
<1>0. /\ LwTypes /\ slots[i] \in SlotRec /\ lwcall[t].pc = "reenter" /\ slots[i].cs \in {None, t}
      /\ lwcall[t].gen = slots[i].gen /\ slots[i].inUse /\ Alive(x) /\ lwm[x].sq = i /\ held[t][x] > 0
      /\ UNCHANGED <<lwm, nextSlot, lwc>>
  BY DEF LwInv, LwTypes, Light!CondReenter, Light!At, Light!Enterable, Knows, Light!Parked,
     Light!Slot
<1>1. Goes(t, "idle") /\ held' = held /\ slots' = [slots EXCEPT ![i] = [Light!Entered(slots[i], t) EXCEPT !.owner = t]]
  BY <1>0, GoGoes DEF Light!CondReenter, Ways, Light!StillThere, Light!Slot, LwTypes
<1>2. /\ Apart(t) /\ Neither(t, Ending) /\ Neither(t, {"asleep"}) /\ Neither(t, {"own", "leave"})
      /\ lwcall'[t].pc = "idle"
  BY <1>0, <1>1 DEF Goes, Neither, Ending
<1>3. Touches(i) /\ slots'[i].cs = t /\ slots'[i].n = slots[i].n + 1 /\ slots'[i].owner = t
  <2> DEFINE e == Light!Entered(slots[i], t)
             s == [e EXCEPT !.owner = t]
  <2>1. e \in SlotRec /\ e.inUse = slots[i].inUse /\ e.gen = slots[i].gen /\ e.cs = t /\ e.n = slots[i].n + 1
    BY <1>0, SlotFields
  <2> HIDE DEF e
  <2>2. s \in SlotRec /\ s.inUse = e.inUse /\ s.gen = e.gen /\ s.cs = e.cs /\ s.n = e.n /\ s.owner = t
    BY <2>1 DEF SlotRec
  <2>3. slots' = [slots EXCEPT ![i] = s]
    BY <1>1 DEF e
  <2> HIDE DEF s
  <2>4. Touches(i) /\ slots'[i] = s
    <3>1. LwTypes
      BY <1>0
    <3>2. s \in SlotRec /\ s.inUse = slots[i].inUse /\ s.gen = slots[i].gen
      BY <2>1, <2>2
    <3> QED BY <2>3, <3>1, <3>2, SlotTouched
  <2> QED BY <2>1, <2>2, <2>4
<1>4. HeldApart(t) /\ NamesStay /\ LwTypes'
  BY <1>0, <1>1, <1>2, <1>3 DEF LwInv, Teardown, LwTypes, NamesStay, HeldApart, Touches, Apart
<1>5. \A y \in LwMutexes : Alive(y)' <=> Alive(y)
  BY <1>2, <1>4, AliveKept DEF NamesStay
<1>6. /\ Levels(t, x)' = Levels(t, x) + 1
      /\ \A y \in LwMutexes \ {x} : Levels(t, y)' = Levels(t, y) /\ Levels(t, y) = held[t][y]
      /\ \A y \in LwMutexes : Levels(t, y)' = held[t][y]
      /\ \A j \in Light!LwSlots : Passing(t, j)' = Passing(t, j)
  BY <1>0, <1>1, <1>2 DEF Levels, Passing, LwTypes, Light!Parked
<1>7. \A y \in LwMutexes : Alive(y) /\ lwm[y].sq = i => y = x
  BY <1>0 DEF LwInv, OwnSlots
<1>8. MovesEntries(t, i, 1)
  <2>1. Levels(t, x) \in Int /\ Passing(t, i) \in Int /\ slots[i].n \in Nat /\ t # None
    BY <1>0, LevelsAreNumbers DEF Passing, SlotRec, LwSizes
  <2> QED BY <1>0, <1>3, <1>6, <1>7, <2>1 DEF MovesEntries
<1>9. Knows(t)'
  BY <1>2 DEF Knows, Light!Parked, Light!Looking
<1>10. Holds(t)'
  <2>1. ASSUME NEW y \in LwMutexes, held[t][y] > 0
        PROVE  Alive(y)' /\ slots'[lwm'[y].sq].cs = t /\ slots'[lwm'[y].sq].owner = t
    <3>1. CASE y = x
      BY <1>0, <1>3, <1>5, <3>1
    <3>2. CASE y # x
      <4>1. Alive(y) /\ lwm[y].sq \in Light!LwSlots /\ slots[lwm[y].sq].cs = t /\ slots[lwm[y].sq].owner = t
        BY <2>1, <3>2, InsideOwns
      <4>2. lwm[y].sq # i
        BY <1>7, <3>2, <4>1
      <4> QED BY <1>0, <1>3, <1>5, <4>1, <4>2 DEF Touches
    <3> QED BY <3>1, <3>2
  <2> QED BY <1>1, <1>2, <1>6, <2>1 DEF Holds
<1>11. Counts' /\ Conds'
  BY <1>0, <1>1, <1>2, CountsKept, CondsKept DEF LwInv
<1> QED BY <1>2, <1>3, <1>4, <1>8, <1>9, <1>10, <1>11, SectionStep DEF Light!Looking

-----------------------------------------------------------------------------

LEMMA LwNextInv == LwSizes /\ Churn = FALSE /\ LwInv /\ [Light!Next]_(Light!lwVars) => LwInv'
<1> SUFFICES ASSUME LwSizes, Churn = FALSE, LwInv, [Light!Next]_(Light!lwVars) PROVE LwInv'
  OBVIOUS
<1>1. CASE UNCHANGED Light!lwVars
  <2>1. UNCHANGED <<lwm, slots, nextSlot, lwc, lwcall, held>>
    BY <1>1 DEF Light!lwVars
  <2>2. LwTypes' /\ Teardown' /\ OwnSlots'
    BY <2>1 DEF LwInv, LwTypes, Teardown, OwnSlots, Alive, Calm, Light!Obj
  <2>3. \A u \in LightThreads : Knows(u)' /\ Holds(u)'
    BY <2>1 DEF LwInv, Knows, Holds, Light!Slot, Light!Obj, Alive, Calm, Levels
  <2>4. \A i \in Light!LwSlots : Entries(i)'
    BY <2>1 DEF LwInv, Entries, Alive, Calm, Light!Obj, Levels, Passing
  <2>5. Counts' /\ Conds'
    BY <2>1 DEF LwInv, Counts, Taken, Conds, Light!Waiters, Light!At
  <2> QED BY <2>2, <2>3, <2>4, <2>5 DEF LwInv
<1>2. CASE Light!Next
  <2>1. PICK t \in LightThreads :
          \/ Light!LockCheck(t) \/ Light!LockLazy(t) \/ Light!LockRegister(t) \/ Light!LockGiveUp(t)
          \/ Light!LockSlot(t) \/ Light!LockEnter(t) \/ Light!LockOwn(t) \/ Light!UnlockLeave(t)
          \/ Light!DestroyWipe(t) \/ Light!DestroyBury(t) \/ Light!CondWakes(t) \/ Light!CondReenter(t)
          \/ \E x \in LwMutexes :
                \/ \E b \in BOOLEAN : Light!Create(t, x, b)
                \/ \E k \in Light!LwKinds : Light!LockCall(t, x, k)
                \/ Light!UnlockCall(t, x) \/ Light!DestroyCall(t, x)
                \/ \E c \in LwConds : \/ Light!CondCreate(t, c, x)
                                      \/ \E k \in {"forever", "timed"} : Light!CondWait(t, c, x, k)
          \/ \E c \in LwConds : Light!CondDestroy(t, c) \/ Light!CondSignal(t, c) \/ Light!CondSignalAll(t, c)
    BY <1>2 DEF Light!Next
  <2>2. CASE \/ Light!LockCheck(t) \/ Light!LockLazy(t) \/ Light!LockRegister(t) \/ Light!LockGiveUp(t)
             \/ \E x \in LwMutexes : \/ \E b \in BOOLEAN : Light!Create(t, x, b)
                                     \/ \E k \in Light!LwKinds : Light!LockCall(t, x, k)
    BY <2>2, LookKeeps
  <2>3. CASE Light!LockSlot(t) \/ Light!LockEnter(t)
    BY <2>3, LockSlotKeeps, LockEnterKeeps
  <2>4. CASE Light!LockOwn(t) \/ Light!UnlockLeave(t)
    BY <2>4, LockOwnKeeps, LeaveKeeps
  <2>5. CASE \E x \in LwMutexes : Light!UnlockCall(t, x) \/ Light!DestroyCall(t, x)
    BY <2>5, UnlockCallKeeps, DestroyCallKeeps
  <2>6. CASE Light!DestroyWipe(t) \/ Light!DestroyBury(t)
    BY <2>6, DestroyEndKeeps
  <2>7. CASE \E c \in LwConds : \/ Light!CondDestroy(t, c) \/ Light!CondSignal(t, c) \/ Light!CondSignalAll(t, c)
                                \/ \E x \in LwMutexes : Light!CondCreate(t, c, x)
    BY <2>7, CondOnlyKeeps
  <2>8. CASE \E c \in LwConds, x \in LwMutexes, k \in {"forever", "timed"} : Light!CondWait(t, c, x, k)
    BY <2>8, CondWaitKeeps
  <2>9. CASE Light!CondWakes(t) \/ Light!CondReenter(t)
    BY <2>9, CondWakesKeeps, CondReenterKeeps
  <2> QED BY <2>1, <2>2, <2>3, <2>4, <2>5, <2>6, <2>7, <2>8, <2>9
<1> QED BY <1>1, <1>2

(* Whoever was given a lightweight mutex is alone in it, in the slot its structure
   names, and a slot serves one structure, while lwmutexes are not destroyed under
   calls that look them up; any number of threads, structures and slots.     *)
THEOREM LightIsExclusive == LwSizes /\ Churn = FALSE => (Light!Spec => []Light!LwExclusive)
<1> SUFFICES ASSUME LwSizes, Churn = FALSE PROVE Light!Spec => []Light!LwExclusive
  OBVIOUS
<1> QED BY LwInitInv, LwNextInv, LwInvFollows, PTL DEF Light!Spec

=============================================================================
