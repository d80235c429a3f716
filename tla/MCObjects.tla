----------------------------- MODULE MCObjects ------------------------------
(* The lv2 objects, and the locks of sysPrxForUser.c, for TLC.  The semaphore has the
   variables of Lv2Semaphore, which theorems are about; they rest while another kind is
   in use.                                                                   *)
EXTENDS MCHost, Lv2Semaphore, TLC

CONSTANTS
    None,
    Pair,               \* the threads of mutexes and lightweight mutexes
    x1, c1, d1, b1, b2  \* an lwmutex, an lwcond, data of an event, bits of a flag

Wait(bits, all, clear, timeout) ==
    [bits |-> bits, all |-> all, clear |-> clear, timeout |-> timeout]

Asks == { Wait({b1}, FALSE, "bits", "forever"),
          Wait({b1, b2}, TRUE, "all", "timed"),
          Wait({b1, b2}, FALSE, "no", "poll") }

Cond == INSTANCE Lv2MutexCondProofs WITH
    Threads <- Pair, NumMutexes <- 1, NumConds <- 1, TidMax <- 2, MaxDepth <- 2,
    RacyTeardown <- FALSE,
    mActive <- v1, recursive <- v2, ownerTid <- v3, lockCount <- v4, condCount <- v5,
    csOwner <- v6, csCount <- v7, cActive <- v8, cMutex <- v9, committed <- v10,
    pending <- v11, tids <- v12, pc <- v13, mtx <- v14, cnd <- v15, saved <- v16,
    kind <- v17, owed <- v18

ASSUME PairAssumption  == IsFiniteSet(Pair) /\ None \notin Pair
Host == INSTANCE HostedProofs WITH
    NumLocks <- 1, MaxReads <- 2, RacyTeardown <- FALSE,
    rwActive <- v1, writer <- v2, writerTid <- v3, srwExcl <- v4, srwShared <- v5,
    rwpc <- v6, rwlk <- v7, rwkind <- v8,
    NumRecs <- 3, MaxTid <- 4, EarlyIds <- FALSE,
    recs <- v1, nextTid <- v2, life <- v3, thrcall <- v4, known <- v5, once <- v6,
    Callers <- {"c1", "c2"}, NumSlots <- 2, MaxLives <- 3, Careful <- TRUE,
    table <- v1, lives <- v2, tpc <- v3, returned <- v4,
    TimerCallers <- {"c1"}, MaxStarts <- 3, Capacity <- 1, SlowHost <- FALSE,
    timer <- v1, started <- v2, signalled <- v3, host <- v4, tcall <- v5, equeue <- v6,
    NumGroups <- 1, NumThreads <- 2, Size <- 2, MaxRuns <- 2, MaxGroups <- 2,
    Statuses <- {-1}, Eager <- FALSE,
    groups <- v1, sthreads <- v2, runs <- v3, nextRun <- v4, nextGroup <- v5, scall <- v6,
    NumFlags <- 1, Bits <- {b1, b2}, MaxGen <- 2,
    active <- v1, pattern <- v2, fwaiters <- v3, cancelGen <- v4, fpc <- v5, flg <- v6,
    want <- v7, snap <- v8, counted <- v9,
    NumQueues <- 1, NumPorts <- 1, BufMax <- 2, Keys <- {}, Data <- {d1}, EagerReuse <- FALSE,
    qActive <- v1, key <- v2, ring <- v3, qwaiters <- v4, forced <- v5, pActive <- v6,
    conn <- v7, qpc <- v8, que <- v9, evt <- v10, qkind <- v11, got <- v12, qcancelled <- v13,
    LightThreads <- Pair, LwMutexes <- {x1}, LwConds <- {c1}, NumLwSlots <- 2, MaxDepth <- 2,
    MaxWipes <- 1, Churn <- FALSE,
    lwm <- v1, slots <- v2, nextSlot <- v3, lwc <- v4, lwcall <- v5, held <- v6

ASSUME QueueAssumption == Host!Queue!QueueSizes
ASSUME FlagAssumption  == Host!Flag!FlagSizes
ASSUME LockAssumption  == Host!Rw!RwSizes /\ Host!LwSizes

-----------------------------------------------------------------------------

ObjectsInit ==
    /\ Init
    /\ \/ kindUsed = "semaphore" /\ Off1
       \/ kindUsed = "cond" /\ Cond!Init
       \/ kindUsed = "queue" /\ Host!Queue!Init /\ Off14
       \/ kindUsed = "flag" /\ Host!Flag!Init /\ Off10
       \/ kindUsed = "rwlock" /\ Host!Rw!Init /\ Off9
       \/ kindUsed = "light" /\ Host!Light!Init /\ Off7
       \/ kindUsed = "ppu" /\ Host!Ppu!Init /\ Off7
       \/ kindUsed = "runtime" /\ Host!Lv2!Init /\ Off5
       \/ kindUsed = "timer" /\ Host!Timer!Init /\ Off7
       \/ kindUsed = "groups" /\ Host!Spu!Init /\ Off7

ObjectsNext ==
    \/ kindUsed = "semaphore" /\ Next /\ UNCHANGED From1
    \/ kindUsed = "cond" /\ Cond!Next
    \/ kindUsed = "queue" /\ Host!Queue!Next /\ UNCHANGED From14
    \/ kindUsed = "flag" /\ Host!Flag!Next /\ UNCHANGED From10
    \/ kindUsed = "rwlock" /\ Host!Rw!Next /\ UNCHANGED From9
    \/ kindUsed = "light" /\ Host!Light!Next /\ UNCHANGED From7
    \/ kindUsed = "ppu" /\ Host!Ppu!Next /\ UNCHANGED From7
    \/ kindUsed = "runtime" /\ Host!Lv2!Next /\ UNCHANGED From5
    \/ kindUsed = "timer" /\ Host!Timer!Next /\ UNCHANGED From7
    \/ kindUsed = "groups" /\ Host!Spu!Next /\ UNCHANGED From7

ThreadSymmetry == Permutations(Threads) \cup Permutations(Pair)

\* The variables of the kind in use have their types.
GuestTypes ==
    /\ kindUsed = "cond" => Cond!TypeOK
    /\ kindUsed = "queue" => Host!Queue!TypeOK
    /\ kindUsed = "flag" => Host!Flag!TypeOK
    /\ kindUsed = "rwlock" => Host!Rw!TypeOK
    /\ kindUsed = "light" => Host!Light!TypeOK
    /\ kindUsed = "ppu" => Host!Ppu!TypeOK
    /\ kindUsed = "runtime" => Host!Lv2!TypeOK
    /\ kindUsed = "timer" => Host!Timer!TypeOK
    /\ kindUsed = "groups" => Host!Spu!TypeOK

\* A recursive mutex and its condition: all levels are left and entered again, and no
\* signal is lost, also when the waiter held the mutex twice.
NestedWaits == kindUsed = "cond" => Cond!Bookkeeping /\ Cond!SignalsKept /\ Cond!TeardownSafe

\* Event queues: the ring, its waiters and its wakes, and what a destroy leaves.  Event
\* flags: no sleeper is missed, and a cancel reaches the waits it found.
EventsSound ==
    /\ kindUsed = "queue" => Host!Queue!QueueSound /\ Host!Queue!DestroySafe
    /\ kindUsed = "flag" => Host!Flag!NobodySleepsThrough /\ Host!Flag!CancelExact

\* A destroy without FORCE leaves no receiver asleep in the queue.
PlainDestroySpares == [][kindUsed = "queue" => Host!Queue!SparesSleepers]_every

\* An event queue is a bounded FIFO (the substitution of Lv2EventQueue, and an empty
\* one while another kind is in use).
Fifo == INSTANCE BoundedFifo WITH
    Ids <- Host!Queue!Queues, Users <- Threads, Items <- Host!Queue!Events \ {Host!Queue!Blank},
    Nothing <- Host!Queue!Blank, Bound <- 2,
    contents <- IF kindUsed = "queue" THEN [q \in Host!Queue!Queues |-> Host!Queue!Content(v3[q])]
                ELSE [q \in Host!Queue!Queues |-> <<>>],
    offer <- IF kindUsed = "queue" THEN v10 ELSE [t \in Threads |-> Host!Queue!Blank],
    taken <- IF kindUsed = "queue" THEN v12 ELSE <<>>
ImplementsFifo == Fifo!Spec

\* Reader-writer locks: the owner words and the lock agree.  Lightweight mutexes:
\* whoever was given one is alone in it.
LocksOwned ==
    /\ kindUsed = "rwlock" => Host!Rw!WriterKnown
    /\ kindUsed = "light" => Host!Light!LwExclusive

\* PPU threads and SPU groups: a join returns once, after the end, with the code of its
\* thread or the worst status of its group.  A timer that is stopped is quiet.
EndsExact ==
    /\ kindUsed = "ppu" => Host!Ppu!JoinsExact
    /\ kindUsed = "runtime" => Host!Lv2!ThreadsSound
    /\ kindUsed = "groups" => Host!Spu!JoinIsFinal /\ Host!Spu!WorstReported
    /\ kindUsed = "timer" => Host!Timer!StopIsQuiet

-----------------------------------------------------------------------------

ObjectsSpec ==
    /\ ObjectsInit
    /\ [][ /\ ObjectsNext
           /\ kindUsed # "semaphore" => UNCHANGED vars
           /\ UNCHANGED kindUsed ]_<<every, vars>>

=============================================================================
