----------------------------- MODULE MCProgress -----------------------------
(* What must come about, for TLC: units reach the sleepers of a semaphore, a destroyed
   queue gives its receivers back, a cancelled wait returns, a ticket is served, and a
   job chain that is shut down completes.                                    *)
EXTENDS MCHost, Integers, Sequences

CONSTANTS
    Threads, None,
    Pair,           \* the threads that receive events
    d1, b1, b2      \* data of an event, bits of a flag

\* A post of two units, for which one or two threads wait.
Semaphore == INSTANCE Lv2Semaphore WITH
    NumSlots <- 1, MaxArgs <- {2}, PostArgs <- {2}, IntMax <- 5, TokenMax <- 6,
    active <- v1, value <- v2, maxValue <- v3, references <- v4, waiters <- v5,
    tokens <- v6, pc <- v7, cur <- v8, timed <- v9, arg <- v10

Queue == INSTANCE Lv2EventQueue WITH
    Threads <- Pair, NumQueues <- 1, NumPorts <- 1, BufMax <- 1, Keys <- {}, Data <- {d1},
    EagerReuse <- FALSE,
    qActive <- v1, key <- v2, ring <- v3, waiters <- v4, forced <- v5, pActive <- v6,
    conn <- v7, pc <- v8, que <- v9, evt <- v10, kind <- v11, got <- v12, cancelled <- v13

Wait(bits, all, clear, timeout) ==
    [bits |-> bits, all |-> all, clear |-> clear, timeout |-> timeout]

Asks == { Wait({b1}, FALSE, "bits", "forever"),
          Wait({b1, b2}, TRUE, "all", "timed"),
          Wait({b1, b2}, FALSE, "no", "poll") }

Flag == INSTANCE Lv2EventFlag WITH
    Threads <- Pair, NumFlags <- 1, Bits <- {b1, b2}, MaxGen <- 2, RacyTeardown <- FALSE,
    active <- v1, pattern <- v2, waiters <- v3, cancelGen <- v4, pc <- v5, flg <- v6,
    want <- v7, snap <- v8, counted <- v9

Line == INSTANCE LockLine WITH
    PPUs <- Threads, SPUs <- {}, Width <- 3, MaxCount <- 0, Marked <- FALSE,
    line <- v1, lock <- v2, reserved <- v3, resv <- v4, gen <- v5, ls <- v6, lr <- v7,
    spc <- v8, raw <- v9, op <- v10, pc <- v11, counted <- v12, missed <- v13

Chain == INSTANCE JobChain WITH
    Callers <- {"c"}, Programs <- Programs, Original <- 1, MaxCalls <- 2,
    mem <- v1, run <- v2, cur <- v3, calls <- v4, scan <- v5, asleep <- v6, pool <- v7,
    wk <- v8, done <- v9, failed <- v10, guard <- v11, jpc <- v12

-----------------------------------------------------------------------------

Init ==
    \/ kindUsed = "semaphore" /\ Semaphore!Init /\ Off11
    \/ kindUsed = "queue" /\ Queue!Init /\ Off14
    \/ kindUsed = "flag" /\ Flag!Init /\ Off10
    \/ kindUsed = "line" /\ Line!Init /\ Off14
    \/ kindUsed = "chain" /\ Chain!Init /\ Off13

Next ==
    /\ \/ kindUsed = "semaphore" /\ Semaphore!Next /\ UNCHANGED From11
       \/ kindUsed = "queue" /\ Queue!Next /\ UNCHANGED From14
       \/ kindUsed = "flag" /\ Flag!Next /\ UNCHANGED From10
       \/ kindUsed = "line" /\ Line!Next /\ UNCHANGED From14
       \/ kindUsed = "chain" /\ Chain!Next /\ UNCHANGED From13
    /\ UNCHANGED kindUsed

\* With no SPU nobody else can disable the step a thread of the ticket mutex is at;
\* a holder leaves it.
TicketRuns(t) ==
    Line!PpuRuns(t) \/ Line!CasCommits(t) \/ Line!CasFails(t) \/ Line!Begin(t, "unlock")

ThreadRuns(t) ==
    /\ \/ kindUsed = "semaphore" /\ Semaphore!Step(t) /\ UNCHANGED From11
       \/ kindUsed = "queue" /\ t \in Pair /\ Queue!Step(t) /\ UNCHANGED From14
       \/ kindUsed = "flag" /\ t \in Pair /\ Flag!Step(t) /\ UNCHANGED From10
       \/ kindUsed = "line" /\ TicketRuns(t) /\ UNCHANGED From14
    /\ UNCHANGED kindUsed

ChainRuns(step) == kindUsed = "chain" /\ step /\ UNCHANGED <<kindUsed, From13>>

\* What the modules assume of the scheduler.
Spec ==
    /\ Init
    /\ [][Next]_every
    /\ \A t \in Threads : WF_every(ThreadRuns(t))
    /\ WF_every(ChainRuns(Chain!Scanner))
    /\ \A w \in Chain!Workers : WF_every(ChainRuns(Chain!Worker(w)))

-----------------------------------------------------------------------------

\* The liveness properties of the modules, each for its kind, which never changes.

\* What a thread must not wait for in vain: it receives from a queue that was destroyed,
\* its wait was cancelled, or it has taken a ticket.
Waits(t) ==
    \/ kindUsed = "queue" /\ t \in Pair
       /\ \E q \in Queue!Queues : t \in Queue!Parked(q) /\ ~v1[q]
    \/ kindUsed = "flag" /\ t \in v9
    \/ kindUsed = "line" /\ v11[t] = "spin"

Served(t) ==
    \/ kindUsed = "queue" /\ (t \in Pair => v8[t] = "idle")
    \/ kindUsed = "flag" /\ (t \in Pair => v5[t] = "idle")
    \/ kindUsed = "line" /\ v11[t] = "critical"

\* A receiver of a destroyed queue returns, and so does a cancelled wait; a thread that
\* took a ticket gets the mutex.
WaitsEnd == \A t \in Threads : Waits(t) ~> Served(t)

Parked(s) == Semaphore!At({"parked"}, s)

Backlog ==
    \/ kindUsed = "semaphore" /\ v2[1] > 0 /\ Parked(1) # {}
    \/ kindUsed = "chain" /\ v2.running /\ v2.shutdown

Drained ==
    \/ kindUsed = "semaphore" /\ (v2[1] = 0 \/ Parked(1) = {})
    \/ kindUsed = "chain" /\ ~v2.running

\* Units that stay available reach the sleepers of a semaphore: it empties, or no untimed
\* sleeper is left.  A chain that is shut down completes.
WorkDrains == Backlog ~> Drained

=============================================================================
