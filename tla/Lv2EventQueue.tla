---------------------------- MODULE Lv2EventQueue ----------------------------
(***************************************************************************)
(* lv2 event queues and event ports, runtime/syscalls/sys_event.c, Win32   *)
(* branches.  A queue is a ring under a lock of its own; queue and port    *)
(* tables are under one table lock, so creates, destroys and connections   *)
(* exclude one another.  receive, tryreceive, drain, port_send and         *)
(* push_by_id test the queue without a lock and take its lock afterwards;  *)
(* create wipes a free slot without taking the slot's lock.                *)
(*                                                                         *)
(* With EagerReuse = FALSE a slot is created anew only when no call is     *)
(* left on its previous queue; with TRUE it may be created at any time.    *)
(***************************************************************************)
EXTENDS Integers, FiniteSets, Sequences

CONSTANTS
    Threads,        \* guest threads, and host threads that push by id
    NumQueues,      \* SYS_EVENT_QUEUE_MAX
    NumPorts,       \* SYS_EVENT_PORT_MAX
    BufMax,         \* SYS_EVENT_QUEUE_BUF_MAX
    Keys,           \* ipc keys other than 0
    Data,           \* what the words of an event tell apart
    EagerReuse      \* create may take a slot that calls are still unwinding from

\* The sizes of the tables, and event words other than those of a blank event.
QueueSizes ==
    /\ NumQueues \in Nat \ {0} /\ NumPorts \in Nat /\ BufMax \in Nat \ {0}
    /\ IsFiniteSet(Threads) /\ 0 \notin Data

Queues == 1..NumQueues
Ports  == 1..NumPorts
Blank  == [source |-> 0, data |-> 0]                           \* memset
Events == [source : Ports \cup {0}, data : Data] \cup {Blank}

VARIABLES
    qActive, key, ring, waiters, forced,    \* sys_event_queue_info
    pActive, conn,                          \* sys_event_port_info
    pc, que, evt, kind,                     \* the call of a thread
    got,          \* the events the last receiving call returned
    cancelled     \* history: receivers that a forced destroy found waiting, until
                  \* they return ECANCELED

queueVars == <<qActive, key, ring, waiters, forced>>
portVars  == <<pActive, conn>>
callVars  == <<pc, que, evt, kind, got, cancelled>>
vars      == <<qActive, key, ring, waiters, forced, pActive, conn,
               pc, que, evt, kind, got, cancelled>>

Kinds   == {"forever", "timed", "poll"}     \* of a receive, by its timeout
PcValues == {"idle", "enter", "asleep", "awake", "poll", "late", "try", "drain", "push"}

EmptyRing(size) == [cap |-> size, head |-> 0, tail |-> 0, count |-> 0,
                    buf |-> [i \in 0 .. BufMax - 1 |-> Blank]]

Init ==
    /\ qActive = [q \in Queues |-> FALSE]
    /\ key = [q \in Queues |-> 0]
    /\ ring = [q \in Queues |-> EmptyRing(1)]
    /\ waiters = [q \in Queues |-> 0]
    /\ forced = [q \in Queues |-> FALSE]
    /\ pActive = [p \in Ports |-> FALSE]
    /\ conn = [p \in Ports |-> 0]
    /\ pc = [t \in Threads |-> "idle"]
    /\ que = [t \in Threads |-> 1]
    /\ evt = [t \in Threads |-> Blank]
    /\ kind = [t \in Threads |-> "forever"]
    /\ got = <<>>
    /\ cancelled = {}

-----------------------------------------------------------------------------
(* The ring *)

\* mutants: the tail runs over the whole array; a full ring is written over
PushPastCap(r, e) ==
    [r EXCEPT !.buf[r.tail] = e, !.tail = (@ + 1) % BufMax, !.count = @ + 1]
NeverFull(r) == FALSE

Full(r) == r.count >= r.cap
Pushed(r, e) ==
    [r EXCEPT !.buf[r.tail] = e, !.tail = (@ + 1) % r.cap, !.count = @ + 1]
Popped(r, n) == [r EXCEPT !.head = (@ + n) % r.cap, !.count = @ - n]
Drained(r)   == [r EXCEPT !.head = 0, !.tail = 0, !.count = 0]

\* The events the ring holds, oldest first.
Content(r) == [i \in 1 .. r.count |-> r.buf[(r.head + i - 1) % r.cap]]

-----------------------------------------------------------------------------
(* The calls of a thread *)

\* A call on queue q that passed the unlocked active test.
Begin(t, q, next) ==
    /\ pc[t] = "idle"
    /\ qActive[q]
    /\ pc' = [pc EXCEPT ![t] = next]
    /\ que' = [que EXCEPT ![t] = q]
    /\ UNCHANGED <<got, cancelled>>

\* The call returns, and its locals are gone; next tells where others go on.
Return(t, next) ==
    /\ pc' = [next EXCEPT ![t] = "idle"]
    /\ que' = [que EXCEPT ![t] = 1]
    /\ evt' = [evt EXCEPT ![t] = Blank]
    /\ kind' = [kind EXCEPT ![t] = "forever"]

Goto(t, next) ==
    /\ pc' = [pc EXCEPT ![t] = next]
    /\ UNCHANGED <<que, evt, kind, got, cancelled>>

Asleep(q)  == {t \in Threads : pc[t] = "asleep" /\ que[t] = q}
Awake(q)   == {t \in Threads : pc[t] = "awake" /\ que[t] = q}
Polling(q) == {t \in Threads : pc[t] = "poll" /\ que[t] = q}
Parked(q)  == Asleep(q) \cup Awake(q) \cup Polling(q)
\* the receives that waiters counts
Counted(q) == {t \in Threads : pc[t] \in {"asleep", "awake", "poll", "late"} /\ que[t] = q}
Unwinding(q) == {t \in Threads : pc[t] # "idle" /\ que[t] = q}

-----------------------------------------------------------------------------
(* Tables *)

KeyFree(k) == k = 0 \/ \A q \in Queues : qActive[q] => key[q] # k      \* else EEXIST

QueueCreate(t, q, k, size) ==
    /\ pc[t] = "idle"
    /\ KeyFree(k)
    /\ ~qActive[q] /\ \A i \in Queues : i < q => qActive[i]
    /\ EagerReuse \/ Unwinding(q) = {}
    /\ qActive' = [qActive EXCEPT ![q] = TRUE]
    /\ key' = [key EXCEPT ![q] = k]
    /\ ring' = [ring EXCEPT ![q] = EmptyRing(size)]
    /\ waiters' = [waiters EXCEPT ![q] = 0]
    /\ forced' = [forced EXCEPT ![q] = FALSE]
    /\ UNCHANGED <<portVars, callVars>>

\* mutants: destroy without the EBUSY test; without the wake; without the sweep
DestroyUnchecked(q)  == TRUE
StayAsleep(t, q)     == FALSE
KeepConnected(p, q)  == FALSE

NoWaiters(q)         == waiters[q] <= 0                   \* else EBUSY
WokenByDestroy(t, q) == t \in Asleep(q)
SweptWith(p, q)      == pActive[p] /\ conn[p] = q

QueueDestroy(t, q, force) ==
    /\ pc[t] = "idle"
    /\ qActive[q]
    /\ force \/ NoWaiters(q)
    /\ qActive' = [qActive EXCEPT ![q] = FALSE]
    /\ forced' = [forced EXCEPT ![q] = force \/ @]
    /\ pc' = [s \in Threads |-> IF WokenByDestroy(s, q) THEN "awake" ELSE pc[s]]
    /\ conn' = [p \in Ports |-> IF SweptWith(p, q) THEN 0 ELSE conn[p]]
    /\ cancelled' = IF force THEN cancelled \cup Parked(q) ELSE cancelled
    /\ UNCHANGED <<key, ring, waiters, pActive, que, evt, kind, got>>

PortCreate(t, p) ==
    /\ pc[t] = "idle"
    /\ ~pActive[p] /\ \A i \in Ports : i < p => pActive[i]
    /\ pActive' = [pActive EXCEPT ![p] = TRUE]
    /\ conn' = [conn EXCEPT ![p] = 0]
    /\ UNCHANGED <<queueVars, callVars>>

PortDestroy(t, p) ==
    /\ pc[t] = "idle"
    /\ pActive[p]
    /\ pActive' = [pActive EXCEPT ![p] = FALSE]
    /\ UNCHANGED <<conn, queueVars, callVars>>

PortConnect(t, p, q) ==
    /\ pc[t] = "idle"
    /\ pActive[p] /\ qActive[q]
    /\ conn[p] = 0                                          \* else EISCONN
    /\ conn' = [conn EXCEPT ![p] = q]
    /\ UNCHANGED <<pActive, queueVars, callVars>>

PortDisconnect(t, p) ==
    /\ pc[t] = "idle"
    /\ pActive[p] /\ conn[p] # 0                            \* else ENOTCONN
    /\ conn' = [conn EXCEPT ![p] = 0]
    /\ UNCHANGED <<pActive, queueVars, callVars>>

-----------------------------------------------------------------------------
(* Sending *)

PortSend(t, p, d) ==
    /\ pActive[p] /\ conn[p] # 0
    /\ Begin(t, conn[p], "push")
    /\ evt' = [evt EXCEPT ![t] = [source |-> p, data |-> d]]
    /\ UNCHANGED <<kind, queueVars, portVars>>

\* A host thread pushes by id, or to the queue it found by its key.
PushById(t, q, d) ==
    /\ Begin(t, q, "push")
    /\ evt' = [evt EXCEPT ![t] = [source |-> 0, data |-> d]]
    /\ UNCHANGED <<kind, queueVars, portVars>>

\* mutant: the push wakes nobody
WakesNobody(t, q) == {}

\* WakeConditionVariable: one of the sleepers, if there is one.
WokenBy(t, q) == Asleep(q)

\* event_queue_push; it does not look at active.
Push(t) ==
    LET q == que[t] IN
    /\ pc[t] = "push"
    /\ ~Full(ring[q])
    /\ ring' = [ring EXCEPT ![q] = Pushed(@, evt[t])]
    /\ \/ WokenBy(t, q) = {} /\ Return(t, pc)
       \/ \E w \in WokenBy(t, q) : Return(t, [pc EXCEPT ![w] = "awake"])
    /\ UNCHANGED <<qActive, key, waiters, forced, portVars, got, cancelled>>

PushFull(t) ==
    /\ pc[t] = "push"
    /\ Full(ring[que[t]])
    /\ Return(t, pc)                                       \* EBUSY
    /\ UNCHANGED <<queueVars, portVars, got, cancelled>>

-----------------------------------------------------------------------------
(* Receiving *)

ReceiveCall(t, q, k) ==
    /\ Begin(t, q, "enter")
    /\ kind' = [kind EXCEPT ![t] = k]
    /\ UNCHANGED <<evt, queueVars, portVars>>

\* The loop condition of receive, under the lock.
MustWait(q) == ring[q].count = 0 /\ qActive[q]

\* Entering, the receive is counted; it waits if it must.
ReceiveEnter(t) ==
    LET q == que[t] IN
    /\ pc[t] = "enter"
    /\ MustWait(q)
    /\ waiters' = [waiters EXCEPT ![q] = @ + 1]
    /\ Goto(t, IF kind[t] = "poll" THEN "poll" ELSE "asleep")
    /\ UNCHANGED <<qActive, key, ring, forced, portVars>>

\* The count it leaves waiters with; a receive that never slept came and went.
WaitersAfter(t) == IF pc[t] = "enter" THEN waiters[que[t]] ELSE waiters[que[t]] - 1

\* The lock is held again, or for the first time, and nothing is to wait for.
CanEnd(t) == pc[t] \in {"enter", "awake", "poll"} /\ ~MustWait(que[t])

Refusal(q) == IF forced[q] THEN "ECANCELED" ELSE "ESRCH"

ReceiveEnd(t) ==
    LET q == que[t] IN
    /\ CanEnd(t)
    /\ waiters' = [waiters EXCEPT ![q] = WaitersAfter(t)]
    /\ IF qActive[q]
       THEN /\ ring' = [ring EXCEPT ![q] = Popped(@, 1)]
            /\ got' = <<ring[q].buf[ring[q].head]>>
            /\ UNCHANGED cancelled
       ELSE /\ cancelled' = IF Refusal(q) = "ECANCELED" THEN cancelled \ {t} ELSE cancelled
            /\ UNCHANGED <<ring, got>>
    /\ Return(t, pc)
    /\ UNCHANGED <<qActive, key, forced, portVars>>

\* Woken, but another receiver was faster, or the wake was spurious.
ReceiveResleep(t) ==
    /\ pc[t] = "awake"
    /\ MustWait(que[t])
    /\ Goto(t, "asleep")
    /\ UNCHANGED <<queueVars, portVars>>

\* SleepConditionVariableCS returns with no wake.
SpuriousWake(t) ==
    /\ pc[t] = "asleep"
    /\ Goto(t, "awake")
    /\ UNCHANGED <<queueVars, portVars>>

\* It times out: the thread has left the condition variable, and waits for the
\* lock; once it has it, it leaves whatever the queue holds.
ReceiveTimesOut(t) ==
    /\ pc[t] = "asleep" /\ kind[t] = "timed"
    /\ Goto(t, "late")
    /\ UNCHANGED <<queueVars, portVars>>

ReceiveLate(t) ==
    /\ \/ pc[t] = "late"
       \/ pc[t] = "poll" /\ MustWait(que[t])                \* the deadline passed
    /\ waiters' = [waiters EXCEPT ![que[t]] = WaitersAfter(t)]
    /\ Return(t, pc)
    /\ UNCHANGED <<qActive, key, ring, forced, portVars, got, cancelled>>

TryCall(t, q)   == Begin(t, q, "try") /\ UNCHANGED <<evt, kind, queueVars, portVars>>
DrainCall(t, q) == Begin(t, q, "drain") /\ UNCHANGED <<evt, kind, queueVars, portVars>>

\* tryreceive takes up to max_count events; it does not look at active again.
TryReceive(t, n) ==
    LET r == ring[que[t]]
        k == IF n < r.count THEN n ELSE r.count IN
    /\ pc[t] = "try"
    /\ ring' = [ring EXCEPT ![que[t]] = Popped(@, k)]
    /\ got' = SubSeq(Content(r), 1, k)
    /\ Return(t, pc)
    /\ UNCHANGED <<qActive, key, waiters, forced, portVars, cancelled>>

Drain(t) ==
    /\ pc[t] = "drain"
    /\ ring' = [ring EXCEPT ![que[t]] = Drained(@)]
    /\ Return(t, pc)
    /\ UNCHANGED <<qActive, key, waiters, forced, portVars, got, cancelled>>

-----------------------------------------------------------------------------

\* What the guest, or a host thread, may call next.
Call(t) ==
    \/ \E q \in Queues : \/ \E k \in Keys \cup {0}, n \in 1 .. BufMax : QueueCreate(t, q, k, n)
                         \/ \E force \in BOOLEAN : QueueDestroy(t, q, force)
                         \/ \E d \in Data : PushById(t, q, d)
                         \/ \E k \in Kinds : ReceiveCall(t, q, k)
                         \/ TryCall(t, q)
                         \/ DrainCall(t, q)
    \/ \E p \in Ports : \/ PortCreate(t, p)
                        \/ PortDestroy(t, p)
                        \/ PortDisconnect(t, p)
                        \/ \E q \in Queues : PortConnect(t, p, q)
                        \/ \E d \in Data : PortSend(t, p, d)

\* The next step of a call that is under way.
Step(t) ==
    \/ Push(t) \/ PushFull(t)
    \/ ReceiveEnter(t) \/ ReceiveEnd(t) \/ ReceiveResleep(t) \/ ReceiveLate(t)
    \/ \E n \in 0 .. BufMax : TryReceive(t, n)
    \/ Drain(t)

Next == \E t \in Threads :
          Call(t) \/ Step(t) \/ ReceiveTimesOut(t) \/ SpuriousWake(t)

Spec == Init /\ [][Next]_vars

\* A call that is under way and not asleep goes on: host threads are scheduled.
FairSpec == Spec /\ \A t \in Threads : WF_vars(Step(t))
-----------------------------------------------------------------------------
(* Properties *)

\* Each queue is a bounded FIFO: the event a push was given is appended, and
\* what a receive brings is the oldest of its queue (the ring arithmetic of push,
\* receive, tryreceive and drain, and when the ring refuses).
Fifo == INSTANCE BoundedFifo WITH
            Ids <- Queues, Users <- Threads, Items <- Events \ {Blank},
            Nothing <- Blank, Bound <- BufMax,
            contents <- [q \in Queues |-> Content(ring[q])], offer <- evt, taken <- got
ImplementsFifo == Fifo!Spec

RingType ==
    [cap : 1 .. BufMax, head : 0 .. BufMax - 1, tail : 0 .. BufMax - 1,
     count : 0 .. BufMax, buf : [0 .. BufMax - 1 -> Events]]

\* Every variable keeps its type.
TypeOK ==
    /\ qActive \in [Queues -> BOOLEAN]
    /\ key \in [Queues -> Keys \cup {0}]
    /\ ring \in [Queues -> RingType]
    /\ waiters \in [Queues -> Int]
    /\ forced \in [Queues -> BOOLEAN]
    /\ pActive \in [Ports -> BOOLEAN]
    /\ conn \in [Ports -> Queues \cup {0}]
    /\ pc \in [Threads -> PcValues]
    /\ que \in [Threads -> Queues]
    /\ evt \in [Threads -> Events]
    /\ kind \in [Threads -> Kinds]
    /\ got \in Seq(Events)
    /\ cancelled \subseteq Threads

\* head, tail and count of a ring agree: the events lie between head and tail,
\* and no push has written over one (the ring arithmetic of push, receive,
\* tryreceive and drain).
RingSound ==
    \A q \in Queues : LET r == ring[q] IN
        /\ r.head < r.cap /\ r.tail < r.cap /\ r.count <= r.cap
        /\ r.tail = (r.head + r.count) % r.cap

\* The counter that decides destroy's EBUSY is exact (waiters++ and waiters--
\* on every way out of receive).
WaitersExact == \A q \in Queues : waiters[q] = Cardinality(Counted(q))

\* No event is stuck beside a sleeper: as long as a receiver sleeps, every
\* event in the ring has a receiver that is awake to take it (one
\* WakeConditionVariable per push is enough).
NoLostWakeup ==
    \A q \in Queues : Asleep(q) # {} => ring[q].count <= Cardinality(Awake(q))

(* Every event is where a receiver finds it: the ring agrees with its indices,
   the waiters that decide destroy's EBUSY are counted exactly, and no event
   lies beside a sleeper that nobody will wake.                              *)
QueueSound == RingSound /\ WaitersExact /\ NoLostWakeup

\* Nobody sleeps on a destroyed queue (destroy's wake under the queue's lock).
NobodyAsleepOnDead == \A q \in Queues : ~qActive[q] => Asleep(q) = {}

\* A port never points at a destroyed queue (the sweep of destroy).
PortsPointAtLive == \A p \in Ports : pActive[p] /\ conn[p] # 0 => qActive[conn[p]]

\* A receiver that a forced destroy finds waiting ends with ECANCELED: it does
\* not sleep again and does not return with an event or another code
\* (force_destroyed).
ForceCancels == \A t \in cancelled : pc[t] \in {"awake", "poll"}

(* After a destroy, forced or not, and whatever sends, receives and timeouts
   raced with it: nobody sleeps on the queue, no port leads to it, and who was
   cancelled comes back with ECANCELED.                                      *)
DestroySafe == NobodyAsleepOnDead /\ PortsPointAtLive /\ ForceCancels

\* Without FORCE a queue with sleeping receivers is not torn down (destroy's EBUSY).
SparesSleepers == \A q \in Queues : qActive[q] /\ ~qActive'[q] /\ Asleep(q) # {} => forced'[q]
PlainDestroySpares == [][SparesSleepers]_vars

\* A receiver of a destroyed queue returns.
TeardownWakes ==
    \A t \in Threads, q \in Queues : (t \in Parked(q) /\ ~qActive[q]) ~> pc[t] = "idle"

=============================================================================
