----------------------------- MODULE SpursQueue -----------------------------
(***************************************************************************)
(* SPURS queues and lock-free queues between guest threads and SPU tasks   *)
(* (libs/spurs/spurs_queue.inc).  Guest threads push or pop under the      *)
(* mutex of the queue and, for the object itself, the lock-line lock; SPU  *)
(* tasks change the object with PUTLLC, each change one step.  A task that *)
(* finds nothing to do leaves a mark in the object and sleeps until it is  *)
(* signalled.  A guest thread that finds nothing to do asks again.         *)
(***************************************************************************)
EXTENDS Integers, Sequences

CONSTANTS
    Callers,     \* guest threads
    Tasks,       \* SPU tasks on the other side
    Depth,       \* elements of the queue
    MaxSent,     \* bound: elements that are ever pushed
    Kinds        \* "spurs" or "lf"

Period == 2 * Depth

VARIABLES
    kind, toSpu,    \* which queue, and whether guest threads push (direction 2) or pop (1)
    head, tail,     \* consumer and producer pointer; a task that sleeps in a queue has
                    \*   written the complement of its own
    elems,          \* the buffer
    mark,           \* tasks with a record in the object: one for a queue, a list for LFQueue
    latch,          \* tasks that are signalled
    qpc,            \* per actor: where it is
    wasEdge,        \* per guest thread: its push found the queue empty, or its pop full
    sent, got       \* history: pushed and popped elements

queueVars == <<kind, toSpu, head, tail, elems, mark, latch, qpc, wasEdge, sent, got>>
fixed     == <<kind, toSpu>>

\* A queue object of either direction; guest threads only push into a lock-free one.
Init ==
    /\ kind \in Kinds /\ toSpu \in (IF kind = "lf" THEN {TRUE} ELSE BOOLEAN)
    /\ head = 0 /\ tail = 0
    /\ elems = [i \in 0..Depth - 1 |-> 0]
    /\ mark = <<>> /\ latch = {}
    /\ qpc = [a \in Callers \cup Tasks |-> "idle"]
    /\ wasEdge = [c \in Callers |-> FALSE]
    /\ sent = <<>> /\ got = <<>>

\* mutant: a complement is taken for a pointer
AsIs(p)    == p % Period
Decoded(p) == IF p < 0 THEN (0 - 1) - p ELSE p

\* mutant: a pointer wraps at the depth, so that full looks like empty
WrapsEarly(p) == (Decoded(p) + 1) % Depth
\* mutant: a pointer never wraps
NeverWraps(p) == Decoded(p) + 1
Advance(p)    == (Decoded(p) + 1) % Period

Slot(p) == Decoded(p) % Depth
Count   == (Decoded(tail) + Period - Decoded(head)) % Period

\* What spurs_queue_snapshot and lf_queue_push refuse.
Corrupt == Count > Depth

MutexFree == \A c \in Callers : qpc[c] = "idle"

-----------------------------------------------------------------------------
(* what both sides do to the object *)

Push ==
    /\ Count < Depth /\ Len(sent) < MaxSent
    /\ elems' = [elems EXCEPT ![Slot(tail)] = Len(sent) + 1]
    /\ tail' = Advance(tail)
    /\ sent' = Append(sent, Len(sent) + 1)
    /\ UNCHANGED <<head, got>>

Pop ==
    /\ Count > 0
    /\ head' = Advance(head)
    /\ got' = Append(got, elems[Slot(head)])
    /\ UNCHANGED <<elems, tail, sent>>

-----------------------------------------------------------------------------
(* guest threads *)

\* spurs_queue_push, spurs_queue_pop and lf_queue_push up to the end of the line lock.
Moves(c) ==
    /\ qpc[c] = "idle" /\ MutexFree /\ ~Corrupt
    /\ IF toSpu THEN Push ELSE Pop
    /\ wasEdge' = [wasEdge EXCEPT ![c] = Count = IF toSpu THEN 0 ELSE Depth]
    /\ qpc' = [qpc EXCEPT ![c] = "moved"]
    /\ UNCHANGED <<fixed, mark, latch>>

\* mutant: a task that has not gone to sleep yet is passed over
SleepersOnly == SelectSeq(mark, LAMBDA t : qpc[t] = "asleep")

\* The task that is signalled: the one of the record when the queue was empty, or full;
\* the first one of the list, asleep or not.
Marked == mark

Signals(c) ==
    /\ qpc[c] = "moved"
    /\ latch' = IF Marked # <<>> /\ (kind = "lf" \/ wasEdge[c])
                THEN latch \cup {Marked[1]} ELSE latch
    /\ qpc' = [qpc EXCEPT ![c] = "idle"]
    /\ wasEdge' = [wasEdge EXCEPT ![c] = FALSE]
    /\ UNCHANGED <<fixed, head, tail, elems, mark, sent, got>>

-----------------------------------------------------------------------------
(* SPU tasks: the routines are the guest's *)

Complement(p) == (0 - 1) - Decoded(p)
Unmarked(t)   == SelectSeq(mark, LAMBDA u : u # t)

\* The task pops, or pushes, and takes its record away.
TaskMoves(t) ==
    /\ qpc[t] \in {"idle", "awake"}
    /\ IF toSpu THEN Pop ELSE Push
    /\ mark' = Unmarked(t)
    /\ qpc' = [qpc EXCEPT ![t] = "idle"]
    /\ UNCHANGED <<fixed, latch, wasEdge>>

\* It can not: it leaves its record, if there is room for one, and goes to sleep.
TaskParks(t) ==
    /\ qpc[t] \in {"idle", "awake"}
    /\ IF toSpu THEN Count = 0 ELSE Count = Depth
    /\ kind = "spurs" => mark \in {<<>>, <<t>>}
    /\ mark' = IF \E i \in DOMAIN mark : mark[i] = t THEN mark ELSE Append(mark, t)
    /\ head' = IF toSpu /\ kind = "spurs" THEN Complement(head) ELSE head
    /\ tail' = IF ~toSpu THEN Complement(tail) ELSE tail
    /\ qpc' = [qpc EXCEPT ![t] = "going"]
    /\ UNCHANGED <<fixed, elems, latch, wasEdge, sent, got>>

TaskSleeps(t) ==
    /\ qpc[t] = "going" /\ qpc' = [qpc EXCEPT ![t] = "asleep"]
    /\ UNCHANGED <<fixed, head, tail, elems, mark, latch, wasEdge, sent, got>>

TaskWakes(t) ==
    /\ qpc[t] = "asleep" /\ t \in latch
    /\ latch' = latch \ {t}
    /\ qpc' = [qpc EXCEPT ![t] = "awake"]
    /\ UNCHANGED <<fixed, head, tail, elems, mark, wasEdge, sent, got>>

-----------------------------------------------------------------------------

Next ==
    \/ \E c \in Callers : Moves(c) \/ Signals(c)
    \/ \E t \in Tasks : TaskMoves(t) \/ TaskParks(t) \/ TaskSleeps(t) \/ TaskWakes(t)

Spec == Init /\ [][Next]_queueVars

-----------------------------------------------------------------------------

TypeOK ==
    /\ head \in -Period..Period - 1 /\ tail \in -Period..Period - 1
    /\ elems \in [0..Depth - 1 -> 0..MaxSent]
    /\ latch \subseteq Tasks

\* Elements leave in the order in which they came, once, and none is overwritten.
InQueue == [i \in 1..Count |-> elems[(Decoded(head) + i - 1) % Depth]]

ElementsInOrder == ~Corrupt /\ sent = got \o InQueue

\* A task that sleeps although it could go on is signalled, or about to be; the task that
\* is first in the list is.
MayGoOn == IF toSpu THEN Count > 0 ELSE Count < Depth

SleepersTold ==
    MayGoOn /\ mark # <<>> /\ qpc[mark[1]] \in {"going", "asleep"} =>
        mark[1] \in latch \/ \E c \in Callers : qpc[c] = "moved"

QueueSound == ElementsInOrder /\ SleepersTold

=============================================================================
