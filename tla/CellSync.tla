------------------------------ MODULE CellSync ------------------------------
(***************************************************************************)
(* libs/sync/cellSync.c: the barrier, the reader-writer memory and the     *)
(* bounded queue, all on words of guest memory without any host lock.  A   *)
(* call is cut at its atomic operations; a spin loop is a step that waits  *)
(* for the loop's condition to end.                                        *)
(***************************************************************************)
EXTENDS Integers, FiniteSets, Sequences

CONSTANT Threads     \* guest PPU threads

ASSUME ThreadsAssumption == IsFiniteSet(Threads)

VARIABLES
    pc,      \* per thread: the next step of its call, or "idle"
    try      \* per thread: its call is a Try form, which returns BUSY where the other spins

Calls(t, step, isTry) ==
    /\ pc[t] = "idle"
    /\ pc' = [pc EXCEPT ![t] = step]
    /\ try' = [try EXCEPT ![t] = isTry]

Goes(t, from, to) ==
    /\ pc[t] = from
    /\ pc' = [pc EXCEPT ![t] = to]
    /\ UNCHANGED try

Returns(t, from) ==
    /\ pc[t] = from
    /\ pc' = [pc EXCEPT ![t] = "idle"]
    /\ try' = [try EXCEPT ![t] = FALSE]

At(steps) == {t \in Threads : pc[t] \in steps}

-----------------------------------------------------------------------------
(* The barrier.  The guest uses it as the call names ask: every participant
   notifies, waits (by Wait, or by polling TryWait), and notifies again only
   when its wait has returned.                                               *)

CONSTANT MaxRounds    \* bound: rounds the guest enters

ASSUME RoundsAssumption == MaxRounds \in Nat

VARIABLES
    arrived,     \* arrived
    phase,       \* phase
    sampled,     \* per thread: the phase its Wait has read
    polls,       \* per thread: it waits by TryWait
    notified,    \* history: notifies of each thread
    passed,      \* history: waits of each thread that have returned
    opened       \* history: how often arrived was reset

barrierVars == <<arrived, phase, sampled, polls, notified, passed, opened, pc, try>>
history     == <<notified, passed, opened>>

total == Cardinality(Threads)

BarrierInit ==
    /\ arrived = 0
    /\ phase = 0
    /\ sampled = [t \in Threads |-> 0]
    /\ polls \in [Threads -> BOOLEAN]
    /\ notified = [t \in Threads |-> 0]
    /\ passed = [t \in Threads |-> 0]
    /\ opened = 0

-----------------------------------------------------------------------------
(* cellSyncBarrierNotify, which TryNotify calls *)

\* mutant: the last but one opens the barrier
LastEarly(n) == n + 2 >= total

IsLast(n) == n + 1 >= total

\* fetch_add of arrived
Notify(t) ==
    /\ notified[t] = passed[t] /\ notified[t] < MaxRounds
    /\ arrived' = arrived + 1
    /\ notified' = [notified EXCEPT ![t] = @ + 1]
    /\ \/ IsLast(arrived)  /\ Calls(t, "bReset", FALSE)
       \/ ~IsLast(arrived) /\ pc[t] = "idle" /\ UNCHANGED <<pc, try>>
    /\ UNCHANGED <<phase, sampled, polls, passed, opened>>

NotifyReset(t) ==
    /\ Goes(t, "bReset", "bPhase")
    /\ arrived' = 0
    /\ opened' = opened + 1
    /\ UNCHANGED <<phase, sampled, polls, notified, passed>>

NotifyPhase(t) ==
    /\ Returns(t, "bPhase")
    /\ phase' = phase + 1
    /\ UNCHANGED <<arrived, sampled, polls, history>>

-----------------------------------------------------------------------------
(* cellSyncBarrierWait, cellSyncBarrierTryWait *)

HasPassed(t) == passed' = [passed EXCEPT ![t] = @ + 1] /\ UNCHANGED <<notified, opened>>

\* The phase is read on entry.
Wait(t) ==
    /\ ~polls[t] /\ passed[t] < notified[t]
    /\ Calls(t, "bWait", FALSE)
    /\ sampled' = [sampled EXCEPT ![t] = phase]
    /\ UNCHANGED <<arrived, phase, polls, history>>

WaitOver(t) ==
    /\ phase # sampled[t]
    /\ Returns(t, "bWait")
    /\ HasPassed(t)
    /\ UNCHANGED <<arrived, phase, sampled, polls>>

\* TryWait returned OK; BUSY changes nothing.
TryWait(t) ==
    /\ polls[t] /\ passed[t] < notified[t]
    /\ pc[t] = "idle"
    /\ arrived = 0
    /\ HasPassed(t)
    /\ UNCHANGED <<arrived, phase, sampled, polls, pc, try>>

-----------------------------------------------------------------------------

BarrierStep(t) == NotifyReset(t) \/ NotifyPhase(t) \/ WaitOver(t)

\* The guest's side of the protocol: it goes on to notify, and then to wait.
BarrierGuest(t) == Notify(t) \/ Wait(t) \/ TryWait(t)

BarrierNext == \E t \in Threads : BarrierGuest(t) \/ BarrierStep(t)

BarrierSpec ==
    /\ BarrierInit
    /\ pc = [t \in Threads |-> "idle"]
    /\ try = [t \in Threads |-> FALSE]
    /\ [][BarrierNext]_barrierVars

-----------------------------------------------------------------------------

BarrierTypeOK ==
    /\ arrived \in 0 .. total
    /\ phase \in 0 .. MaxRounds
    /\ sampled \in [Threads -> 0 .. MaxRounds]
    /\ polls \in [Threads -> BOOLEAN]
    /\ notified \in [Threads -> 0 .. MaxRounds]
    /\ passed \in [Threads -> 0 .. MaxRounds]
    /\ opened \in 0 .. MaxRounds
    /\ pc \in [Threads -> {"idle", "bReset", "bPhase", "bWait"}]
    /\ try \in [Threads -> BOOLEAN]

\* Every notify is in arrived or in a round that was opened: none is erased by a
\* reset, and none is counted twice.
NoNotifyErased ==
    /\ \A t \in Threads : notified[t] \in {opened, opened + 1}
    /\ arrived = Cardinality({t \in Threads : notified[t] = opened + 1})

\* Nobody leaves round n before everybody has notified in round n.
NoEarlyRelease == \A t, u \in Threads : passed[t] <= notified[u]

(* Rounds do not mix, although the reset, the next phase and the sample of a
   wait are separate steps of different threads.                            *)
RoundsDontMix == NoNotifyErased /\ NoEarlyRelease

(* The comment in cellSyncBarrierWait: "Wait until the phase changes (all have
   arrived)".  A wait whose round is complete returns.                       *)
BarrierReleases ==
    \A t \in Threads :
        (pc[t] = "bWait" /\ \A u \in Threads : notified[u] >= notified[t]) ~> pc[t] # "bWait"

-----------------------------------------------------------------------------
(* Reader-writer memory.  A reader announces itself in `readers' and looks at
   `writer' again, a writer takes `writer' and waits for `readers' to empty.
   The buffer is two words, copied one at a time, so that a torn copy can be
   seen.                                                                     *)

CONSTANT Values      \* what writers write

VARIABLES
    readers,     \* readers: announced readers
    writer,      \* writer: 0 or 1
    buffer,      \* the two words of the shared buffer
    dst          \* per thread: the words it has read so far, or is about to write

rwmVars == <<readers, writer, buffer, dst, pc, try>>

ReadSteps  == {"rSpin", "rCount", "rCheck", "rBack", "rCopy1", "rCopy2", "rLeave"}
WriteSteps == {"wTake", "wDrain", "wCopy1", "wCopy2", "wRelease"}
Counted    == {"rCheck", "rBack", "rCopy1", "rCopy2", "rLeave"}
Copying    == {"rCopy1", "rCopy2", "rLeave"}     \* past the second look at writer
Holding    == {"wDrain", "wCopy1", "wCopy2", "wRelease"}
Writing    == {"wCopy1", "wCopy2", "wRelease"}

RwmInit ==
    /\ readers = 0
    /\ writer = 0
    /\ \E v \in Values : buffer = <<v, v>>
    /\ dst = [t \in Threads |-> <<>>]

\* the locals of a call that has returned
Forget(t) == dst' = [dst EXCEPT ![t] = <<>>]

-----------------------------------------------------------------------------
(* cellSyncRwmRead, cellSyncRwmTryRead *)

ReadCall(t, isTry) == Calls(t, "rSpin", isTry) /\ UNCHANGED <<readers, writer, buffer, dst>>

ReadBusy(t) ==
    /\ try[t] /\ writer = 1
    /\ Returns(t, "rSpin")
    /\ UNCHANGED <<readers, writer, buffer, dst>>

ReadSpin(t) ==
    /\ writer = 0
    /\ Goes(t, "rSpin", "rCount")
    /\ UNCHANGED <<readers, writer, buffer, dst>>

ReadCount(t) ==
    /\ Goes(t, "rCount", "rCheck")
    /\ readers' = readers + 1
    /\ UNCHANGED <<writer, buffer, dst>>

\* mutant: no second look at writer
CopiesUnchecked == TRUE

\* the double check that no writer started
MayCopy == writer = 0

ReadCheck(t) ==
    /\ \/ MayCopy  /\ Goes(t, "rCheck", "rCopy1")
       \/ ~MayCopy /\ Goes(t, "rCheck", "rBack")
    /\ UNCHANGED <<readers, writer, buffer, dst>>

\* mutant: the reader waits for the writer without withdrawing
ReadStays(t) ==
    /\ writer = 0
    /\ Goes(t, "rBack", "rCheck")
    /\ UNCHANGED <<readers, writer, buffer, dst>>

\* Withdraw; Read then spins and tries again, TryRead gives up.
ReadBack(t) ==
    /\ \/ ~try[t] /\ Goes(t, "rBack", "rSpin")
       \/ try[t]  /\ Returns(t, "rBack")
    /\ readers' = readers - 1
    /\ UNCHANGED <<writer, buffer, dst>>

ReadCopy1(t) ==
    /\ Goes(t, "rCopy1", "rCopy2")
    /\ dst' = [dst EXCEPT ![t] = <<buffer[1]>>]
    /\ UNCHANGED <<readers, writer, buffer>>

ReadCopy2(t) ==
    /\ Goes(t, "rCopy2", "rLeave")
    /\ dst' = [dst EXCEPT ![t] = <<@[1], buffer[2]>>]
    /\ UNCHANGED <<readers, writer, buffer>>

ReadLeave(t) ==
    /\ Returns(t, "rLeave")
    /\ readers' = readers - 1
    /\ Forget(t)
    /\ UNCHANGED <<writer, buffer>>

-----------------------------------------------------------------------------
(* cellSyncRwmWrite, cellSyncRwmTryWrite *)

WriteCall(t, v, isTry) ==
    /\ Calls(t, "wTake", isTry)
    /\ dst' = [dst EXCEPT ![t] = <<v, v>>]
    /\ UNCHANGED <<readers, writer, buffer>>

WriteBusy(t) ==
    /\ try[t] /\ writer = 1
    /\ Returns(t, "wTake")
    /\ Forget(t)
    /\ UNCHANGED <<readers, writer, buffer>>

\* the compare-and-swap of writer from 0 to 1
WriteTake(t) ==
    /\ writer = 0
    /\ Goes(t, "wTake", "wDrain")
    /\ writer' = 1
    /\ UNCHANGED <<readers, buffer, dst>>

Drained == readers = 0

WriteDrain(t) ==
    /\ Drained
    /\ Goes(t, "wDrain", "wCopy1")
    /\ UNCHANGED <<readers, writer, buffer, dst>>

WriteGiveUp(t) ==
    /\ try[t] /\ ~Drained
    /\ Returns(t, "wDrain")
    /\ writer' = 0
    /\ Forget(t)
    /\ UNCHANGED <<readers, buffer>>

WriteCopy1(t) ==
    /\ Goes(t, "wCopy1", "wCopy2")
    /\ buffer' = [buffer EXCEPT ![1] = dst[t][1]]
    /\ UNCHANGED <<readers, writer, dst>>

WriteCopy2(t) ==
    /\ Goes(t, "wCopy2", "wRelease")
    /\ buffer' = [buffer EXCEPT ![2] = dst[t][2]]
    /\ UNCHANGED <<readers, writer, dst>>

WriteRelease(t) ==
    /\ Returns(t, "wRelease")
    /\ writer' = 0
    /\ Forget(t)
    /\ UNCHANGED <<readers, buffer>>

-----------------------------------------------------------------------------

RwmCall(t) ==
    \E isTry \in BOOLEAN :
        \/ ReadCall(t, isTry)
        \/ \E v \in Values : WriteCall(t, v, isTry)

RwmStep(t) ==
    \/ ReadBusy(t) \/ ReadSpin(t) \/ ReadCount(t) \/ ReadCheck(t) \/ ReadBack(t)
    \/ ReadCopy1(t) \/ ReadCopy2(t) \/ ReadLeave(t)
    \/ WriteBusy(t) \/ WriteTake(t) \/ WriteDrain(t) \/ WriteGiveUp(t)
    \/ WriteCopy1(t) \/ WriteCopy2(t) \/ WriteRelease(t)

RwmNext == \E t \in Threads : RwmCall(t) \/ RwmStep(t)

RwmSpec ==
    /\ RwmInit
    /\ pc = [t \in Threads |-> "idle"]
    /\ try = [t \in Threads |-> FALSE]
    /\ [][RwmNext]_rwmVars

-----------------------------------------------------------------------------

\* The words of a copy: none yet, the first one, both.
Copies == {<<>>} \cup {<<v>> : v \in Values} \cup Values \X Values

RwmTypeOK ==
    /\ readers \in Int
    /\ writer \in {0, 1}
    /\ buffer \in Values \X Values
    /\ dst \in [Threads -> Copies]
    /\ pc \in [Threads -> {"idle"} \cup ReadSteps \cup WriteSteps]
    /\ try \in [Threads -> BOOLEAN]

\* `readers' counts the announced readers, `writer' says whether one thread holds it.
RwmCounts ==
    /\ readers = Cardinality(At(Counted))
    /\ \A t, u \in At(Holding) : t = u
    /\ writer = 1 <=> At(Holding) # {}

\* While a thread writes the buffer no reader past its second look is copying.
RwmExclusion == At(Writing) # {} => At(Copying) = {}

\* Both words a reader copied are of one write.
NoTornRead == \A t \in At({"rLeave"}) : dst[t][1] = dst[t][2]

(* A read never mixes two writes, although no lock is held by both sides: each
   stores its own word (readers, writer) first and then looks at the other's,
   and whichever looks second sees the other one.                            *)
ReadsAreWhole == RwmCounts /\ RwmExclusion /\ NoTornRead

(* A writer that holds the object is never kept out by readers that come and
   go: they see it and withdraw.                                             *)
WriterServed == \A t \in Threads : pc[t] = "wDrain" ~> pc[t] # "wDrain"

-----------------------------------------------------------------------------
(* The bounded queue; the "lock-free" queue of the file is the same algorithm
   word for word.  `count' is read without the spin lock first and again under
   it; head and tail are touched only under it.                              *)

CONSTANTS
    DepthMax,    \* bound on the depth the guest passes to Initialize
    Elems,       \* elements the guest pushes
    NoElem       \* stands for no element

ASSUME DepthMaxAssumption == DepthMax \in Nat \ {0}
ASSUME NoElemAssumption   == NoElem \notin Elems

VARIABLES
    depth,       \* depth
    head, tail,  \* head, tail
    count,       \* count
    slots,       \* buffer, by index
    spinlock,    \* lock
    item,        \* per thread: the element of its push
    out          \* history: what the last pop copied out

ringVars  == <<depth, head, tail, count, slots>>
queueVars == <<depth, head, tail, count, slots, spinlock, item, out, pc, try>>

\* Steps between the acquire and the release of the spin lock.
Locked == {"pushCheck", "pushCopy", "pushCount", "popCheck", "popCopy", "popCount",
           "peek", "clear", "unlock", "retryPush", "retryPop"}
QueueSteps == Locked \cup {"pushSpin", "pushLock", "popSpin", "popLock", "peekLook", "peekLock",
                           "clearLock"}

QueueInit ==
    /\ depth \in 1 .. DepthMax
    /\ head = 0 /\ tail = 0 /\ count = 0 /\ spinlock = 0
    /\ slots = [i \in 0 .. DepthMax - 1 |-> NoElem]
    /\ item = [t \in Threads |-> NoElem]
    /\ out = <<>>

\* mutant: the index runs on past the depth
AfterNoWrap(i) == i + 1

\* (i + 1) % depth, for an index below depth
After(i) == IF i + 1 = depth THEN 0 ELSE i + 1

Full == count >= depth

-----------------------------------------------------------------------------
(* the spin lock *)

Acquire(t, from, to) ==
    /\ spinlock = 0
    /\ Goes(t, from, to)
    /\ spinlock' = 1
    /\ UNCHANGED <<ringVars, item, out>>

\* TryPush and TryPop return BUSY when the lock is taken.
TryLoses(t, from) ==
    /\ try[t] /\ spinlock = 1
    /\ Returns(t, from)
    /\ item' = [item EXCEPT ![t] = NoElem]
    /\ UNCHANGED <<ringVars, spinlock, out>>

Unlock(t) ==
    /\ Returns(t, "unlock")
    /\ spinlock' = 0
    /\ item' = [item EXCEPT ![t] = NoElem]
    /\ UNCHANGED <<ringVars, out>>

\* The second look failed: Push and Pop release the lock and start over.
Retry(t) ==
    /\ \/ Goes(t, "retryPush", "pushSpin")
       \/ Goes(t, "retryPop", "popSpin")
    /\ spinlock' = 0
    /\ UNCHANGED <<ringVars, item, out>>

-----------------------------------------------------------------------------
(* Push, TryPush *)

PushCall(t, e, isTry) ==
    /\ Calls(t, "pushSpin", isTry)
    /\ item' = [item EXCEPT ![t] = e]
    /\ UNCHANGED <<ringVars, spinlock, out>>

PushSpin(t) ==
    /\ ~Full
    /\ Goes(t, "pushSpin", "pushLock")
    /\ UNCHANGED <<ringVars, spinlock, item, out>>

PushOverflow(t) ==
    /\ try[t] /\ Full
    /\ Returns(t, "pushSpin")
    /\ item' = [item EXCEPT ![t] = NoElem]
    /\ UNCHANGED <<ringVars, spinlock, out>>

\* mutant: the look under the lock is left out
RoomAssumed == TRUE

RoomLeft == ~Full

PushCheck(t) ==
    /\ \/ RoomLeft /\ Goes(t, "pushCheck", "pushCopy")
       \/ ~RoomLeft /\ Goes(t, "pushCheck", IF try[t] THEN "unlock" ELSE "retryPush")
    /\ UNCHANGED <<ringVars, spinlock, item, out>>

\* memcpy into the slot at tail, then the store of tail
PushCopy(t) ==
    /\ Goes(t, "pushCopy", "pushCount")
    /\ slots' = [slots EXCEPT ![tail] = item[t]]
    /\ tail' = After(tail)
    /\ UNCHANGED <<depth, head, count, spinlock, item, out>>

PushCount(t) ==
    /\ Goes(t, "pushCount", "unlock")
    /\ count' = count + 1
    /\ UNCHANGED <<depth, head, tail, slots, spinlock, item, out>>

-----------------------------------------------------------------------------
(* Pop, TryPop *)

PopCall(t, isTry) ==
    /\ Calls(t, "popSpin", isTry)
    /\ UNCHANGED <<ringVars, spinlock, item, out>>

PopSpin(t) ==
    /\ count # 0
    /\ Goes(t, "popSpin", "popLock")
    /\ UNCHANGED <<ringVars, spinlock, item, out>>

PopEmpty(t) ==
    /\ try[t] /\ count = 0
    /\ Returns(t, "popSpin")
    /\ UNCHANGED <<ringVars, spinlock, item, out>>

SomeLeft == count # 0

PopCheck(t) ==
    /\ \/ SomeLeft /\ Goes(t, "popCheck", "popCopy")
       \/ ~SomeLeft /\ Goes(t, "popCheck", IF try[t] THEN "unlock" ELSE "retryPop")
    /\ UNCHANGED <<ringVars, spinlock, item, out>>

PopCopy(t) ==
    /\ Goes(t, "popCopy", "popCount")
    /\ out' = <<slots[head]>>
    /\ head' = After(head)
    /\ UNCHANGED <<depth, tail, count, slots, spinlock, item>>

PopCount(t) ==
    /\ Goes(t, "popCount", "unlock")
    /\ count' = count - 1
    /\ UNCHANGED <<depth, head, tail, slots, spinlock, item, out>>

-----------------------------------------------------------------------------
(* Peek and Clear; Size only loads count *)

PeekCall(t) ==
    /\ count # 0
    /\ Calls(t, "peekLock", FALSE)
    /\ UNCHANGED <<ringVars, spinlock, item, out>>

\* The copy of the head element, or EMPTY, changes nothing here.
Peek(t) ==
    /\ Goes(t, "peek", "unlock")
    /\ UNCHANGED <<ringVars, spinlock, item, out>>

ClearCall(t) ==
    /\ Calls(t, "clearLock", FALSE)
    /\ UNCHANGED <<ringVars, spinlock, item, out>>

\* Only the store of count can be seen outside the lock.
Clear(t) ==
    /\ Goes(t, "clear", "unlock")
    /\ head' = 0 /\ tail' = 0 /\ count' = 0
    /\ UNCHANGED <<depth, slots, spinlock, item, out>>

-----------------------------------------------------------------------------

\* The calls, those of the "lock-free" queue included.
QueueCall(t) ==
    \/ PeekCall(t)
    \/ ClearCall(t)
    \/ \E isTry \in BOOLEAN :
        \/ PopCall(t, isTry)
        \/ \E e \in Elems : PushCall(t, e, isTry)

QueueStep(t) ==
    \/ Acquire(t, "pushLock", "pushCheck") \/ Acquire(t, "popLock", "popCheck")
    \/ Acquire(t, "peekLock", "peek") \/ Acquire(t, "clearLock", "clear")
    \/ TryLoses(t, "pushLock") \/ TryLoses(t, "popLock")
    \/ Unlock(t) \/ Retry(t)
    \/ PushSpin(t) \/ PushOverflow(t) \/ PushCheck(t) \/ PushCopy(t) \/ PushCount(t)
    \/ PopSpin(t) \/ PopEmpty(t) \/ PopCheck(t) \/ PopCopy(t) \/ PopCount(t)
    \/ Peek(t) \/ Clear(t)

QueueNext == \E t \in Threads : QueueCall(t) \/ QueueStep(t)

QueueSpec ==
    /\ QueueInit
    /\ pc = [t \in Threads |-> "idle"]
    /\ try = [t \in Threads |-> FALSE]
    /\ [][QueueNext]_queueVars

-----------------------------------------------------------------------------

QueueTypeOK ==
    /\ depth \in 1 .. DepthMax
    /\ head \in 0 .. depth - 1
    /\ tail \in 0 .. depth - 1
    /\ count \in Int
    /\ slots \in [0 .. DepthMax - 1 -> Elems \cup {NoElem}]
    /\ spinlock \in {0, 1}
    /\ item \in [Threads -> Elems \cup {NoElem}]
    /\ out \in {<<>>} \cup {<<e>> : e \in Elems \cup {NoElem}}
    /\ pc \in [Threads -> {"idle"} \cup QueueSteps]
    /\ try \in [Threads -> BOOLEAN]

\* One thread is between the acquire and the release, and exactly then the lock is set.
SpinlockHeld ==
    /\ \A t, u \in At(Locked) : t = u
    /\ spinlock = 1 <=> At(Locked) # {}

\* How many elements the ring holds: a pop has taken its element before it lowers count.
Held == IF At({"popCount"}) # {} THEN count - 1 ELSE count

\* Where tail will be once a push in progress is counted out again.
Written == IF At({"pushCount"}) # {} THEN Held + 1 ELSE Held

\* head, tail and count describe one ring of at most depth elements at every moment.
RingAgrees ==
    /\ Held \in 0 .. depth
    /\ Written \in 0 .. depth
    /\ tail = IF head + Written >= depth THEN head + Written - depth ELSE head + Written
    /\ At({"pushCopy"}) # {} => count < depth
    /\ At({"popCopy"}) # {} => count > 0

(* The decisions to push and to pop are taken on looks at count made without
   the lock; whatever other threads did before the lock was had, no element is
   written over and none is read from an empty ring.                         *)
QueueIntact == SpinlockHeld /\ RingAgrees

\* What users see: an element offered by Push from its call, by TryPush once it has the lock.
Offered(t) ==
    IF \/ pc[t] \in {"pushCheck", "pushCopy", "pushCount", "retryPush"}
       \/ pc[t] \in {"pushSpin", "pushLock"} /\ ~try[t]
    THEN item[t] ELSE NoElem

Contents ==
    [i \in 1 .. Held |->
        slots[IF head + i - 1 >= depth THEN head + i - 1 - depth ELSE head + i - 1]]

SyncFifo == INSTANCE BoundedFifo WITH
    Ids <- {1}, Users <- Threads, Items <- Elems, Nothing <- NoElem, Bound <- DepthMax,
    contents <- <<Contents>>,
    offer <- [t \in Threads |-> Offered(t)],
    taken <- out

(* The queue is a bounded FIFO: every element goes in once, comes out in
   order, and is never overwritten or read twice.                           *)
SyncQueueIsFifo == SyncFifo!Spec

=============================================================================
