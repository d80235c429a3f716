---------------------------- MODULE Lv2Semaphore ----------------------------
(***************************************************************************)
(* The lv2 counting semaphore, runtime/syscalls/sys_semaphore.c, Win32     *)
(* branches.  `value' is the only count; the kernel semaphore is a channel *)
(* of wake tokens.  Guest threads call the syscalls in any order; each     *)
(* action is one stretch of code that runs under one lock, or one kernel   *)
(* call.                                                                   *)
(***************************************************************************)
EXTENDS Integers, FiniteSets

CONSTANTS
    Threads,      \* guest PPU threads
    NumSlots,     \* SYS_SEMAPHORE_MAX
    MaxArgs,      \* the max_value arguments the guest passes to create
    PostArgs,     \* the count arguments the guest passes to post
    IntMax,       \* INT32_MAX: `value' is a signed integer of this width
    TokenMax      \* maximum count of the kernel semaphore (0x7FFFFFFF)

ASSUME NumSlotsAssumption == NumSlots \in Nat \ {0}
ASSUME IntMaxAssumption   == IntMax \in Nat \ {0}
ASSUME ArgsAssumption     == MaxArgs \subseteq 1..IntMax /\ PostArgs \subseteq 1..IntMax
ASSUME ThreadsAssumption  == IsFiniteSet(Threads)
\* A refused ReleaseSemaphore leaves a token for every parked thread.
ASSUME TokenMaxAssumption == TokenMax \in Nat /\ TokenMax >= 2 * Cardinality(Threads)

Slots == 1..NumSlots

VARIABLES
    active,       \* per slot: the slot holds a live semaphore
    value,        \* per slot: the count
    maxValue,     \* per slot: the ceiling passed to create
    references,   \* per slot: calls pinned to the slot
    waiters,      \* per slot: threads between waiters++ and waiters--
    tokens,       \* per slot: count of the kernel wake channel
    pc,           \* per thread: where it is in its call
    cur,          \* per thread: the slot of its call
    timed,        \* per thread: its wait has a timeout
    arg           \* per thread: post's count, then its number of wakes

slotVars   == <<active, value, maxValue, references, waiters, tokens>>
threadVars == <<pc, cur, timed, arg>>
vars       == <<active, value, maxValue, references, waiters, tokens, pc, cur, timed, arg>>

PcValues == {"idle", "check", "parked", "woken", "try", "post", "wake", "get", "release"}
Busy     == PcValues \ {"idle"}     \* inside a call that holds a reference
Waiting  == {"parked", "woken"}     \* between waiters++ and waiters--

\* A signed 2(IntMax+1)-wide integer: what the addition stores when it overflows.
Wrap(n) == IF n > IntMax THEN n - 2 * (IntMax + 1) ELSE n

Lesser(a, b) == IF a < b THEN a ELSE b

At(where, s) == {t \in Threads : pc[t] \in where /\ cur[t] = s}

Init ==
    /\ active = [s \in Slots |-> FALSE]
    /\ value = [s \in Slots |-> 0]
    /\ maxValue = [s \in Slots |-> 0]
    /\ references = [s \in Slots |-> 0]
    /\ waiters = [s \in Slots |-> 0]
    /\ tokens = [s \in Slots |-> 0]
    /\ pc = [t \in Threads |-> "idle"]
    /\ cur \in [Threads -> {1}]
    /\ timed = [t \in Threads |-> FALSE]
    /\ arg = [t \in Threads |-> 0]

-----------------------------------------------------------------------------
(* create and destroy, wholly under the table lock *)

FirstFree(s) == ~active[s] /\ \A r \in Slots : r < s => active[r]

\* `opened' is false when CreateSemaphoreA fails: the slot stays free.
Create(t, s, initial, max, opened) ==
    /\ pc[t] = "idle"
    /\ initial <= max
    /\ FirstFree(s)
    /\ active' = [active EXCEPT ![s] = opened]
    /\ value' = [value EXCEPT ![s] = initial]
    /\ maxValue' = [maxValue EXCEPT ![s] = max]
    /\ references' = [references EXCEPT ![s] = 0]
    /\ waiters' = [waiters EXCEPT ![s] = 0]
    /\ tokens' = [tokens EXCEPT ![s] = 0]
    /\ UNCHANGED threadVars

\* mutant: only sleepers keep the slot busy
UnusedBySleepers(s) == waiters[s] = 0

\* else EBUSY
Unused(s) == references[s] = 0 /\ waiters[s] = 0

Destroy(t, s) ==
    /\ pc[t] = "idle"
    /\ active[s]
    /\ Unused(s)
    /\ active' = [active EXCEPT ![s] = FALSE]
    /\ UNCHANGED <<value, maxValue, references, waiters, tokens>>
    /\ UNCHANGED threadVars

-----------------------------------------------------------------------------
(* every other call pins the slot first and unpins it last *)

RefAcquire(t, s, next) ==
    /\ pc[t] = "idle"
    /\ active[s]
    /\ references' = [references EXCEPT ![s] = @ + 1]
    /\ pc' = [pc EXCEPT ![t] = next]
    /\ cur' = [cur EXCEPT ![t] = s]
    /\ UNCHANGED <<active, value, maxValue, waiters, tokens>>

RefRelease(t) ==
    /\ pc[t] = "release"
    /\ references' = [references EXCEPT ![cur[t]] = IF @ > 0 THEN @ - 1 ELSE @]
    /\ pc' = [pc EXCEPT ![t] = "idle"]
    /\ timed' = [timed EXCEPT ![t] = FALSE]
    /\ arg' = [arg EXCEPT ![t] = 0]
    /\ UNCHANGED <<active, value, maxValue, waiters, tokens, cur>>

Goto(t, next) == pc' = [pc EXCEPT ![t] = next] /\ UNCHANGED <<cur, timed>>

-----------------------------------------------------------------------------
(* sys_semaphore_wait *)

WaitCall(t, s, withTimeout) ==
    /\ RefAcquire(t, s, "check")
    /\ timed' = [timed EXCEPT ![t] = withTimeout]
    /\ UNCHANGED arg

WaitTake(t) ==
    /\ pc[t] = "check"
    /\ value[cur[t]] > 0
    /\ value' = [value EXCEPT ![cur[t]] = @ - 1]
    /\ Goto(t, "release")
    /\ UNCHANGED <<active, maxValue, references, waiters, tokens, arg>>

\* mutant: the timeout return decrements waiters again
WaitTimeoutUnparks(t) ==
    /\ pc[t] = "check" /\ value[cur[t]] <= 0 /\ timed[t]
    /\ waiters' = [waiters EXCEPT ![cur[t]] = @ - 1]
    /\ Goto(t, "release") /\ UNCHANGED <<active, value, maxValue, references, tokens, arg>>

\* The deadline of a timed wait may have passed at any check.
WaitTimeout(t) ==
    /\ pc[t] = "check"
    /\ value[cur[t]] <= 0
    /\ timed[t]
    /\ Goto(t, "release")
    /\ UNCHANGED <<slotVars, arg>>

WaitPark(t) ==
    /\ pc[t] = "check"
    /\ value[cur[t]] <= 0
    /\ waiters' = [waiters EXCEPT ![cur[t]] = @ + 1]
    /\ Goto(t, "parked")
    /\ UNCHANGED <<active, value, maxValue, references, tokens, arg>>

\* WaitForSingleObject returns with a token of the kernel semaphore.
WaitToken(t) ==
    /\ pc[t] = "parked"
    /\ tokens[cur[t]] > 0
    /\ tokens' = [tokens EXCEPT ![cur[t]] = @ - 1]
    /\ Goto(t, "woken")
    /\ UNCHANGED <<active, value, maxValue, references, waiters, arg>>

\* A timed wait sleeps in slices of 1 ms: the slice ends without a token.
WaitSlice(t) ==
    /\ pc[t] = "parked"
    /\ timed[t]
    /\ Goto(t, "woken")
    /\ UNCHANGED <<slotVars, arg>>

WaitUnpark(t) ==
    /\ pc[t] = "woken"
    /\ waiters' = [waiters EXCEPT ![cur[t]] = IF @ > 0 THEN @ - 1 ELSE @]
    /\ Goto(t, "check")
    /\ UNCHANGED <<active, value, maxValue, references, tokens, arg>>

-----------------------------------------------------------------------------
(* sys_semaphore_trywait, sys_semaphore_post, sys_semaphore_get_value *)

TryCall(t, s) == RefAcquire(t, s, "try") /\ UNCHANGED <<timed, arg>>

TryWait(t) ==
    /\ pc[t] = "try"
    /\ value' = [value EXCEPT ![cur[t]] = IF @ <= 0 THEN @ ELSE @ - 1]
    /\ Goto(t, "release")
    /\ UNCHANGED <<active, maxValue, references, waiters, tokens, arg>>

PostCall(t, s, count) ==
    /\ RefAcquire(t, s, "post")
    /\ arg' = [arg EXCEPT ![t] = count]
    /\ UNCHANGED timed

\* mutants: one token whatever the count; the ceiling tested before the addition
OneWake(t)     == Lesser(1, waiters[cur[t]])
AdmitsBelow(t) == value[cur[t]] <= maxValue[cur[t]]

Wakes(t)  == Lesser(arg[t], waiters[cur[t]])
Admits(t) == value[cur[t]] + arg[t] - Wakes(t) <= maxValue[cur[t]]

PostRefuse(t) ==
    /\ pc[t] = "post"
    /\ ~Admits(t)
    /\ Goto(t, "release")
    /\ UNCHANGED <<slotVars, arg>>

PostAdmit(t) ==
    /\ pc[t] = "post"
    /\ Admits(t)
    /\ value' = [value EXCEPT ![cur[t]] = Wrap(@ + arg[t])]
    /\ arg' = [arg EXCEPT ![t] = Wakes(t)]
    /\ Goto(t, "wake")
    /\ UNCHANGED <<active, maxValue, references, waiters, tokens>>

\* ReleaseSemaphore, after value_lock is released; it releases all or nothing.
PostWake(t) ==
    /\ pc[t] = "wake"
    /\ tokens' = [tokens EXCEPT ![cur[t]] =
                     IF @ + arg[t] <= TokenMax THEN @ + arg[t] ELSE @]
    /\ arg' = [arg EXCEPT ![t] = 0]
    /\ Goto(t, "release")
    /\ UNCHANGED <<active, value, maxValue, references, waiters>>

GetCall(t, s) == RefAcquire(t, s, "get") /\ UNCHANGED <<timed, arg>>

\* The value read goes to guest memory only.
GetValue(t) ==
    /\ pc[t] = "get"
    /\ Goto(t, "release")
    /\ UNCHANGED <<slotVars, arg>>

-----------------------------------------------------------------------------

Call(t) ==
    \E s \in Slots :
        \/ \E max \in MaxArgs, initial \in 0..IntMax, opened \in BOOLEAN :
              Create(t, s, initial, max, opened)
        \/ Destroy(t, s)
        \/ \E b \in BOOLEAN : WaitCall(t, s, b)
        \/ TryCall(t, s)
        \/ \E n \in PostArgs : PostCall(t, s, n)
        \/ GetCall(t, s)

\* The steps of a call that has begun.
Step(t) ==
    \/ WaitTake(t) \/ WaitTimeout(t) \/ WaitPark(t) \/ WaitToken(t) \/ WaitSlice(t)
    \/ WaitUnpark(t) \/ TryWait(t) \/ PostRefuse(t) \/ PostAdmit(t) \/ PostWake(t)
    \/ GetValue(t) \/ RefRelease(t)

Next == \E t \in Threads : Call(t) \/ Step(t)

Spec == Init /\ [][Next]_vars

(* The host scheduler runs every thread that can run, and the kernel gives a
   token to some sleeper.  Nothing says that the guest ever makes a call.   *)
FairSpec == Spec /\ \A t \in Threads : WF_vars(Step(t))

-----------------------------------------------------------------------------

TypeOK ==
    /\ active \in [Slots -> BOOLEAN]
    /\ value \in [Slots -> Int]
    /\ maxValue \in [Slots -> Nat]
    /\ references \in [Slots -> Nat]
    /\ waiters \in [Slots -> Nat]
    /\ tokens \in [Slots -> Nat]
    /\ pc \in [Threads -> PcValues]
    /\ cur \in [Threads -> Slots]
    /\ timed \in [Threads -> BOOLEAN]
    /\ arg \in [Threads -> Nat]

InCall(s) == At(Busy, s)

\* `references' counts the calls that are between their acquire and release.
RefsExact == \A s \in Slots : references[s] = Cardinality(InCall(s))

(* The promise of the comment above sem_ref_acquire: while a call is inside,
   its slot stays the semaphore it was called on, whatever destroy and create
   calls other threads make, so no thread uses a closed handle. *)
RefPins == \A t \in Threads : pc[t] # "idle" => active[cur[t]]

\* `waiters' counts exactly the threads between waiters++ and waiters--: the
\* ceiling test of post and the number of tokens it releases rest on it.
WaitersExact == \A s \in Slots : waiters[s] = Cardinality(At(Waiting, s))

(* A semaphore in use cannot be recycled: its two counters are exact on every
   way out of a call, whatever destroys, timeouts and posts fall in between,
   and so a destroy that finds no reference finds nobody inside.             *)
SlotsPinned == RefsExact /\ WaitersExact /\ RefPins

(* Post credits the threads that wait, some of which an earlier post may have
   credited already: the count may pass max_value, but never by more than the
   threads that are still on their way to take a unit. *)
CeilingWithCredit ==
    \A s \in Slots :
        active[s] => value[s] <= maxValue[s] + Cardinality(At(Waiting \cup {"check"}, s))

Owed(s) == {t \in At({"wake"}, s) : arg[t] > 0}

(* A wake is never missed: when units are there and a thread sleeps, a token
   is in the channel, a post is about to put one there, or a thread that is
   awake will check the count once for each unit. *)
NoLostWakeup ==
    \A s \in Slots :
        \/ At({"parked"}, s) = {}
        \/ tokens[s] > 0
        \/ Owed(s) # {}
        \/ value[s] <= Cardinality(At({"check", "woken"}, s))

(* The units that posts credit and sleepers take add up, in spite of the posts
   that count the same sleeper twice and of the sleepers that time out.      *)
UnitsAccounted == CeilingWithCredit /\ NoLostWakeup

(* Units that stay available reach the sleepers: the semaphore empties or no
   untimed sleeper is left. *)
WakeProgress ==
    \A s \in Slots :
        (value[s] > 0 /\ At({"parked"}, s) # {})
            ~> (value[s] = 0 \/ At({"parked"}, s) = {})

(* A slot is closed only when no call is inside, and no call that began on one
   semaphore ends on another created in the same slot. *)
NoRecycleInCall ==
    [][\A s \in Slots : active[s] # active'[s] => InCall(s) = {}]_vars

=============================================================================
