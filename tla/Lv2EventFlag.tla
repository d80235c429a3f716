---------------------------- MODULE Lv2EventFlag ----------------------------
(***************************************************************************)
(* lv2 event flags, runtime/syscalls/sys_event.c, Win32 branches: a word   *)
(* of bits under a lock of its own and a condition variable on which all   *)
(* waiters are woken.  A wait ends when its bits match, when its timeout   *)
(* is over, or when a cancel changed the generation it took on entry.      *)
(*                                                                         *)
(* destroy reads waiters under the table lock only; with RacyTeardown =    *)
(* FALSE the guest destroys a flag only while no call is between the       *)
(* unlocked active test and the lock.                                      *)
(***************************************************************************)
EXTENDS Integers, FiniteSets

CONSTANTS
    Threads,        \* guest threads, and the SPUs that set bits by id
    NumFlags,       \* SYS_EVENT_FLAG_MAX
    Bits,           \* bits of a pattern
    Asks,           \* the waits that the guest issues
    MaxGen,         \* bound: cancels of a flag (cancel_gen wraps at 2^32)
    RacyTeardown    \* the guest may destroy a flag under a call

Flags  == 1..NumFlags
Words  == SUBSET Bits
Clears == {"no", "bits", "all"}           \* neither, WAIT_CLEAR, WAIT_CLEAR_ALL
Wants  == [bits : Words, all : BOOLEAN, clear : Clears,
           timeout : {"forever", "timed", "poll"}]
NoWant == [bits |-> {}, all |-> FALSE, clear |-> "no", timeout |-> "forever"]

\* A table of some slots, and waits as sys_event_flag_wait takes them.
FlagSizes ==
    /\ NumFlags \in Nat \ {0} /\ MaxGen \in Nat
    /\ IsFiniteSet(Threads) /\ Asks \subseteq Wants

VARIABLES
    active, pattern, waiters, cancelGen,     \* sys_event_flag_info
    pc, flg, want, snap,                             \* the call of a thread
    counted       \* history: sleeping or polling waits that a cancel counted,
                  \* until they return ECANCELED

flagVars == <<active, pattern, waiters, cancelGen>>
callVars == <<pc, flg, want, snap, counted>>
vars     == <<active, pattern, waiters, cancelGen, pc, flg, want, snap, counted>>

PcValues == {"idle", "enter", "asleep", "awake", "poll", "late",
             "try", "set", "clear", "cancel"}

Init ==
    /\ active = [f \in Flags |-> FALSE]
    /\ pattern = [f \in Flags |-> {}]
    /\ waiters = [f \in Flags |-> 0]
    /\ cancelGen = [f \in Flags |-> 0]
    /\ pc = [t \in Threads |-> "idle"]
    /\ flg = [t \in Threads |-> 1]
    /\ want = [t \in Threads |-> NoWant]
    /\ snap = [t \in Threads |-> 0]
    /\ counted = {}

Sleepers(f) == {t \in Threads : pc[t] = "asleep" /\ flg[t] = f}
\* the waits that waiters counts
Waits(f) == {t \in Threads : pc[t] \in {"asleep", "awake", "poll", "late"} /\ flg[t] = f}
\* calls between the unlocked active test and the lock
Entering(f) == {t \in Threads : pc[t] \in {"enter", "try", "set", "clear", "cancel"} /\ flg[t] = f}

\* flag_check
Match(word, w) == IF w.all THEN w.bits \subseteq word ELSE w.bits \cap word # {}

\* What is left of a word when the wait w has matched it.
Cleared(word, w) ==
    CASE w.clear = "no"   -> word
      [] w.clear = "bits" -> word \ w.bits
      [] w.clear = "all"  -> {}

\* A call that passed the unlocked active test, with the word it was given.
Begin(t, f, next, w) ==
    /\ pc[t] = "idle"
    /\ active[f]
    /\ pc' = [pc EXCEPT ![t] = next]
    /\ flg' = [flg EXCEPT ![t] = f]
    /\ want' = [want EXCEPT ![t] = w]
    /\ UNCHANGED <<snap, counted, flagVars>>

\* The call returns and its locals are gone; next tells where others go on.
Return(t, next) ==
    /\ pc' = [next EXCEPT ![t] = "idle"]
    /\ flg' = [flg EXCEPT ![t] = 1]
    /\ want' = [want EXCEPT ![t] = NoWant]
    /\ snap' = [snap EXCEPT ![t] = 0]

-----------------------------------------------------------------------------

\* attr->type is stored too, and nothing reads it.
FlagCreate(t, f, word) ==
    /\ pc[t] = "idle"
    /\ ~active[f] /\ \A i \in Flags : i < f => active[i]
    /\ active' = [active EXCEPT ![f] = TRUE]
    /\ pattern' = [pattern EXCEPT ![f] = word]
    /\ waiters' = [waiters EXCEPT ![f] = 0]
    /\ cancelGen' = [cancelGen EXCEPT ![f] = 0]
    /\ UNCHANGED callVars

NoWaiters(f) == waiters[f] <= 0                             \* else EBUSY

FlagDestroy(t, f) ==
    /\ pc[t] = "idle"
    /\ active[f]
    /\ NoWaiters(f)
    /\ RacyTeardown \/ Entering(f) = {}
    /\ active' = [active EXCEPT ![f] = FALSE]
    /\ UNCHANGED <<pattern, waiters, cancelGen, callVars>>

-----------------------------------------------------------------------------
(* sys_event_flag_wait *)

WaitCall(t, f, w) == Begin(t, f, "enter", w)

\* mutant: the loop does not look at the generation
GenerationIgnored(t) == FALSE

Cancelled(t) == cancelGen[flg[t]] # (IF pc[t] = "enter" THEN cancelGen[flg[t]] ELSE snap[t])

\* The loop condition.
MustWait(t) == LET f == flg[t] IN
    ~Match(pattern[f], want[t]) /\ active[f] /\ ~Cancelled(t)

\* mutant: no snapshot, any cancel of the past counts
NoSnap(t) == 0

Snap(t) == cancelGen[flg[t]]

WaitEnter(t) ==
    LET f == flg[t] IN
    /\ pc[t] = "enter"
    /\ MustWait(t)
    /\ waiters' = [waiters EXCEPT ![f] = @ + 1]
    /\ snap' = [snap EXCEPT ![t] = Snap(t)]
    /\ pc' = [pc EXCEPT ![t] = IF want[t].timeout = "poll" THEN "poll" ELSE "asleep"]
    /\ UNCHANGED <<active, pattern, cancelGen, flg, want, counted>>

\* mutant: a wait that never slept is uncounted
WaitersMinus(t) == waiters[flg[t]] - 1

WaitersAfter(t) == IF pc[t] = "enter" THEN waiters[flg[t]] ELSE waiters[flg[t]] - 1

\* A cancelled wait returns ECANCELED and leaves the pattern alone; otherwise
\* the loop has ended by a match, or because the flag is gone.
Takes(t) == ~Cancelled(t)

WaitEnd(t) ==
    LET f == flg[t] IN
    /\ pc[t] \in {"enter", "awake", "poll"} /\ ~MustWait(t)
    /\ waiters' = [waiters EXCEPT ![f] = WaitersAfter(t)]
    /\ IF Takes(t)
       THEN /\ pattern' = [pattern EXCEPT ![f] = Cleared(@, want[t])]
            /\ UNCHANGED counted
       ELSE counted' = counted \ {t} /\ UNCHANGED pattern
    /\ Return(t, pc)
    /\ UNCHANGED <<active, cancelGen>>

WaitResleep(t) ==
    /\ pc[t] = "awake"
    /\ MustWait(t)
    /\ pc' = [pc EXCEPT ![t] = "asleep"]
    /\ UNCHANGED <<flg, want, snap, counted, flagVars>>

SpuriousWake(t) ==
    /\ pc[t] = "asleep"
    /\ pc' = [pc EXCEPT ![t] = "awake"]
    /\ UNCHANGED <<flg, want, snap, counted, flagVars>>

\* SleepConditionVariableCS times out: the thread has left the condition
\* variable and waits for the lock; then it returns ETIMEDOUT.
WaitTimesOut(t) ==
    /\ pc[t] = "asleep" /\ want[t].timeout = "timed"
    /\ pc' = [pc EXCEPT ![t] = "late"]
    /\ UNCHANGED <<flg, want, snap, counted, flagVars>>

WaitLate(t) ==
    /\ \/ pc[t] = "late"
       \/ pc[t] = "poll" /\ MustWait(t)                     \* the deadline passed
    /\ waiters' = [waiters EXCEPT ![flg[t]] = WaitersAfter(t)]
    /\ Return(t, pc)
    /\ UNCHANGED <<active, pattern, cancelGen, counted>>

-----------------------------------------------------------------------------
(* trywait, set, clear, cancel *)

TryCall(t, f, w)      == Begin(t, f, "try", w)
SetCall(t, f, word)   == Begin(t, f, "set", [NoWant EXCEPT !.bits = word])
ClearCall(t, f, word) == Begin(t, f, "clear", [NoWant EXCEPT !.bits = word])
CancelCall(t, f)      ==
    /\ cancelGen[f] + Cardinality({s \in Threads : pc[s] = "cancel"}) < MaxGen
    /\ Begin(t, f, "cancel", NoWant)

TryWait(t) ==
    LET f == flg[t] IN
    /\ pc[t] = "try"
    /\ pattern' = IF Match(pattern[f], want[t])
                  THEN [pattern EXCEPT ![f] = Cleared(@, want[t])]
                  ELSE pattern                              \* EBUSY
    /\ Return(t, pc)
    /\ UNCHANGED <<active, waiters, cancelGen, counted>>

\* mutant: one waiter is woken instead of all
WakeOne(f) == {{t} : t \in Sleepers(f)} \cup (IF Sleepers(f) = {} THEN {{}} ELSE {})

\* WakeAllConditionVariable: the sets of sleepers a wake may pick.
WakeAll(f) == {Sleepers(f)}

Woken(ts) == [t \in Threads |-> IF t \in ts THEN "awake" ELSE pc[t]]

\* sys_event_flag_set_by_id
Set(t) ==
    LET f == flg[t] IN
    /\ pc[t] = "set"
    /\ pattern' = [pattern EXCEPT ![f] = @ \cup want[t].bits]
    /\ \E ts \in WakeAll(f) : Return(t, Woken(ts))
    /\ UNCHANGED <<active, waiters, cancelGen, counted>>

Clear(t) ==
    LET f == flg[t] IN
    /\ pc[t] = "clear"
    /\ pattern' = [pattern EXCEPT ![f] = @ \cap want[t].bits]
    /\ Return(t, pc)
    /\ UNCHANGED <<active, waiters, cancelGen, counted>>

\* Waits that are in their loop: not those whose timeout is over.
InLoop(f) == {t \in Waits(f) : pc[t] # "late"}

Cancel(t) ==
    LET f == flg[t] IN
    /\ pc[t] = "cancel"
    /\ cancelGen' = [cancelGen EXCEPT ![f] = @ + 1]
    /\ counted' = counted \cup InLoop(f)
    /\ \E ts \in WakeAll(f) : Return(t, Woken(ts))
    /\ UNCHANGED <<active, pattern, waiters>>

-----------------------------------------------------------------------------

Call(t) ==
    \E f \in Flags :
        \/ \E word \in Words : FlagCreate(t, f, word)
        \/ FlagDestroy(t, f)
        \/ \E w \in Asks : WaitCall(t, f, w) \/ TryCall(t, f, w)
        \/ \E word \in Words : SetCall(t, f, word) \/ ClearCall(t, f, word)
        \/ CancelCall(t, f)

Step(t) ==
    \/ WaitEnter(t) \/ WaitEnd(t) \/ WaitResleep(t) \/ WaitLate(t)
    \/ TryWait(t) \/ Set(t) \/ Clear(t) \/ Cancel(t)

Next == \E t \in Threads : Call(t) \/ Step(t) \/ WaitTimesOut(t) \/ SpuriousWake(t)

Spec == Init /\ [][Next]_vars

\* A call that is under way and not asleep goes on: host threads are scheduled.
FairSpec == Spec /\ \A t \in Threads : WF_vars(Step(t))
-----------------------------------------------------------------------------
(* Properties *)

\* Every variable keeps its type; the count of waiters stays a count.
TypeOK ==
    /\ active \in [Flags -> BOOLEAN]
    /\ pattern \in [Flags -> Words]
    /\ waiters \in [Flags -> Nat]
    /\ cancelGen \in [Flags -> 0 .. MaxGen]
    /\ pc \in [Threads -> PcValues]
    /\ flg \in [Threads -> Flags]
    /\ want \in [Threads -> Wants]
    /\ snap \in [Threads -> 0 .. MaxGen]
    /\ counted \subseteq Threads

\* The counter that destroy and cancel read is exact (waiters++ and waiters--
\* on every way out of wait).
WaitersExact == \A f \in Flags : waiters[f] = Cardinality(Waits(f))

\* No sleeper is left beside what it waits for: the bits of a sleeper do not match
\* the pattern, and no cancel has passed since it came (set and cancel wake all).
NoneMissed ==
    \A f \in Flags : \A t \in Sleepers(f) : MustWait(t)

(* Nobody sleeps through a set, a clear or a cancel, and the count by which
   destroy and cancel judge the sleepers is exact.                           *)
NobodySleepsThrough == WaitersExact /\ NoneMissed

\* A wait that a cancel found in its loop is on its way to return ECANCELED: it
\* never returns with a match or a timeout, or sleeps on (cancel_gen and snap).
CancelReaches == \A t \in counted : pc[t] \in {"awake", "poll"} /\ Cancelled(t)

\* A cancel does not reach a wait that came after it.
CancelScoped ==
    \A t \in Threads : pc[t] \in {"asleep", "awake", "poll"} /\ Cancelled(t) => t \in counted

(* A cancel ends the waits it counted and no others: not one that came after
   it, and none of its own gets away with a match or a timeout.              *)
CancelExact == CancelReaches /\ CancelScoped

\* A cancelled wait returns.
CancelReturns == \A t \in Threads : (t \in counted) ~> (pc[t] = "idle")
=============================================================================
