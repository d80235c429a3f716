---------------------------- MODULE LwMutexCond ----------------------------
(***************************************************************************)
(* Lightweight mutexes and conditions (libs/system/sysPrxForUser.c, the    *)
(* Windows build).  An lwmutex is a structure in guest memory that names a *)
(* slot of a host table, taken when it is created or first locked; the     *)
(* slot's critical section outlives the lwmutex, and a generation tells a  *)
(* locker that waited in it whether the lwmutex it came for is still there.*)
(***************************************************************************)
EXTENDS Integers, FiniteSets

CONSTANTS
    Threads, None,
    LwMutexes, LwConds,   \* structures in guest memory
    NumLwSlots,           \* MAX_LWMUTEX
    MaxDepth,             \* bound: how deep a thread nests one lwmutex
    MaxGen,               \* bound: destructions of a slot
    Churn                 \* lwmutexes are destroyed under calls that look them up

LwSlots == 1..NumLwSlots

VARIABLES
    lwm,        \* guest: sleep_queue, owner word, static SYS_SYNC_RECURSIVE, recursive_count
    slots,      \* s_lwmutex: in_use, recursive, gen, owner_tid; its CS: holder, entries
    nextSlot,   \* s_lwmutex_next
    lwc,        \* s_lwcond: in_use, lwmutex_id, committed, pending
    lwcall,     \* per thread: where it is, on what, its slot and generation, its kind of wait
    held        \* history: locks that returned OK and were not given back

lwVars == <<lwm, slots, nextSlot, lwc, lwcall, held>>

LwKinds == {"forever", "timed", "try"}
Looking == {"check", "lazy", "register", "slot"}
Parked  == {"asleep", "reenter"}

Idle(x, c) == [pc |-> "idle", x |-> x, c |-> c, slot |-> 1, gen |-> 0, kind |-> "forever"]
FreeSlot   == [inUse |-> FALSE, recursive |-> FALSE, gen |-> 0, owner |-> None,
               cs |-> None, n |-> 0]

\* No lwmutex has been created: each is as its static initialiser left it.
Init ==
    /\ lwm \in [LwMutexes -> [sq : {0}, word : {"free"}, recursive : BOOLEAN, count : {0}]]
    /\ slots = [i \in LwSlots |-> FreeSlot]
    /\ nextSlot = 1
    /\ lwc = [c \in LwConds |-> [inUse |-> FALSE, m |-> 1, committed |-> 0, pending |-> 0]]
    /\ lwcall \in [Threads -> {Idle(CHOOSE x \in LwMutexes : TRUE, CHOOSE c \in LwConds : TRUE)}]
    /\ held = [t \in Threads |-> [x \in LwMutexes |-> 0]]

At(t, where) == lwcall[t].pc = where
Go(t, where) == lwcall' = [lwcall EXCEPT ![t].pc = where]
Obj(t)  == lwcall[t].x
Slot(t) == slots[lwcall[t].slot]

Enterable(i, t) == slots[i].cs \in {None, t}
Entered(s, t)   == [s EXCEPT !.cs = t, !.n = @ + 1]
Left(s)         == [s EXCEPT !.n = @ - 1, !.cs = IF s.n = 1 THEN None ELSE @]

Waiters(c) == {t \in Threads : At(t, "asleep") /\ lwcall[t].c = c}

-----------------------------------------------------------------------------
(* create, and the registration of a lock of a static lwmutex *)

\* The first free slot from s_lwmutex_next on.
Nth(i) == ((nextSlot - 1 + i) % NumLwSlots) + 1
Free   == {i \in 0 .. NumLwSlots - 1 : ~slots[Nth(i)].inUse}

Register(x, recursive) ==
    LET i == Nth(CHOOSE i \in Free : \A j \in Free : i <= j) IN
    /\ Free # {}
    /\ slots' = [slots EXCEPT ![i].inUse = TRUE, ![i].owner = None, ![i].recursive = recursive]
    /\ lwm' = [lwm EXCEPT ![x] = [sq |-> i, word |-> "free", recursive |-> FALSE, count |-> 0]]
    /\ nextSlot' = (i % NumLwSlots) + 1

\* Nobody looks the lwmutex up, and no destroy of it is under way.
Settled(x) == \A t \in Threads : Obj(t) = x => lwcall[t].pc \notin Looking \cup {"wipe", "bury"}

\* The guest creates again what it destroyed.
Create(t, x, recursive) ==
    /\ At(t, "idle") /\ lwm[x].word = "dead"
    /\ Churn \/ Settled(x)
    /\ Register(x, recursive)
    /\ UNCHANGED <<lwc, lwcall, held>>

-----------------------------------------------------------------------------
(* lock and trylock *)

LockCall(t, x, kind) ==
    /\ At(t, "idle") /\ held[t][x] < MaxDepth
    /\ Churn \/ \A u \in Threads : Obj(u) = x => lwcall[u].pc \notin {"wipe", "bury"}
    /\ lwcall' = [lwcall EXCEPT ![t].pc = "check", ![t].x = x, ![t].kind = kind]
    /\ UNCHANGED <<lwm, slots, nextSlot, lwc, held>>

\* lwmutex_dead_check
LockCheck(t) ==
    /\ At(t, "check")
    /\ Go(t, IF lwm[Obj(t)].sq = 0 /\ lwm[Obj(t)].word = "dead" THEN "idle" ELSE "lazy")
    /\ UNCHANGED <<lwm, slots, nextSlot, lwc, held>>

LockLazy(t) ==
    /\ At(t, "lazy")
    /\ Go(t, IF lwm[Obj(t)].sq = 0 THEN "register" ELSE "slot")
    /\ UNCHANGED <<lwm, slots, nextSlot, lwc, held>>

\* mutant: no second look under the lock
RegistersBlind(x) == TRUE

Registers(x) == lwm[x].sq = 0

\* lwmutex_lazy_register, which looks again under the lock of the table.
LockRegister(t) ==
    LET x == Obj(t) IN
    /\ At(t, "register")
    /\ \/ Registers(x) /\ Register(x, lwm[x].recursive) /\ Go(t, "slot")
       \/ Registers(x) /\ Free = {} /\ Go(t, "idle") /\ UNCHANGED <<lwm, slots, nextSlot>>
       \/ ~Registers(x) /\ Go(t, "slot") /\ UNCHANGED <<lwm, slots, nextSlot>>
    /\ UNCHANGED <<lwc, held>>

\* ESRCH for a slot that is gone, EDEADLK for the owner of a plain lwmutex.
Deadlocks(i, t) == ~slots[i].recursive /\ slots[i].owner = t

LockSlot(t) ==
    LET i == lwm[Obj(t)].sq IN
    /\ At(t, "slot")
    /\ IF i = 0 \/ ~slots[i].inUse \/ (lwcall[t].kind # "try" /\ Deadlocks(i, t))
       THEN Go(t, "idle")
       ELSE lwcall' = [lwcall EXCEPT ![t].pc = "enter", ![t].slot = i, ![t].gen = slots[i].gen]
    /\ UNCHANGED <<lwm, slots, nextSlot, lwc, held>>

LockEnter(t) ==
    /\ At(t, "enter") /\ Enterable(lwcall[t].slot, t)
    /\ slots' = [slots EXCEPT ![lwcall[t].slot] = Entered(@, t)]
    /\ Go(t, "own")
    /\ UNCHANGED <<lwm, nextSlot, lwc, held>>

LockGiveUp(t) ==
    /\ At(t, "enter") /\ lwcall[t].kind # "forever" /\ ~Enterable(lwcall[t].slot, t)
    /\ Go(t, "idle")
    /\ UNCHANGED <<lwm, slots, nextSlot, lwc, held>>

StillThere(t) == Slot(t).inUse /\ Slot(t).gen = lwcall[t].gen

\* The lwmutex died while the call waited: ESRCH.  Otherwise the lock is had.
LockOwn(t) ==
    /\ At(t, "own") /\ Go(t, "idle")
    /\ IF StillThere(t)
       THEN /\ slots' = [slots EXCEPT ![lwcall[t].slot].owner = t]
            /\ lwm' = [lwm EXCEPT ![Obj(t)].word = "held", ![Obj(t)].count = @ + 1]
            /\ held' = [held EXCEPT ![t][Obj(t)] = @ + 1]
       ELSE /\ slots' = [slots EXCEPT ![lwcall[t].slot] = Left(@)]
            /\ UNCHANGED <<lwm, held>>
    /\ UNCHANGED <<nextSlot, lwc>>

-----------------------------------------------------------------------------
(* unlock and destroy *)

\* A wait leaves recursive_count as it is, so that the owner word can be stale; the
\* guest then unlocks only what it holds, and otherwise may be in error.
CountExact(x) == \A t \in Threads : lwcall[t].pc \in Parked => lwcall[t].slot # lwm[x].sq

UnlockCall(t, x) ==
    LET i == lwm[x].sq IN
    /\ At(t, "idle") /\ (held[t][x] > 0 \/ CountExact(x))
    /\ i # 0 /\ slots[i].inUse /\ slots[i].owner = t /\ lwm[x].count # 0
    /\ lwm' = [lwm EXCEPT ![x].count = @ - 1, ![x].word = IF lwm[x].count = 1 THEN "zero" ELSE @]
    /\ slots' = IF lwm[x].count = 1 THEN [slots EXCEPT ![i].owner = None] ELSE slots
    /\ lwcall' = [lwcall EXCEPT ![t].pc = "leave", ![t].x = x, ![t].slot = i]
    /\ held' = [held EXCEPT ![t][x] = @ - 1]
    /\ UNCHANGED <<nextSlot, lwc>>

UnlockLeave(t) ==
    /\ At(t, "leave")
    /\ slots' = [slots EXCEPT ![lwcall[t].slot] = Left(@)]
    /\ Go(t, "idle")
    /\ UNCHANGED <<lwm, nextSlot, lwc, held>>

\* EBUSY while the owner is named or a locker is in the critical section.
DestroyCall(t, x) ==
    LET i == lwm[x].sq IN
    /\ At(t, "idle")
    /\ Churn \/ (Settled(x) /\ CountExact(x))
    /\ i # 0 /\ slots[i].inUse /\ slots[i].gen < MaxGen
    /\ slots[i].owner = None /\ Enterable(i, t)
    /\ slots' = [slots EXCEPT ![i].inUse = FALSE, ![i].gen = @ + 1]
    /\ lwcall' = [lwcall EXCEPT ![t].pc = "wipe", ![t].x = x]
    /\ UNCHANGED <<lwm, nextSlot, lwc, held>>

DestroyWipe(t) ==
    /\ At(t, "wipe")
    /\ lwm' = [lwm EXCEPT ![Obj(t)] = [sq |-> 0, word |-> "zero", recursive |-> FALSE, count |-> 0]]
    /\ Go(t, "bury")
    /\ UNCHANGED <<slots, nextSlot, lwc, held>>

DestroyBury(t) ==
    /\ At(t, "bury")
    /\ lwm' = [lwm EXCEPT ![Obj(t)].word = "dead"]
    /\ Go(t, "idle")
    /\ UNCHANGED <<slots, nextSlot, lwc, held>>

-----------------------------------------------------------------------------
(* conditions; a sleeper may look at pending whenever the CV returns *)

CondCreate(t, c, x) ==
    /\ At(t, "idle") /\ ~lwc[c].inUse /\ lwm[x].sq # 0
    /\ lwc' = [lwc EXCEPT ![c] = [inUse |-> TRUE, m |-> lwm[x].sq, committed |-> 0, pending |-> 0]]
    /\ UNCHANGED <<lwm, slots, nextSlot, lwcall, held>>

CondDestroy(t, c) ==
    /\ At(t, "idle") /\ lwc[c].inUse
    /\ Churn \/ Waiters(c) = {}
    /\ lwc' = [lwc EXCEPT ![c].inUse = FALSE]
    /\ UNCHANGED <<lwm, slots, nextSlot, lwcall, held>>

CondSignal(t, c) ==
    /\ At(t, "idle") /\ lwc[c].inUse /\ lwc[c].committed > lwc[c].pending
    /\ lwc' = [lwc EXCEPT ![c].pending = @ + 1]
    /\ UNCHANGED <<lwm, slots, nextSlot, lwcall, held>>

CondSignalAll(t, c) ==
    /\ At(t, "idle") /\ lwc[c].inUse
    /\ lwc' = [lwc EXCEPT ![c].pending = lwc[c].committed]
    /\ UNCHANGED <<lwm, slots, nextSlot, lwcall, held>>

\* The wait of a thread that holds the lwmutex gives back one level of it.
CondWait(t, c, x, kind) ==
    LET i == lwc[c].m IN
    /\ At(t, "idle") /\ lwc[c].inUse /\ slots[i].inUse
    /\ lwm[x].sq = i /\ held[t][x] > 0
    /\ lwc' = [lwc EXCEPT ![c].committed = @ + 1]
    /\ slots' = [slots EXCEPT ![i] = [Left(@) EXCEPT !.owner = None]]
    /\ lwcall' = [lwcall EXCEPT ![t] = [pc |-> "asleep", x |-> x, c |-> c, slot |-> i,
                                        gen |-> slots[i].gen, kind |-> kind]]
    /\ UNCHANGED <<lwm, nextSlot, held>>

AtMost(n, m) == IF n > m THEN m ELSE n

CondWakes(t) ==
    LET c == lwcall[t].c
        served == lwc[c].pending > 0 IN
    /\ At(t, "asleep")
    /\ served \/ lwcall[t].kind = "timed"
    /\ lwc' = [lwc EXCEPT ![c].committed = @ - 1,
                          ![c].pending = AtMost(IF served THEN @ - 1 ELSE @, lwc[c].committed - 1)]
    /\ Go(t, "reenter")
    /\ UNCHANGED <<lwm, slots, nextSlot, held>>

CondReenter(t) ==
    LET i == lwcall[t].slot IN
    /\ At(t, "reenter") /\ Enterable(i, t) /\ Go(t, "idle")
    /\ IF StillThere(t)
       THEN slots' = [slots EXCEPT ![i] = [Entered(@, t) EXCEPT !.owner = t]] /\ UNCHANGED held
       ELSE held' = [held EXCEPT ![t][Obj(t)] = @ - 1] /\ UNCHANGED slots
    /\ UNCHANGED <<lwm, nextSlot, lwc>>

-----------------------------------------------------------------------------

Next ==
    \E t \in Threads :
       \/ LockCheck(t) \/ LockLazy(t) \/ LockRegister(t) \/ LockSlot(t)
       \/ LockEnter(t) \/ LockGiveUp(t) \/ LockOwn(t)
       \/ UnlockLeave(t) \/ DestroyWipe(t) \/ DestroyBury(t)
       \/ CondWakes(t) \/ CondReenter(t)
       \/ \E x \in LwMutexes :
             \/ \E b \in BOOLEAN : Create(t, x, b)
             \/ \E k \in LwKinds : LockCall(t, x, k)
             \/ UnlockCall(t, x) \/ DestroyCall(t, x)
             \/ \E c \in LwConds : CondCreate(t, c, x) \/ \E k \in {"forever", "timed"} : CondWait(t, c, x, k)
       \/ \E c \in LwConds : CondDestroy(t, c) \/ CondSignal(t, c) \/ CondSignalAll(t, c)

Spec == Init /\ [][Next]_lwVars

-----------------------------------------------------------------------------

TypeOK ==
    /\ \A x \in LwMutexes :
          /\ lwm[x].sq \in LwSlots \cup {0} /\ lwm[x].count \in Nat
          /\ lwm[x].word \in {"free", "held", "zero", "dead"}
    /\ \A i \in LwSlots :
          /\ slots[i].gen \in 0..MaxGen /\ slots[i].n \in Nat
          /\ {slots[i].cs, slots[i].owner} \subseteq Threads \cup {None}
    /\ nextSlot \in LwSlots
    /\ \A t \in Threads :
          lwcall[t].pc \in {"idle", "enter", "own", "leave", "wipe", "bury"} \cup Looking \cup Parked

\* A thread is inside an lwmutex from the lock to the unlock, its waits left out.
Inside(x) == {t \in Threads : held[t][x] > 0 /\ ~(lwcall[t].pc \in Parked /\ Obj(t) = x)}

OneInside == \A x \in LwMutexes : Cardinality(Inside(x)) <= 1

\* The lock a thread was given is that of the slot the structure names.
InsideItsSlot ==
    \A x \in LwMutexes : \A t \in Inside(x) : lwm[x].sq # 0 /\ slots[lwm[x].sq].cs = t

NoSharedSlot ==
    \A x, y \in LwMutexes :
        lwm[x].sq = lwm[y].sq /\ lwm[x].sq # 0 /\ slots[lwm[x].sq].inUse =>
            x = y \/ \E t \in Threads : At(t, "wipe") /\ Obj(t) \in {x, y}

CondsExact ==
    \A c \in LwConds : lwc[c].committed = Cardinality(Waiters(c)) /\ lwc[c].pending \in 0 .. lwc[c].committed

(* Two threads that lock a static lwmutex for the first time register it once,
   a locker that waited out a destruction backs out, and a slot serves one
   lwmutex: whoever was given an lwmutex is alone in it.                     *)
LwExclusive == OneInside /\ InsideItsSlot /\ NoSharedSlot /\ CondsExact

(* "Safe before the acquire: owner_tid can only equal this thread if WE hold
   it" (sys_lwmutex_lock, before it answers EDEADLK).                        *)
OwnerHolds == \A i \in LwSlots : slots[i].owner # None => slots[i].cs = slots[i].owner

=============================================================================
