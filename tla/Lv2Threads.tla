----------------------------- MODULE Lv2Threads -----------------------------
(***************************************************************************)
(* The PPU threads of the runtime (syscalls/sys_ppu_thread.c, the Windows  *)
(* build): a table of slots under one lock, an id that is its slot, a host *)
(* thread that ends its slot and then signals it, and join and detach,     *)
(* which may find either done.  A thread ends by returning from its entry. *)
(* A program may register its own thread calls over these: PpuThreads has  *)
(* those of this one.                                                      *)
(***************************************************************************)
EXTENDS Integers

CONSTANTS
    Callers,     \* threads that create, join and detach
    NumSlots,    \* PPU_THREAD_MAX
    MaxLives,    \* bound: threads ever created
    Careful      \* one join of a thread, and no detach beside it; nobody creates while
                 \* a thread is between its slot and its signal

Slots == 1..NumSlots
Lives == 1..MaxLives

VARIABLES
    table,     \* g_ppu_threads
    lives,     \* the host threads: their slot, and how far they are
    tpc,       \* per caller: in a join, of which slot
    returned   \* history: the joins that returned, the life they were of and what they gave

lv2Threads == <<table, lives, tpc, returned>>

\* life is history: the host thread the slot was filled for; the status of a life is its number.
FreeSlot == [state |-> "free", joinable |-> FALSE, status |-> 0, event |-> FALSE, life |-> 0]
NoLife   == [slot |-> 0, pc |-> "none"]
Idle     == [pc |-> "idle", slot |-> 0, life |-> 0]

Init ==
    /\ table = [s \in Slots |-> FreeSlot]
    /\ lives = [l \in Lives |-> NoLife]
    /\ tpc = [c \in Callers |-> Idle]
    /\ returned = {}

At(c, where) == tpc[c].pc = where

-----------------------------------------------------------------------------

Ending(l) == lives[l].pc = "marked"

Create(c) ==
    /\ At(c, "idle") /\ (Careful => \A l \in Lives : ~Ending(l))
    /\ \E s \in Slots, l \in Lives :
          /\ table[s].state = "free" /\ \A r \in 1 .. s - 1 : table[r].state # "free"
          /\ lives[l].pc = "none" /\ \A k \in 1 .. l - 1 : lives[k].pc # "none"
          /\ table' = [table EXCEPT ![s] = [FreeSlot EXCEPT !.state = "running",
                                               !.joinable = TRUE, !.life = l]]
          /\ lives' = [lives EXCEPT ![l] = [slot |-> s, pc |-> "runs"]]
    /\ UNCHANGED <<tpc, returned>>

\* mutant: a detached thread is kept for a join like any other
Kept(state)  == "finished"
After(state) == IF state = "detached" THEN "free" ELSE "finished"

\* The end of ppu_host_thread_proc, first under the lock, and then without it.
Marks(l) ==
    LET s == lives[l].slot IN
    /\ lives[l].pc = "runs"
    /\ lives' = [lives EXCEPT ![l].pc = "marked"]
    /\ table' = [table EXCEPT ![s].status = l, ![s].state = After(@)]
    /\ UNCHANGED <<tpc, returned>>

Signals(l) ==
    /\ lives[l].pc = "marked"
    /\ lives' = [lives EXCEPT ![l].pc = "ended"]
    /\ table' = [table EXCEPT ![lives[l].slot].event = TRUE]
    /\ UNCHANGED <<tpc, returned>>

-----------------------------------------------------------------------------

\* mutant: a thread that was detached can be joined
AnyThread(s) == table[s].state # "free"
Joinable(s)  == table[s].state \notin {"free", "detached"} /\ table[s].joinable

Joined(s) == \E c \in Callers : tpc[c].slot = s

JoinCall(c, s) ==
    /\ At(c, "idle") /\ Joinable(s) /\ (Careful => ~Joined(s))
    /\ tpc' = [tpc EXCEPT ![c] = [pc |-> "wait", slot |-> s, life |-> table[s].life]]
    /\ UNCHANGED <<table, lives, returned>>

JoinWoken(c) ==
    LET s == tpc[c].slot IN
    /\ At(c, "wait") /\ table[s].event
    /\ returned' = returned \cup {[life |-> tpc[c].life, status |-> table[s].status]}
    /\ tpc' = [tpc EXCEPT ![c].pc = "reap"]
    /\ UNCHANGED <<table, lives>>

JoinReaps(c) ==
    /\ At(c, "reap")
    /\ table' = [table EXCEPT ![tpc[c].slot].state = "free"]
    /\ tpc' = [tpc EXCEPT ![c] = Idle]
    /\ UNCHANGED <<lives, returned>>

\* mutant: one that has finished is left for a thread that will never end again
NeverFrees(state) == "detached"
Detached(state)   == IF state = "finished" THEN "free" ELSE "detached"

Detach(c, s) ==
    /\ At(c, "idle") /\ table[s].state \notin {"free", "detached"} /\ (Careful => ~Joined(s))
    /\ table' = [table EXCEPT ![s].state = Detached(@), ![s].joinable = @ /\ table[s].state = "finished"]
    /\ UNCHANGED <<lives, tpc, returned>>

Next ==
    \/ \E c \in Callers :
          \/ Create(c) \/ JoinWoken(c) \/ JoinReaps(c)
          \/ \E s \in Slots : JoinCall(c, s) \/ Detach(c, s)
    \/ \E l \in Lives : Marks(l) \/ Signals(l)

-----------------------------------------------------------------------------

TypeOK ==
    /\ \A s \in Slots :
          /\ table[s].state \in {"free", "running", "finished", "detached"}
          /\ table[s].status \in 0..MaxLives
    /\ \A c \in Callers : tpc[c].pc \in {"idle", "wait", "reap"}

\* A join gives the status of the thread it named, and only after that thread has ended.
JoinsTrue == \A r \in returned : r.status = r.life /\ lives[r.life].pc = "ended"

\* A slot belongs to one thread: while one runs its slot is not free, and none is left over
\* whose thread has ended and that no join or detach can give back any more.
SlotsReturn ==
    /\ \A l \in Lives : lives[l].pc = "runs" =>
          table[lives[l].slot].life = l /\ table[lives[l].slot].state \in {"running", "detached"}
    /\ \A s \in Slots : table[s].state = "detached" => lives[table[s].life].pc = "runs"
    /\ \A s \in Slots : table[s].state = "finished" => table[s].joinable

ThreadsSound == JoinsTrue /\ SlotsReturn
=============================================================================
