--------------------------- MODULE SpursEventFlag ---------------------------
(***************************************************************************)
(* A SPURS event flag (libs/spurs/spurs_event_flag.inc).  The flag lives   *)
(* in one line of guest memory.  SPU programs change it with PUTLLC, each  *)
(* change one step, and call the write hook afterwards; guest threads      *)
(* change it under the flag's mutex, Set also under the lock-line lock,    *)
(* Wait and Clear with plain loads and stores.  A task that waits takes a  *)
(* slot and sleeps until it is signalled (module SpursTaskset).            *)
(***************************************************************************)
EXTENDS Integers, FiniteSets

CONSTANTS
    Tasks,       \* SPU tasks that wait
    Setters,     \* SPU programs that set bits
    Callers,     \* guest threads
    Bits,        \* bits of the flag
    NumSlots,    \* 16
    AnyOf, AllOf,  \* masks that are waited for: one of the bits, or all
    Prompt       \* no slot is taken between the store that frees it and its write hook

Actors == Tasks \cup Setters \cup Callers
Slots  == 1..NumSlots
Asks   == [mask : AnyOf, all : {FALSE}] \cup [mask : AllOf, all : {TRUE}]

VARIABLES
    ef,        \* the line: events, pending, used, want, who and recv of the slots, the
               \*   mask, slot and pending mark of the guest thread that waits, auto clear
    port,      \* an lv2 event queue is attached
    known,     \* the host has a record of the flag, and its writes are routed
    watch,     \* g_event_watch_state: what the last notification saw
    latch,     \* tasks that are signalled
    fpc,       \* per actor: where it is
    out,       \* per actor: tasks it has yet to signal
    mine       \* per guest thread: its wait, the bits it got, the events it read

flagVars == <<ef, port, known, watch, latch, fpc, out, mine>>

NoAsk == [mask |-> {}, all |-> FALSE]
NoBody == CHOOSE t \in Tasks : TRUE
Idle  == [ask |-> NoAsk, waits |-> FALSE, got |-> {}, read |-> {}]

Snapshot(e) == [events |-> e.events, pending |-> e.pending, ppu |-> e.ppuPend]

\* A flag that the host initialised, or a program on an SPU.
Init ==
    /\ ef \in [events : {{}}, pending : {{}}, used : {{}}, want : {[s \in Slots |-> NoAsk]},
               who : {[s \in Slots |-> NoBody]}, recv : {[s \in Slots |-> {}]},
               ppu : {NoAsk}, ppuSlot : {1}, ppuPend : {FALSE}, auto : BOOLEAN]
    /\ port = FALSE
    /\ known \in BOOLEAN
    /\ watch = Snapshot(ef)
    /\ latch = {}
    /\ fpc = [a \in Actors |-> "idle"]
    /\ out = [a \in Actors |-> {}]
    /\ mine = [c \in Callers |-> Idle]

Ready(events, a) == IF a.all THEN a.mask \subseteq events ELSE events \cap a.mask # {}

At(a, at)   == fpc[a] = at /\ out[a] = {}
Goes(a, at) == fpc' = [fpc EXCEPT ![a] = at]

\* The mutex of the flag is free.
Inside    == {"take", "read", "write", "exit", "open"}
MutexFree == \A c \in Callers : fpc[c] \notin Inside

-----------------------------------------------------------------------------
(* Set: what it does to the line, and whom it wakes *)

SlotsMet(e, events) == {s \in e.used \ e.pending : Ready(events, e.want[s])}
PpuMet(e, events)   == e.ppu.mask # {} /\ ~e.ppuPend /\ Ready(events, e.ppu)

Delivered(e, bits) ==
    LET events == e.events \cup bits
        met    == SlotsMet(e, events)
        ppu    == PpuMet(e, events)
        eaten  == UNION {events \cap e.want[s].mask : s \in met} \cup
                  (IF ppu THEN events \cap e.ppu.mask ELSE {})
    IN  [e EXCEPT
            !.pending = @ \cup met,
            !.recv = [s \in Slots |-> IF ppu /\ s = e.ppuSlot THEN events \cap e.ppu.mask
                                      ELSE IF s \in met THEN events \cap e.want[s].mask
                                      ELSE @[s]],
            !.ppuPend = @ \/ ppu,
            !.ppu = IF ppu THEN NoAsk ELSE @,
            !.events = IF e.auto THEN events \ eaten ELSE events]

\* mutant: nobody is told
NonePending(e) == {}

\* Tasks of the slots that became pending after the last snapshot.
NewPending(e) == (e.pending \ watch.pending) \cap e.used

WokenBy(e) == {e.who[s] : s \in NewPending(e)}

\* cellSpursEventFlagSet: a read-modify-write that no SPU can come between.
Set(c, bits) ==
    /\ At(c, "idle") /\ known /\ MutexFree
    /\ ef' = Delivered(ef, bits)
    /\ watch' = Snapshot(ef')
    /\ out' = [out EXCEPT ![c] = WokenBy(ef')]
    /\ UNCHANGED <<port, known, latch, fpc, mine>>

\* The tasks are signalled after the mutex is given back.
SendSignal(a, t) ==
    /\ t \in out[a]
    /\ latch' = latch \cup {t}
    /\ out' = [out EXCEPT ![a] = @ \ {t}]
    /\ UNCHANGED <<ef, port, known, watch, fpc, mine>>

-----------------------------------------------------------------------------
(* SPU programs.  The routines are the guest's; a task takes the first free slot, and not
   the one a guest thread waits in.                                          *)

FreeSlot(s) ==
    /\ s \notin ef.used
    /\ ef.ppu.mask # {} \/ ef.ppuPend => s # ef.ppuSlot

SpuSets(p, bits) ==
    /\ At(p, "idle") /\ Goes(p, "hook")
    /\ ef' = Delivered(ef, bits)
    /\ UNCHANGED <<port, known, watch, latch, out, mine>>

TaskTakes(t, ask) ==
    /\ At(t, "idle") /\ Goes(t, "hook")
    /\ Ready(ef.events, ask) /\ ef.auto
    /\ ef' = [ef EXCEPT !.events = @ \ ask.mask]
    /\ UNCHANGED <<port, known, watch, latch, out, mine>>

TaskRegisters(t, ask) ==
    /\ At(t, "idle") /\ Goes(t, "hookWait")
    /\ ~Ready(ef.events, ask)
    /\ Prompt => \A u \in Tasks : fpc[u] # "hook"
    /\ \E s \in Slots :
          /\ FreeSlot(s) /\ \A r \in 1..s - 1 : ~FreeSlot(r)
          /\ ef' = [ef EXCEPT !.used = @ \cup {s}, !.want[s] = ask, !.who[s] = t]
    /\ UNCHANGED <<port, known, watch, latch, out, mine>>

\* event_notify_guest_write, by the thread that wrote.
Hook(a) ==
    /\ fpc[a] \in {"hook", "hookWait"} /\ out[a] = {} /\ MutexFree
    /\ Goes(a, IF fpc[a] = "hook" THEN "idle" ELSE "observe")
    /\ IF known THEN watch' = Snapshot(ef) /\ out' = [out EXCEPT ![a] = WokenBy(ef)]
       ELSE UNCHANGED <<watch, out>>
    /\ UNCHANGED <<ef, port, known, latch, mine>>

\* event_observe_native_wait, before the task sleeps; a flag the host does not know gets
\* its record here, and every slot that is pending counts as new.
Observe(t) ==
    /\ At(t, "observe") /\ Goes(t, "asleep") /\ MutexFree
    /\ known' = TRUE
    /\ watch' = Snapshot(ef)
    /\ out' = [out EXCEPT ![t] =
           IF known THEN WokenBy(ef) ELSE {ef.who[s] : s \in ef.pending \cap ef.used}]
    /\ UNCHANGED <<ef, port, latch, mine>>

TaskWakes(t) ==
    /\ At(t, "asleep") /\ t \in latch /\ Goes(t, "awake")
    /\ latch' = latch \ {t}
    /\ UNCHANGED <<ef, port, known, watch, out, mine>>

SlotOf(t) == CHOOSE s \in ef.used : ef.who[s] = t

\* The task gives its slot back, or sleeps again.
TaskLooks(t) ==
    /\ At(t, "awake")
    /\ IF SlotOf(t) \in ef.pending
       THEN /\ ef' = [ef EXCEPT !.pending = @ \ {SlotOf(t)}, !.used = @ \ {SlotOf(t)},
                                !.want[SlotOf(t)] = NoAsk, !.recv[SlotOf(t)] = {}]
            /\ Goes(t, "hook")
       ELSE Goes(t, "observe") /\ UNCHANGED ef
    /\ UNCHANGED <<port, known, watch, latch, out, mine>>

-----------------------------------------------------------------------------
(* guest threads: cellSpursEventFlagWait, TryWait, Clear *)

GateShut == ef.ppu.mask # {} \/ ef.ppuPend

WaitCall(c, ask, try) ==
    /\ At(c, "idle") /\ known /\ MutexFree /\ ~GateShut
    /\ try \/ port
    /\ \/ /\ Ready(ef.events, ask)
          /\ mine' = [mine EXCEPT ![c] = [Idle EXCEPT !.ask = ask]]
          /\ Goes(c, "take") /\ UNCHANGED ef
       \/ /\ ~Ready(ef.events, ask) /\ ~try
          /\ \E s \in Slots \ ef.used :
                /\ \A r \in Slots \ ef.used : r <= s
                /\ ef' = [ef EXCEPT !.ppu = ask, !.ppuSlot = s, !.ppuPend = FALSE]
          /\ mine' = [mine EXCEPT ![c] = [Idle EXCEPT !.ask = ask, !.waits = TRUE]]
          /\ Goes(c, "wait")
    /\ UNCHANGED <<port, known, watch, latch, out>>

\* The waiter asks every 2 ms, and when it is woken.
WaitPolls(c) ==
    /\ At(c, "wait") /\ MutexFree
    /\ ef.ppuPend \/ Ready(ef.events, mine[c].ask)
    /\ Goes(c, "take")
    /\ UNCHANGED <<ef, port, known, watch, latch, out, mine>>

\* What was delivered to it, or the bits themselves.
Take(c) ==
    /\ At(c, "take")
    /\ IF mine[c].waits /\ ef.ppuPend
       THEN /\ mine' = [mine EXCEPT ![c].got = ef.recv[ef.ppuSlot]]
            /\ ef' = [ef EXCEPT !.ppuPend = FALSE]
            /\ Goes(c, "exit")
       ELSE /\ mine' = [mine EXCEPT ![c].got = ef.events \cap mine[c].ask.mask]
            /\ Goes(c, IF ef.auto THEN "read" ELSE "exit")
            /\ UNCHANGED ef
    /\ UNCHANGED <<port, known, watch, latch, out>>

ReadEvents(c) ==
    /\ At(c, "read") /\ Goes(c, "write")
    /\ mine' = [mine EXCEPT ![c].read = ef.events]
    /\ UNCHANGED <<ef, port, known, watch, latch, out>>

WriteEvents(c) ==
    /\ At(c, "write") /\ Goes(c, "exit")
    /\ ef' = [ef EXCEPT !.events = mine[c].read \ mine[c].got]
    /\ UNCHANGED <<port, known, watch, latch, out, mine>>

\* mutant: the mask stays
KeepsMask(c)  == [ef EXCEPT !.ppuPend = FALSE]

ExitFirst(c)  == [ef EXCEPT !.ppu = NoAsk]
ExitSecond(c) == [ef EXCEPT !.ppuPend = FALSE]

Refreshed(ppu) ==
    watch' = [watch EXCEPT !.events = ef.events, !.ppu = IF ppu THEN FALSE ELSE @]

Exit(c) ==
    /\ At(c, "exit")
    /\ IF mine[c].waits
       THEN ef' = ExitFirst(c) /\ Goes(c, "open") /\ UNCHANGED <<watch, mine>>
       ELSE /\ Refreshed(FALSE) /\ Goes(c, "idle") /\ UNCHANGED ef
            /\ mine' = [mine EXCEPT ![c] = Idle]
    /\ UNCHANGED <<port, known, latch, out>>

Open(c) ==
    /\ At(c, "open") /\ Goes(c, "idle")
    /\ ef' = ExitSecond(c)
    /\ Refreshed(TRUE)
    /\ mine' = [mine EXCEPT ![c] = Idle]
    /\ UNCHANGED <<port, known, latch, out>>

Clear(c, bits) ==
    /\ At(c, "idle") /\ known /\ MutexFree /\ Goes(c, "read")
    /\ mine' = [mine EXCEPT ![c] = [Idle EXCEPT !.got = bits]]
    /\ UNCHANGED <<ef, port, known, watch, latch, out>>

\* cellSpursEventFlagAttachLv2EventQueue; Detach refuses while somebody waits.
Attach(c) ==
    /\ At(c, "idle") /\ known /\ ~port /\ port' = TRUE
    /\ UNCHANGED <<ef, known, watch, latch, fpc, out, mine>>

Detach(c) ==
    /\ At(c, "idle") /\ known /\ port /\ MutexFree /\ ~GateShut /\ port' = FALSE
    /\ UNCHANGED <<ef, known, watch, latch, fpc, out, mine>>

-----------------------------------------------------------------------------

Next ==
    \/ \E a \in Actors : Hook(a) \/ \E t \in Tasks : SendSignal(a, t)
    \/ \E p \in Setters, bits \in SUBSET Bits \ {{}} : SpuSets(p, bits)
    \/ \E t \in Tasks : \/ \E ask \in Asks : TaskTakes(t, ask) \/ TaskRegisters(t, ask)
                        \/ Observe(t) \/ TaskWakes(t) \/ TaskLooks(t)
    \/ \E c \in Callers :
          \/ \E bits \in SUBSET Bits \ {{}} : Set(c, bits) \/ Clear(c, bits)
          \/ \E ask \in Asks, try \in BOOLEAN : WaitCall(c, ask, try)
          \/ WaitPolls(c) \/ Take(c) \/ ReadEvents(c) \/ WriteEvents(c)
          \/ Exit(c) \/ Open(c) \/ Attach(c) \/ Detach(c)

Spec == Init /\ [][Next]_flagVars

-----------------------------------------------------------------------------

TypeOK ==
    /\ ef.events \subseteq Bits /\ ef.pending \subseteq Slots /\ ef.used \subseteq Slots
    /\ ef.ppuSlot \in Slots /\ ef.ppuPend \in BOOLEAN
    /\ known \in BOOLEAN /\ port \in BOOLEAN
    /\ latch \subseteq Tasks
    /\ \A a \in Actors : out[a] \subseteq Tasks

\* Somebody will signal the task of a slot that was not pending at the last snapshot.
HookDue(s) == s \notin watch.pending /\ \E a \in Actors : fpc[a] \in {"hook", "hookWait"}

\* A task that sleeps in a slot with bits delivered to it has its signal, or it is on the
\* way to it.
TasksToldOfBits ==
    \A s \in ef.pending \cap ef.used :
        fpc[ef.who[s]] = "asleep" =>
            \/ ef.who[s] \in latch
            \/ \E a \in Actors : ef.who[s] \in out[a]
            \/ HookDue(s)

\* Bits delivered to a waiter are bits it waits for.
DeliveriesMeetAsks ==
    \A s \in ef.pending \cap ef.used : Ready(ef.recv[s], ef.want[s])

\* A wait that has returned leaves the gate open: the next one is not refused for good.
GateOpens ==
    (\A c \in Callers : ~mine[c].waits) => ~GateShut

FlagSound == TasksToldOfBits /\ DeliveriesMeetAsks /\ GateOpens

=============================================================================
