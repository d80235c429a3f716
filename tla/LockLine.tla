------------------------------ MODULE LockLine ------------------------------
(***************************************************************************)
(* One 128-byte guest line that SPUs and PPU threads update concurrently:  *)
(*   SPU: GETLLAR, PUTLLC, the lost-reservation event and its channel wait *)
(*        (runtime/spu/spu_dma.h, spu_channels.c),                         *)
(*   PPU: lwarx/stwcx (yakuza/shims.cpp) and the cellSync ticket mutex     *)
(*        (libs/sync/cellSync.c).                                          *)
(* SPU transactions run under the lock-line lock.  A PPU write first asks  *)
(* whether any SPU ever reserved the line, and takes that lock only then.  *)
(***************************************************************************)
EXTENDS Integers, FiniteSets, TLC

CONSTANTS
    PPUs, SPUs,       \* threads on either side
    None,             \* no reservation; nobody in the lock-line lock
    Width,            \* 2^16: both halves of the ticket word
    MaxCount,         \* bound: increments of the shared counter
    Marked            \* the line has been reserved before

ASSUME LineSizesAssumption == Width \in Nat \ {0, 1} /\ MaxCount \in Nat
ASSUME LineSetsAssumption  == IsFiniteSet(PPUs) /\ PPUs \cap SPUs = {}
ASSUME MarkedAssumption    == Marked \in BOOLEAN

Ticket == 0 .. Width - 1
\* what the properties tell apart in the 128 bytes: the ticket word and a
\* counter that PPUs and SPUs increment
Lines  == [serving : Ticket, next : Ticket, count : 0 .. MaxCount]

ASSUME NoneAssumption == None \notin SPUs \cup Lines

VARIABLES
    line,             \* guest memory
    lock,             \* s_lockline: the SPU inside; a PPU is in and out in one step
    reserved,         \* the line's bit in s_coh_bitmap
    resv,             \* mfc_engine: resv_data, None when resv_active is 0
    gen,              \* mfc_engine: how resv_gen stands to the line's generation
    ls, lr, spc,      \* an SPU: its local store copy, SPU_EVENT_LR, its program
    raw, op, pc,      \* a PPU thread: the word it read, its call, where it is
    counted,          \* history: increments reported as done
    missed            \* history: written by others since the SPU last acknowledged

spuVars == <<resv, gen, ls, lr, spc>>
history == <<counted, missed>>
ppuVars == <<raw, op, pc>>
vars    == <<line, lock, reserved, resv, gen, ls, lr, spc, raw, op, pc, counted, missed>>

Ops   == {"none", "lock", "try", "unlock", "stwcx"}
Pcs   == {"idle", "check", "locked", "bare", "notify", "spin", "critical"}
\* "none": resv_ea is another line; "old": written since
Gens  == {"none", "current", "old"}
SPcs  == {"idle", "get", "have", "put", "parked"}
Fresh == [serving |-> 0, next |-> 0, count |-> 0]

Init ==
    /\ line = Fresh                         \* cellSyncMutexInitialize
    /\ lock = None
    /\ reserved = Marked
    /\ resv = [s \in SPUs |-> None]
    /\ gen = [s \in SPUs |-> "none"]
    /\ ls = [s \in SPUs |-> Fresh]
    /\ lr = [s \in SPUs |-> FALSE]
    /\ spc = [s \in SPUs |-> "idle"]
    /\ raw = [t \in PPUs |-> Fresh]
    /\ op = [t \in PPUs |-> "none"]
    /\ pc = [t \in PPUs |-> "idle"]
    /\ counted = 0
    /\ missed = [s \in SPUs |-> FALSE]

-----------------------------------------------------------------------------
(* spu_coh_notify_write: the generation moves, every reservation of the line
   is lost, and an SPU that loses it gets the event.  PUTLLC clears its own
   reservation before, so that it raises nothing for itself.                *)

Bumped == [s \in SPUs |-> IF gen[s] = "none" THEN "none" ELSE "old"]

\* mutant: the generation is bumped, and reservations stay
NotifyGeneration(by) ==
    gen' = Bumped /\ UNCHANGED <<lr, resv>>

Notify(by) ==
    /\ gen' = Bumped
    /\ lr' = [s \in SPUs |-> lr[s] \/ (resv[s] # None /\ s # by)]
    /\ resv' = [s \in SPUs |-> None]

-----------------------------------------------------------------------------
(* SPU *)

SpuGoto(s, next) == spc' = [spc EXCEPT ![s] = next]

\* History: the line was written by `by`, to whom the SPUs that have reserved it
\* and not another one since are peers.
Written(by, done) ==
    /\ counted' = counted + done
    /\ missed' = [s \in SPUs |-> missed[s] \/ (s # by /\ gen[s] # "none")]

\* The guest has no use for its copy any more.
Forget(s) == ls' = [ls EXCEPT ![s] = Fresh] /\ SpuGoto(s, "idle")

\* GETLLAR marks the line and copies it into the local store ...
Getllar(s) ==
    /\ spc[s] \in {"idle", "have"}
    /\ lock = None
    /\ lock' = s
    /\ reserved' = TRUE
    /\ ls' = [ls EXCEPT ![s] = line]
    /\ SpuGoto(s, "get")
    /\ UNCHANGED <<line, resv, gen, lr, ppuVars, history>>

\* The lock-free path of GETLLAR, for the lines it is allowed on: while the
\* reservation stands the cached copy is served.
GetllarCached(s) ==
    /\ spc[s] \in {"idle", "have"}
    /\ resv[s] # None /\ gen[s] = "current"
    /\ ls' = [ls EXCEPT ![s] = resv[s]]
    /\ SpuGoto(s, "have")
    /\ UNCHANGED <<line, lock, reserved, resv, gen, lr, ppuVars, history>>

\* mutant: the missed write is not made up for
NoRederivation(s) == FALSE

\* The line was written while this SPU held no reservation.
LrRederived(s) == gen[s] = "old"

\* ... and into resv_data, compares generations, and leaves the lock.
GetllarEnds(s) ==
    /\ spc[s] = "get"
    /\ resv' = [resv EXCEPT ![s] = line]
    /\ lr' = [lr EXCEPT ![s] = @ \/ LrRederived(s)]
    /\ gen' = [gen EXCEPT ![s] = "current"]
    /\ lock' = None
    /\ SpuGoto(s, "have")
    /\ UNCHANGED <<line, reserved, ls, ppuVars, history>>

MayCommit(s) == resv[s] # None /\ resv[s] = line

\* PUTLLC compares under the lock; the guest incremented the counter in its copy.
Putllc(s) ==
    /\ spc[s] = "have" /\ ls[s].count < MaxCount
    /\ lock = None
    /\ IF MayCommit(s)
       THEN lock' = s /\ SpuGoto(s, "put") /\ UNCHANGED <<resv, ls>>
       ELSE resv' = [resv EXCEPT ![s] = None] /\ Forget(s) /\ UNCHANGED lock
    /\ UNCHANGED <<line, reserved, gen, lr, ppuVars, history>>

\* The whole line is copied back.
PutllcCommits(s) ==
    /\ spc[s] = "put"
    /\ line' = [ls[s] EXCEPT !.count = @ + 1]
    /\ Written(s, 1)
    /\ Notify(s)
    /\ lock' = None
    /\ Forget(s)
    /\ UNCHANGED <<reserved, ppuVars>>

\* spu_mfc_context_switch drops the reservation.
ContextSwitch(s) ==
    /\ spc[s] = "have"
    /\ resv' = [resv EXCEPT ![s] = None]
    /\ Forget(s)
    /\ UNCHANGED <<line, lock, reserved, gen, lr, ppuVars, history>>

\* GETLLAR of another line takes resv_ea away from this one.
Elsewhere(s) ==
    /\ spc[s] \in {"idle", "have"}
    /\ lock = None
    /\ resv' = [resv EXCEPT ![s] = None]
    /\ gen' = [gen EXCEPT ![s] = "none"]
    /\ missed' = [missed EXCEPT ![s] = FALSE]
    /\ Forget(s)
    /\ UNCHANGED <<line, lock, reserved, lr, ppuVars, counted>>

\* The idle loop of the guest looks at its copy and waits for the event.
Park(s) ==
    /\ spc[s] = "have"
    /\ SpuGoto(s, "parked")
    /\ UNCHANGED <<line, lock, reserved, resv, gen, ls, lr, ppuVars, history>>

\* rdch SPU_RdEventStat returns, and wrch SPU_WrEventAck clears the event.
Wake(s) ==
    /\ spc[s] = "parked" /\ lr[s]
    /\ lock = None
    /\ lr' = [lr EXCEPT ![s] = FALSE]
    /\ missed' = [missed EXCEPT ![s] = FALSE]
    /\ Forget(s)
    /\ UNCHANGED <<line, lock, reserved, resv, gen, ppuVars, counted>>

-----------------------------------------------------------------------------
(* PPU: the word a call is about, the ticket pair or the counter *)

\* mutant: the last ticket is given out too
NeverBusy(w) == FALSE

\* BUSY when every ticket but one is out: next may not catch up with serving.
Busy(w) == (w.next - w.serving) % Width = Width - 1

\* Whether the call goes on to its compare-and-swap with the word w.
Proceeds(o, w) ==
    CASE o = "lock"   -> ~Busy(w)
      [] o = "try"    -> w.serving = w.next
      [] o = "unlock" -> w.serving # w.next                 \* else STAT
      [] o = "stwcx"  -> w.count < MaxCount

\* mutant: the halves do not wrap at 16 bits
DesiredWide(o, w) ==
    CASE o \in {"lock", "try"} -> [w EXCEPT !.next = @ + 1]
      [] o = "unlock"          -> [w EXCEPT !.serving = @ + 1]
      [] o = "stwcx"           -> [w EXCEPT !.count = @ + 1]

Desired(o, w) ==
    CASE o \in {"lock", "try"} -> [w EXCEPT !.next = (@ + 1) % Width]
      [] o = "unlock"          -> [w EXCEPT !.serving = (@ + 1) % Width]
      [] o = "stwcx"           -> [w EXCEPT !.count = @ + 1]

\* The line v with the word of the call taken from w, and that word alone.
WithWord(o, v, w) ==
    IF o = "stwcx" THEN [v EXCEPT !.count = w.count]
                   ELSE [v EXCEPT !.serving = w.serving, !.next = w.next]
WordOf(o, v) == WithWord(o, Fresh, v)

PpuGoto(t, next) ==
    /\ pc' = [pc EXCEPT ![t] = next]
    /\ raw' = [raw EXCEPT ![t] = IF next \in {"idle", "critical"} THEN Fresh ELSE @]
    /\ op' = [op EXCEPT ![t] = IF next \in {"idle", "critical"} THEN "none" ELSE @]

\* Load the word o is about; BUSY and STAT are answered from it.
Look(t, o) ==
    LET go == Proceeds(o, line)
    IN  /\ pc' = [pc EXCEPT ![t] = IF go THEN "check" ELSE "idle"]
        /\ raw' = [raw EXCEPT ![t] = IF go THEN WordOf(o, line) ELSE Fresh]
        /\ op' = [op EXCEPT ![t] = IF go THEN o ELSE "none"]

Begin(t, o) ==
    /\ pc[t] = IF o = "unlock" THEN "critical" ELSE "idle"
    /\ Look(t, o)
    /\ UNCHANGED <<line, lock, reserved, spuVars, history>>

\* mutant: the mutex does not take the lock-line lock
LocksNothing(t) == op[t] = "stwcx" /\ reserved

\* mutant: nor does stwcx.
NobodyLocks(t) == FALSE

\* spu_coh_is_reserved, before the write and outside any lock.
TakesLock(t) == reserved

CheckReserved(t) ==
    /\ pc[t] = "check"
    /\ PpuGoto(t, IF TakesLock(t) THEN "locked" ELSE "bare")
    /\ UNCHANGED <<line, lock, reserved, spuVars, history>>

\* Where a call goes when it is done with the line.
Done(o) == CASE o = "lock" -> "spin" [] o = "try" -> "critical" [] OTHER -> "idle"

\* The mutex notifies after its compare-and-swap, lock always, the others when
\* they were outside the lock-line lock; stwcx. never does outside of it.
NotifiesLater(t) == op[t] = "lock" \/ (pc[t] = "bare" /\ op[t] # "stwcx")

AtCas(t) == pc[t] = "bare" \/ (pc[t] = "locked" /\ lock = None)

\* The compare-and-swap, with the lock-line lock ("locked") or without ("bare").
CasCommits(t) ==
    /\ AtCas(t)
    /\ WordOf(op[t], line) = raw[t]
    /\ line' = WithWord(op[t], line, Desired(op[t], raw[t]))
    /\ Written(None, IF op[t] = "stwcx" THEN 1 ELSE 0)
    /\ IF pc[t] = "locked" THEN Notify(None) ELSE UNCHANGED <<gen, lr, resv>>
    /\ PpuGoto(t, IF NotifiesLater(t) THEN "notify" ELSE Done(op[t]))
    /\ UNCHANGED <<lock, reserved, ls, spc>>

\* stwcx. fails; the mutex calls look again at the word the exchange returned.
CasFails(t) ==
    /\ AtCas(t)
    /\ WordOf(op[t], line) # raw[t]
    /\ IF op[t] = "stwcx" THEN PpuGoto(t, "idle") ELSE Look(t, op[t])
    /\ UNCHANGED <<line, lock, reserved, spuVars, history>>

\* sync_mutex_coherence, outside the lock
MutexNotify(t) ==
    /\ pc[t] = "notify"
    /\ IF reserved THEN Notify(None) ELSE UNCHANGED <<gen, lr, resv>>
    /\ PpuGoto(t, Done(op[t]))
    /\ UNCHANGED <<line, lock, reserved, ls, spc, history>>

\* The mutex is held once the ticket is served.
Served(t) ==
    /\ pc[t] = "spin"
    /\ line.serving = raw[t].next
    /\ PpuGoto(t, "critical")
    /\ UNCHANGED <<line, lock, reserved, spuVars, history>>

-----------------------------------------------------------------------------

SpuRuns(s) == GetllarEnds(s) \/ PutllcCommits(s) \/ Wake(s)
PpuRuns(t) == CheckReserved(t) \/ MutexNotify(t) \/ Served(t)

Next ==
    \/ \E s \in SPUs : \/ Getllar(s) \/ GetllarCached(s) \/ Putllc(s) \/ ContextSwitch(s)
                       \/ Elsewhere(s) \/ Park(s) \/ SpuRuns(s)
    \/ \E t \in PPUs : \/ \E o \in Ops \ {"none"} : Begin(t, o)
                       \/ CasCommits(t) \/ CasFails(t) \/ PpuRuns(t)

Spec == Init /\ [][Next]_vars

\* PPU threads are alike, and so are SPUs.
ThreadSymmetry == Permutations(PPUs) \cup Permutations(SPUs)

\* Host threads are scheduled; a compare-and-swap that finds the lock-line lock
\* taken again and again gets it, and a holder of the mutex leaves it.
FairSpec ==
    /\ Spec
    /\ \A s \in SPUs : WF_vars(SpuRuns(s))
    /\ \A t \in PPUs : /\ WF_vars(PpuRuns(t))
                       /\ SF_vars(CasCommits(t) \/ CasFails(t))
                       /\ WF_vars(Begin(t, "unlock"))

-----------------------------------------------------------------------------
(* Properties *)

\* Every variable keeps its type.
TypeOK ==
    /\ line \in Lines
    /\ lock \in SPUs \cup {None}
    /\ reserved \in BOOLEAN
    /\ resv \in [SPUs -> Lines \cup {None}]
    /\ gen \in [SPUs -> Gens]
    /\ ls \in [SPUs -> Lines]
    /\ lr \in [SPUs -> BOOLEAN]
    /\ spc \in [SPUs -> SPcs]
    /\ raw \in [PPUs -> Lines]
    /\ op \in [PPUs -> Ops]
    /\ pc \in [PPUs -> Pcs]
    /\ counted \in Nat
    /\ missed \in [SPUs -> BOOLEAN]

\* No update is lost: every increment that stwcx. or PUTLLC reported is in
\* the counter (commits under the lock-line lock, PUTLLC's compare).
NoLostCount == line.count = counted

\* No ticket operation is undone: the ticket word changes by one step of one
\* of its halves (the reason cellSync.c gives for taking the lock-line lock).
TicketsAdvance ==
    [][\/ line'.serving = line.serving /\ line'.next = line.next
       \/ line'.serving = line.serving /\ line'.next = (line.next + 1) % Width
       \/ line'.next = line.next /\ line'.serving = (line.serving + 1) % Width]_vars

\* A reservation that is active still describes memory, so the cached copy
\* that GETLLAR may serve without the lock is the line (spu_dma.h fast path).
ReservationFresh ==
    \A s \in SPUs : lock # s /\ resv[s] # None => resv[s] = line

\* An SPU that waits for the event has it pending if somebody else wrote the line
\* since the last event it acknowledged, also when the write fell between a PUTLLC
\* and the next GETLLAR (spu_coh_notify_write and the re-derivation in GETLLAR).
NoLostEvent ==
    \A s \in SPUs : spc[s] = "parked" /\ missed[s] => lr[s]

\* The threads that hold the mutex, up to the exchange of their unlock.
Holders ==
    {t \in PPUs : \/ pc[t] = "critical"
                  \/ op[t] = "unlock" /\ pc[t] \in {"check", "locked", "bare"}
                  \/ op[t] = "try" /\ pc[t] = "notify"}

\* The mutex excludes: at most one thread holds it, though tickets wrap and SPUs
\* rewrite the line.
MutualExclusion == Cardinality(Holders) <= 1

\* A thread that took a ticket gets the mutex.
TicketServed == \A t \in PPUs : (pc[t] = "spin") ~> (pc[t] = "critical")
=============================================================================
