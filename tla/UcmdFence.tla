------------------------------ MODULE UcmdFence ------------------------------
(***************************************************************************)
(* User commands of the RSX (libs/video/cellGcmSys.c): their latest cause  *)
(* is latched for an interrupt thread, whose callback signals the SPU and  *)
(* then stages a record (yakuza/dispatch.cpp).  The SPU fetches the record *)
(* between callbacks, by their epochs (runtime/spu/spu_channels.c,         *)
(* mfc_do_transfer of spu_dma.h).                                          *)
(***************************************************************************)
EXTENDS Integers

CONSTANTS MaxCommands    \* bound: commands of the RSX

VARIABLES
    rsx,        \* where the RSX is in cellGcmDispatchUserCommand
    cause,      \* s_ucmd_cause; the n-th command has cause n
    pending,    \* s_ucmd_has_pending
    event,      \* s_ucmd_intr_event
    intr,       \* the interrupt thread: where it is, the cause and epoch of its callback
    active,     \* g_yz_ucmd_handler_active
    epoch,      \* g_yz_ucmd_handler_epoch
    completed,  \* g_yz_ucmd_handler_completed_epoch
    record,     \* the two halves of the record in main memory
    signal,     \* the last signal to the SPU
    get         \* the fetch: where it is, active and epochs as read, its copy, its signal

ucmdVars == <<rsx, cause, pending, event, intr, active, epoch, completed, record, signal, get>>

postVars  == <<rsx, cause, pending, event>>
fenceVars == <<active, epoch, completed>>

NoGet == [pc |-> "idle", act |-> 0, ent |-> 0, stable |-> 0, copy |-> <<0, 0>>, due |-> 0]

Init ==
    /\ rsx = "idle" /\ cause = 0 /\ pending = FALSE /\ event = FALSE
    /\ intr = [pc |-> "sleeps", cause |-> 0, epoch |-> 0]
    /\ active = 0 /\ epoch = 0 /\ completed = 0
    /\ record = <<0, 0>> /\ signal = 0 /\ get = NoGet

-----------------------------------------------------------------------------
(* cellGcmDispatchUserCommand: two exchanges and the event *)

Post ==
    /\ \/ rsx = "idle" /\ cause < MaxCommands /\ cause' = cause + 1 /\ rsx' = "pending"
          /\ UNCHANGED <<pending, event>>
       \/ rsx = "pending" /\ pending' = TRUE /\ rsx' = "event" /\ UNCHANGED <<cause, event>>
       \/ rsx = "event" /\ event' = TRUE /\ rsx' = "idle" /\ UNCHANGED <<cause, pending>>
    /\ UNCHANGED <<intr, fenceVars, record, signal, get>>

(* gcm_intr_thread_proc *)

IntrWakes ==
    /\ intr.pc = "sleeps" /\ event
    /\ event' = FALSE /\ intr' = [intr EXCEPT !.pc = "look"]
    /\ UNCHANGED <<rsx, cause, pending, fenceVars, record, signal, get>>

IntrLook ==
    /\ intr.pc = "look"
    /\ pending' = FALSE
    /\ intr' = [intr EXCEPT !.pc = IF pending THEN "cause" ELSE "sleeps"]
    /\ UNCHANGED <<rsx, cause, event, fenceVars, record, signal, get>>

IntrCause ==
    /\ intr.pc = "cause"
    /\ intr' = [intr EXCEPT !.pc = "begin", !.cause = cause]
    /\ UNCHANGED <<postVars, fenceVars, record, signal, get>>

(* yz_ucmd_handler_begin, the callback, yz_ucmd_handler_end *)

BeginActive ==
    /\ intr.pc = "begin"
    /\ active' = active + 1 /\ intr' = [intr EXCEPT !.pc = "enter"]
    /\ UNCHANGED <<postVars, epoch, completed, record, signal, get>>

BeginEpoch ==
    /\ intr.pc = "enter"
    /\ epoch' = epoch + 1 /\ intr' = [intr EXCEPT !.pc = "signal", !.epoch = epoch + 1]
    /\ UNCHANGED <<postVars, active, completed, record, signal, get>>

\* The callback raises the signal before it has staged the record.
CallbackSignal ==
    /\ intr.pc = "signal"
    /\ signal' = intr.cause /\ intr' = [intr EXCEPT !.pc = "first"]
    /\ UNCHANGED <<postVars, fenceVars, record, get>>

Stage(from, half, to) ==
    /\ intr.pc = from
    /\ record' = [record EXCEPT ![half] = intr.cause] /\ intr' = [intr EXCEPT !.pc = to]
    /\ UNCHANGED <<postVars, fenceVars, signal, get>>

EndCompleted ==
    /\ intr.pc = "end"
    /\ completed' = (IF completed < intr.epoch THEN intr.epoch ELSE completed)
    /\ intr' = [intr EXCEPT !.pc = "leave"]
    /\ UNCHANGED <<postVars, active, epoch, record, signal, get>>

\* The decrement is followed by a wake of the fetch that sleeps on active.
Woken == IF get.pc = "asleep" THEN "active" ELSE get.pc

EndActive ==
    /\ intr.pc = "leave"
    /\ active' = active - 1 /\ intr' = [intr EXCEPT !.pc = "look"]
    /\ get' = [get EXCEPT !.pc = Woken]
    /\ UNCHANGED <<postVars, epoch, completed, record, signal>>

-----------------------------------------------------------------------------
(* the fetch of a record: yz_ucmd_wait_for_handler_completion, the copy, *)
(* yz_ucmd_handler_snapshot_is_stable                                     *)

SpuVarsKept == UNCHANGED <<postVars, intr, fenceVars, record, signal>>

GetStart ==
    /\ get.pc = "idle" /\ signal > get.due
    /\ get' = [NoGet EXCEPT !.pc = "active", !.due = signal]
    /\ SpuVarsKept

Read(from, to, field, value) ==
    /\ get.pc = from
    /\ get' = [get EXCEPT !.pc = to, ![field] = value]
    /\ SpuVarsKept

Quiet == get.act = 0 /\ completed >= get.ent

\* completed is read, then active again; an unquiet fetch sleeps while active is as it was read.
WaitCompleted ==
    /\ get.pc = "completed"
    /\ get' = [get EXCEPT !.pc = IF Quiet THEN "again" ELSE "sleep"]
    /\ SpuVarsKept

WaitAgain ==
    /\ get.pc = "again"
    /\ get' = [get EXCEPT !.pc = IF active = 0 THEN "copy1" ELSE "sleep", !.stable = get.ent]
    /\ SpuVarsKept

\* It sleeps although active changed in between and came back: the wake is over.
WaitOnAddress ==
    /\ get.pc = "sleep"
    /\ get' = [get EXCEPT !.pc = IF active = get.act THEN "asleep" ELSE "active"]
    /\ SpuVarsKept

Copy(from, half, to) ==
    /\ get.pc = from
    /\ get' = [get EXCEPT !.pc = to, !.copy[half] = record[half]]
    /\ SpuVarsKept

\* mutant: a copy is good when no callback runs after it
InactiveOnly == get.act = 0

Stable == get.act = 0 /\ get.ent = get.stable /\ completed >= get.stable

CheckCompleted ==
    /\ get.pc = "check"
    /\ get' = [get EXCEPT !.pc = IF Stable THEN "recheck" ELSE "active"]
    /\ SpuVarsKept

CheckAgain ==
    /\ get.pc = "recheck"
    /\ get' = [get EXCEPT !.pc = IF active = 0 THEN "done" ELSE "active"]
    /\ SpuVarsKept

GetDone ==
    /\ get.pc = "done"
    /\ get' = [get EXCEPT !.pc = "idle"]
    /\ SpuVarsKept

Fetch ==
    \/ Read("active", "entered", "act", active) \/ Read("entered", "completed", "ent", epoch)
    \/ WaitCompleted \/ WaitAgain \/ WaitOnAddress
    \/ Copy("copy1", 1, "copy2") \/ Copy("copy2", 2, "check1")
    \/ Read("check1", "check2", "act", active) \/ Read("check2", "check", "ent", epoch)
    \/ CheckCompleted \/ CheckAgain \/ GetDone

Callback ==
    \/ IntrWakes \/ IntrLook \/ IntrCause \/ BeginActive \/ BeginEpoch \/ CallbackSignal
    \/ Stage("first", 1, "second") \/ Stage("second", 2, "end") \/ EndCompleted \/ EndActive

Next == Post \/ Callback \/ GetStart \/ Fetch

Spec == Init /\ [][Next]_ucmdVars

\* The interrupt thread and the SPU are host threads that keep running.
FairSpec == Spec /\ WF_ucmdVars(Callback) /\ WF_ucmdVars(Fetch)

-----------------------------------------------------------------------------

TypeOK ==
    /\ cause \in 0..MaxCommands /\ pending \in BOOLEAN /\ event \in BOOLEAN
    /\ active \in 0..1 /\ completed <= epoch /\ epoch <= completed + 1
    /\ signal <= cause

\* A record that a fetch returns is whole, and not older than the signal that asked for it.
RecordWhole ==
    get.pc = "done" => get.copy[1] = get.copy[2] /\ get.copy[1] >= get.due

\* When the interrupt thread has gone to sleep, the last command had its callback.
LatestServed ==
    intr.pc = "sleeps" /\ ~event /\ rsx = "idle" => intr.cause = cause /\ record = <<cause, cause>>

UcmdSound == RecordWhole /\ LatestServed

\* A fetch returns.
FetchReturns == get.pc # "idle" ~> get.pc = "idle"

=============================================================================
