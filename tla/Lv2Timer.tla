------------------------------ MODULE Lv2Timer ------------------------------
(***************************************************************************)
(* An lv2 timer (runtime/syscalls/sys_timer.c): a slot without a lock, and *)
(* one host thread per start, which sends events until it finds running    *)
(* cleared or the stop event of the slot set.  stop and destroy wait for   *)
(* it, for three seconds.                                                  *)
(***************************************************************************)
EXTENDS Integers, FiniteSets

CONSTANTS
    Callers,      \* guest threads that call on the timer
    MaxStarts,    \* bound: starts, each with a host thread and a stop event of its own
    Capacity,     \* of the queue that it is connected to
    SlowHost      \* the three seconds of a wait for the host thread may run out

Starts == 1..MaxStarts

VARIABLES
    timer,        \* active, running, connected, base_time is to come, one-shot, stop_event, thread_handle
    started,      \* how many starts there were
    signalled,    \* the stop events that are set
    host,         \* per start: where its thread is, and what it read when it began
    tcall,        \* per caller: where it is in a call
    equeue        \* the queue: active, count

timerVars == <<timer, started, signalled, host, tcall, equeue>>

NoTimer == [active |-> FALSE, running |-> FALSE, conn |-> FALSE, base |-> FALSE,
            oneShot |-> FALSE, event |-> 0, thread |-> 0]
NoHost  == [pc |-> "none", base |-> FALSE, oneShot |-> FALSE]

Init ==
    /\ timer = NoTimer
    /\ started = 0
    /\ signalled = {}
    /\ host = [h \in Starts |-> NoHost]
    /\ tcall = [c \in Callers |-> "idle"]
    /\ equeue = [active |-> TRUE, count |-> 0]

Go(c, from, to) == tcall[c] = from /\ tcall' = [tcall EXCEPT ![c] = to]
At(h, pc) == host[h].pc = pc
To(h, pc) == host' = [host EXCEPT ![h].pc = pc]

-----------------------------------------------------------------------------
(* the calls *)

Create(c) ==
    /\ Go(c, "idle", "idle") /\ ~timer.active
    /\ timer' = [NoTimer EXCEPT !.active = TRUE]
    /\ UNCHANGED <<started, signalled, host, equeue>>

\* A timer that was ever started and has ended by itself keeps its handles.
Destroy(c) ==
    /\ timer.active /\ ~timer.conn
    /\ \/ ~timer.running /\ Go(c, "idle", "idle") /\ timer' = [timer EXCEPT !.active = FALSE]
          /\ UNCHANGED signalled
       \/ timer.running /\ Go(c, "idle", "destroys") /\ timer' = [timer EXCEPT !.running = FALSE]
          /\ signalled' = signalled \cup {timer.event}
    /\ UNCHANGED <<started, host, equeue>>

Connect(c) ==
    /\ Go(c, "idle", "idle") /\ timer.active
    /\ timer' = [timer EXCEPT !.conn = TRUE]
    /\ UNCHANGED <<started, signalled, host, equeue>>

Disconnect(c) ==
    /\ Go(c, "idle", "idle") /\ timer.active
    /\ timer' = [timer EXCEPT !.conn = FALSE]
    /\ UNCHANGED <<started, signalled, host, equeue>>

\* running is set before there is a stop event or a thread.
Start(c, base, oneShot) ==
    /\ Go(c, "idle", "event") /\ timer.active /\ ~timer.running /\ started < MaxStarts
    /\ timer' = [timer EXCEPT !.base = base, !.oneShot = oneShot, !.running = TRUE]
    /\ UNCHANGED <<started, signalled, host, equeue>>

StartEvent(c) ==
    /\ Go(c, "event", "thread") /\ started < MaxStarts
    /\ started' = started + 1
    /\ timer' = [timer EXCEPT !.event = started + 1]
    /\ UNCHANGED <<signalled, host, equeue>>

StartThread(c) ==
    /\ Go(c, "thread", "idle")
    /\ To(started, "begin")
    /\ timer' = [timer EXCEPT !.thread = started]
    /\ UNCHANGED <<started, signalled, equeue>>

Stop(c) ==
    /\ timer.active
    /\ \/ ~timer.running /\ Go(c, "idle", "idle") /\ UNCHANGED <<timer, signalled>>
       \/ timer.running /\ Go(c, "idle", "stops") /\ timer' = [timer EXCEPT !.running = FALSE]
          /\ signalled' = signalled \cup {timer.event}
    /\ UNCHANGED <<started, host, equeue>>

\* mutant: stop and destroy do not wait
NoWait == TRUE

\* WaitForSingleObject(thread_handle, 3000)
ThreadOver == timer.thread # 0 => (SlowHost \/ At(timer.thread, "ended"))

StopReturns(c) ==
    /\ Go(c, "stops", "idle") /\ ThreadOver
    /\ timer' = [timer EXCEPT !.event = 0, !.thread = 0]
    /\ UNCHANGED <<started, signalled, host, equeue>>

DestroyReturns(c) ==
    /\ Go(c, "destroys", "idle") /\ ThreadOver
    /\ timer' = [timer EXCEPT !.active = FALSE]
    /\ UNCHANGED <<started, signalled, host, equeue>>

-----------------------------------------------------------------------------
(* timer_thread_proc; a wait may time out at any moment *)

StopIsSet == timer.event \in signalled

Begins(h) ==
    /\ At(h, "begin")
    /\ host' = [host EXCEPT ![h] = [pc |-> IF timer.base THEN "base" ELSE "check",
                                    base |-> timer.base, oneShot |-> timer.oneShot]]
    /\ UNCHANGED <<timer, started, signalled, tcall, equeue>>

WaitsForBase(h) ==
    /\ At(h, "base")
    /\ \/ To(h, "check")
       \/ StopIsSet /\ To(h, "ended")
    /\ UNCHANGED <<timer, started, signalled, tcall, equeue>>

Checks(h) ==
    /\ At(h, "check")
    /\ To(h, IF ~timer.running THEN "ended" ELSE IF host[h].oneShot THEN "send" ELSE "loop")
    /\ UNCHANGED <<timer, started, signalled, tcall, equeue>>

Loops(h) ==
    /\ At(h, "loop")
    /\ To(h, IF timer.running THEN "wait" ELSE "ended")
    /\ UNCHANGED <<timer, started, signalled, tcall, equeue>>

WaitsForPeriod(h) ==
    /\ At(h, "wait")
    /\ \/ To(h, IF timer.running THEN "send" ELSE "loop")
       \/ StopIsSet /\ To(h, "ended")
    /\ UNCHANGED <<timer, started, signalled, tcall, equeue>>

AfterSend(h) == IF host[h].oneShot THEN "clear" ELSE "loop"

\* timer_send_event finds the queue without its lock.
Sends(h) ==
    /\ At(h, "send")
    /\ To(h, IF timer.conn /\ equeue.active THEN "push" ELSE AfterSend(h))
    /\ UNCHANGED <<timer, started, signalled, tcall, equeue>>

\* An event that finds the queue full is dropped.
Pushes(h) ==
    /\ At(h, "push")
    /\ equeue' = [equeue EXCEPT !.count = IF @ < Capacity THEN @ + 1 ELSE @]
    /\ To(h, AfterSend(h))
    /\ UNCHANGED <<timer, started, signalled, tcall>>

\* A one-shot timer is over when its event was sent.
Clears(h) ==
    /\ At(h, "clear")
    /\ timer' = [timer EXCEPT !.running = FALSE]
    /\ To(h, "ended")
    /\ UNCHANGED <<started, signalled, tcall, equeue>>

Host(h) ==
    Begins(h) \/ WaitsForBase(h) \/ Checks(h) \/ Loops(h) \/ WaitsForPeriod(h) \/ Sends(h)
    \/ Pushes(h) \/ Clears(h)

-----------------------------------------------------------------------------

\* The queue is received from, destroyed and created again by others.
QueueChanges ==
    /\ \/ equeue.count > 0 /\ equeue' = [equeue EXCEPT !.count = @ - 1]
       \/ equeue.active /\ equeue' = [active |-> FALSE, count |-> 0]
       \/ ~equeue.active /\ equeue' = [active |-> TRUE, count |-> 0]
    /\ UNCHANGED <<timer, started, signalled, host, tcall>>

Next ==
    \/ \E c \in Callers :
         \/ Create(c) \/ Destroy(c) \/ DestroyReturns(c) \/ Connect(c) \/ Disconnect(c)
         \/ \E base, oneShot \in BOOLEAN : Start(c, base, oneShot)
         \/ StartEvent(c) \/ StartThread(c) \/ Stop(c) \/ StopReturns(c)
    \/ \E h \in Starts : Host(h)
    \/ QueueChanges

Spec == Init /\ [][Next]_timerVars

-----------------------------------------------------------------------------

TypeOK ==
    /\ timer.active \in BOOLEAN /\ timer.running \in BOOLEAN /\ timer.conn \in BOOLEAN
    /\ timer.event \in 0..MaxStarts /\ timer.thread \in 0..MaxStarts
    /\ started \in 0..MaxStarts /\ signalled \subseteq 0..MaxStarts
    /\ \A h \in Starts : host[h].pc \in {"none", "begin", "base", "check", "loop", "wait",
                                         "send", "push", "clear", "ended"}
    /\ \A c \in Callers : tcall[c] \in {"idle", "event", "thread", "stops", "destroys"}
    /\ equeue.active \in BOOLEAN /\ equeue.count \in 0..Capacity

Living   == {h \in Starts : host[h].pc \notin {"none", "ended"}}
NoCaller == \A c \in Callers : tcall[c] = "idle"

(* A timer whose calls do not overlap: no event is sent after stop or destroy has
   returned, or while another start's thread sends; when no call is under way, a
   timer that does not run has no thread left that could send, wait or clear
   running under a later start.                                              *)
StopIsQuiet ==
    /\ Cardinality(Living) <= 1
    /\ NoCaller => (timer.running <=> Living # {})

=============================================================================
