---------------------------- MODULE SpursTaskset ----------------------------
(***************************************************************************)
(* SPURS tasksets on the host (libs/spurs/spurs_taskset.inc) and the       *)
(* workload ids and masks they take (cellSpurs.c).  A task is a host       *)
(* thread; its taskset keeps bitsets in guest memory, which SPU programs   *)
(* change too, and a record of the thread outside of it.  What holds the   *)
(* mutex of the taskset is one step, except the end of a task, which SPU   *)
(* programs and readers of its exit code see half done.  The interceptor   *)
(* of signals for one image is left out.                                   *)
(***************************************************************************)
EXTENDS Integers, FiniteSets

CONSTANTS
    Callers,       \* guest threads
    Objects,       \* tasksets in guest memory
    NumSets,       \* MAX_TASKSETS
    NumTasks,      \* CELL_SPURS_MAX_TASK
    NumWids,       \* workloads of the SPURS instance
    MaxSerial,     \* bound: tasks that are ever created
    ManyJoiners    \* the guest joins one task from two threads at once

Slots == 1..NumSets
Tasks == 0..NumTasks - 1
Wids  == 0..NumWids - 1

VARIABLES
    spurs,     \* active_wkl_mask, runnable_wkl_mask, next_wid
    sets,      \* g_tasksets[]
    bits,      \* per object, in guest memory: running, ready, enabled, signalled, waiting
    tasks,     \* tasks[] of every slot; serial tells the tasks of an id apart
    thr,       \* per task: where its host thread is
    exitCode,  \* per object and id: CellSpursTaskExitCode
    tcall,     \* per guest thread: its call
    hooks,     \* signals of SPU programs whose write hook has not run yet
    owed,      \* history: tasks that were signalled and have not been woken since
    serials    \* history: tasks created so far

tasksetVars == <<spurs, sets, bits, tasks, thr, exitCode, tcall, hooks, owed, serials>>

NoBits == [running |-> {}, ready |-> {}, enabled |-> {}, signalled |-> {}, waiting |-> {}]
NoTask == [valid |-> FALSE, complete |-> FALSE, joined |-> FALSE, reaping |-> FALSE,
           signalled |-> FALSE, serial |-> 0]
NoCall == [at |-> "idle", slot |-> 0, id |-> 0, serial |-> 0]
NoSet  == [live |-> FALSE, key |-> CHOOSE o \in Objects : TRUE, wid |-> 0,
           registered |-> FALSE, shutdown |-> FALSE]

Init ==
    /\ spurs = [active |-> {}, runnable |-> {}, next |-> 0]
    /\ sets = [s \in Slots |-> NoSet]
    /\ bits = [o \in Objects |-> NoBits]
    /\ tasks = [s \in Slots |-> [t \in Tasks |-> NoTask]]
    /\ thr = [s \in Slots |-> [t \in Tasks |-> "none"]]
    /\ exitCode = [o \in Objects |-> [t \in Tasks |-> [ready |-> FALSE, value |-> 0]]]
    /\ tcall = [c \in Callers |-> NoCall]
    /\ hooks = {} /\ owed = {} /\ serials = 0

Finds(o, s)   == sets[s].live /\ sets[s].key = o
Object(s)     == sets[s].key
Ending        == {"ending", "publishing"}
Unlocked(s)   == \A t \in Tasks : thr[s][t] \notin Ending
InCall(c, at) == tcall[c].at = at
Busy(s)       == {c \in Callers : tcall[c].at # "idle" /\ tcall[c].slot = s}
JoinsSet      == {"joinSet", "reapAll", "reapingAll", "release"}
Returns(c)    == tcall' = [tcall EXCEPT ![c] = NoCall]

\* mutant: neither the running tasks nor a shutdown count
AnyReady(s, b, down) ==
    IF b.ready # {} THEN spurs.runnable \cup {sets[s].wid} ELSE spurs.runnable \ {sets[s].wid}

\* The runnable mask after the bits of a slot are b and its shutdown flag is down.
Refreshed(s, b, down) ==
    IF ~down /\ b.ready \ b.running # {} THEN spurs.runnable \cup {sets[s].wid}
    ELSE spurs.runnable \ {sets[s].wid}

\* A thread or a call changes the bits of a slot and refreshes the mask.
SetBits(s, b) ==
    /\ bits' = [bits EXCEPT ![Object(s)] = b]
    /\ spurs' = [spurs EXCEPT !.runnable = Refreshed(s, b, sets[s].shutdown)]

-----------------------------------------------------------------------------
(* tasksets *)

\* The first workload id from next_wid on that is not active.
FreeWid(w) ==
    /\ w \in Wids \ spurs.active
    /\ \A i \in 0..NumWids - 1 :
           (spurs.next + i) % NumWids \notin spurs.active =>
               (w - spurs.next) % NumWids <= i

\* cellSpursCreateTaskset; the guest gives memory that no live taskset is in, and no call
\* is left inside the slot.
CreateTaskset(c, o, s) ==
    /\ InCall(c, "idle") /\ \A r \in Slots : ~Finds(o, r)
    /\ ~sets[s].live /\ \A r \in 1..s - 1 : sets[r].live
    /\ Busy(s) = {}
    /\ tasks' = [tasks EXCEPT ![s] = [t \in Tasks |-> NoTask]]
    /\ thr' = [thr EXCEPT ![s] = [t \in Tasks |-> "none"]]
    /\ \/ \E w \in Wids :
              /\ FreeWid(w)
              /\ spurs' = [spurs EXCEPT !.active = @ \cup {w}, !.next = (w + 1) % NumWids]
              /\ sets' = [sets EXCEPT ![s] = [live |-> TRUE, key |-> o, wid |-> w,
                                              registered |-> TRUE, shutdown |-> FALSE]]
              /\ bits' = [bits EXCEPT ![o] = NoBits]
       \/ /\ spurs.active = Wids     \* NOMEM; the slot stays, with no workload
          /\ sets' = [sets EXCEPT ![s] = [NoSet EXCEPT !.live = TRUE, !.key = o]]
          /\ UNCHANGED <<spurs, bits>>
    /\ UNCHANGED <<exitCode, tcall, hooks, owed, serials>>

\* cellSpursShutdownTaskset.
Shutdown(c, s) ==
    /\ InCall(c, "idle") /\ sets[s].live /\ Unlocked(s) /\ ~sets[s].shutdown
    /\ sets' = [sets EXCEPT ![s].shutdown = TRUE]
    /\ spurs' = IF sets[s].registered
                THEN [spurs EXCEPT !.runnable = Refreshed(s, bits[Object(s)], TRUE)]
                ELSE spurs
    /\ UNCHANGED <<bits, tasks, thr, exitCode, tcall, hooks, owed, serials>>

\* cellSpursJoinTaskset, alone or in cellSpursDestroyTaskset: one thread joins a taskset,
\* and nobody creates a task in it any more.
JoinSetCall(c, s) ==
    /\ InCall(c, "idle") /\ sets[s].live
    /\ \A d \in Busy(s) : tcall[d].at \notin {"create"} \cup JoinsSet
    /\ tcall' = [tcall EXCEPT ![c] = [NoCall EXCEPT !.at = "joinSet", !.slot = s]]
    /\ UNCHANGED <<spurs, sets, bits, tasks, thr, exitCode, hooks, owed, serials>>

Pending(s) == {t \in Tasks : tasks[s][t].valid /\ ~tasks[s][t].complete}

JoinSetWaits(c, s) ==
    /\ InCall(c, "joinSet") /\ tcall[c].slot = s /\ Unlocked(s)
    /\ Pending(s) = {}
    /\ tcall' = [tcall EXCEPT ![c].at = "reapAll", ![c].id = 0]
    /\ UNCHANGED <<spurs, sets, bits, tasks, thr, exitCode, hooks, owed, serials>>

\* The workload is given back and the slot is free.
ReleaseSet(c, s) ==
    /\ InCall(c, "release") /\ tcall[c].slot = s
    /\ spurs' = IF sets[s].registered
                THEN [spurs EXCEPT !.active = @ \ {sets[s].wid},
                                   !.runnable = @ \ {sets[s].wid}]
                ELSE spurs
    /\ sets' = [sets EXCEPT ![s].registered = FALSE, ![s].live = FALSE]
    /\ Returns(c)
    /\ UNCHANGED <<bits, tasks, thr, exitCode, hooks, owed, serials>>

-----------------------------------------------------------------------------
(* tasks, from the guest *)

\* create_task_common asks for the shutdown before it takes the mutex.
CreateCall(c, s) ==
    /\ InCall(c, "idle") /\ sets[s].live /\ sets[s].registered /\ ~sets[s].shutdown
    /\ \A d \in Busy(s) : tcall[d].at \notin JoinsSet
    /\ tcall' = [tcall EXCEPT ![c] = [NoCall EXCEPT !.at = "create", !.slot = s]]
    /\ UNCHANGED <<spurs, sets, bits, tasks, thr, exitCode, hooks, owed, serials>>

\* mutant: an id is given out before its task was joined to the end
VacantSoon(s) == {t \in Tasks : ~tasks[s][t].valid}

Vacant(s) == {t \in Tasks : ~tasks[s][t].valid /\ ~tasks[s][t].complete}

\* The first vacant record is published and its thread started, which may fail; the guest
\* has reset the exit code it passes.
CreateTask(c, s) ==
    /\ InCall(c, "create") /\ tcall[c].slot = s /\ Unlocked(s)
    /\ Returns(c)
    /\ \/ /\ serials < MaxSerial
          /\ \E t \in Vacant(s) :
                /\ \A u \in Vacant(s) : t <= u
                /\ tasks' = [tasks EXCEPT ![s][t] =
                       [NoTask EXCEPT !.valid = TRUE, !.serial = serials + 1]]
                /\ thr' = [thr EXCEPT ![s][t] = "start"]
                /\ exitCode' = [exitCode EXCEPT ![Object(s)][t].ready = FALSE]
                /\ SetBits(s, [bits[Object(s)] EXCEPT !.enabled = @ \cup {t},
                                                      !.ready = @ \cup {t}])
          /\ serials' = serials + 1
       \/ UNCHANGED <<spurs, bits, tasks, thr, exitCode, serials>>  \* BUSY, or no thread
    /\ UNCHANGED <<sets, hooks, owed>>

\* _cellSpursSendSignal: a latch of depth one, in the record and in guest memory.
SendSignal(c, s, t) ==
    /\ InCall(c, "idle") /\ sets[s].live /\ Unlocked(s)
    /\ t \in bits[Object(s)].enabled
    /\ tasks' = [tasks EXCEPT ![s][t].signalled = TRUE]
    /\ bits' = [bits EXCEPT ![Object(s)].signalled = @ \cup {t}]
    /\ owed' = owed \cup {<<s, t>>}
    /\ UNCHANGED <<spurs, sets, thr, exitCode, tcall, hooks, serials>>

\* An SPU program signals an enabled task with one PUTLLC on the header.
SpuSignals(s, t) ==
    /\ sets[s].live /\ t \in bits[Object(s)].enabled
    /\ bits' = [bits EXCEPT ![Object(s)].signalled = @ \cup {t}]
    /\ hooks' = hooks \cup {<<s, t>>}
    /\ owed' = owed \cup {<<s, t>>}
    /\ UNCHANGED <<spurs, sets, tasks, thr, exitCode, tcall, serials>>

\* taskset_notify_guest_write, some time after the store it reports.
HookRuns(s, t) ==
    /\ <<s, t>> \in hooks /\ Unlocked(s)
    /\ hooks' = hooks \ {<<s, t>>}
    /\ tasks' = IF /\ sets[s].live /\ t \in bits[Object(s)].signalled
                   /\ tasks[s][t].valid /\ ~tasks[s][t].complete
                THEN [tasks EXCEPT ![s][t].signalled = TRUE]
                ELSE tasks
    /\ UNCHANGED <<spurs, sets, bits, thr, exitCode, tcall, owed, serials>>

\* A guest joins a task it has not joined yet, from one thread.
MayJoin(s, t) ==
    ManyJoiners \/ \A d \in Busy(s) :
        ~(tcall[d].at \in {"join", "reap", "reaping", "consume"} /\ tcall[d].id = t)

\* join_task_common, waiting or not.
JoinCall(c, s, t) ==
    /\ InCall(c, "idle") /\ sets[s].live /\ MayJoin(s, t) /\ Unlocked(s)
    /\ tasks[s][t].valid \/ tasks[s][t].joined
    /\ tcall' = [tcall EXCEPT ![c] = [at |-> "join", slot |-> s, id |-> t,
                                      serial |-> tasks[s][t].serial]]
    /\ UNCHANGED <<spurs, sets, bits, tasks, thr, exitCode, hooks, owed, serials>>

JoinWaits(c, s, t) ==
    /\ InCall(c, "join") /\ tcall[c].slot = s /\ tcall[c].id = t
    /\ tasks[s][t].complete /\ Unlocked(s)
    /\ tcall' = [tcall EXCEPT ![c].at = "reap"]
    /\ UNCHANGED <<spurs, sets, bits, tasks, thr, exitCode, hooks, owed, serials>>

-----------------------------------------------------------------------------
(* task_join_thread, of one task or of every task of a set *)

AfterReap(c) ==
    tcall' = [tcall EXCEPT ![c] =
        IF @.at \in {"reap", "reaping"} THEN [@ EXCEPT !.at = "consume"]
        ELSE IF @.id + 1 < NumTasks THEN [@ EXCEPT !.at = "reapAll", !.id = @ + 1]
        ELSE [@ EXCEPT !.at = "release"]]

\* Somebody else has reaped it, or there never was a thread.
NothingToReap(s, t) == ~tasks[s][t].valid \/ tasks[s][t].joined

ReapBegins(c, s, t) ==
    /\ tcall[c].at \in {"reap", "reapAll"} /\ tcall[c].slot = s /\ tcall[c].id = t
    /\ ~tasks[s][t].reaping /\ Unlocked(s)
    /\ IF NothingToReap(s, t) THEN AfterReap(c) /\ UNCHANGED tasks
       ELSE /\ tasks' = [tasks EXCEPT ![s][t].reaping = TRUE]
            /\ tcall' = [tcall EXCEPT ![c].at =
                   IF @ = "reap" THEN "reaping" ELSE "reapingAll"]
    /\ UNCHANGED <<spurs, sets, bits, thr, exitCode, hooks, owed, serials>>

\* The host thread has ended.
ReapEnds(c, s, t) ==
    /\ tcall[c].at \in {"reaping", "reapingAll"} /\ tcall[c].slot = s /\ tcall[c].id = t
    /\ thr[s][t] = "ended" /\ Unlocked(s)
    /\ tasks' = [tasks EXCEPT ![s][t] =
           [@ EXCEPT !.joined = TRUE, !.valid = FALSE, !.reaping = FALSE]]
    /\ AfterReap(c)
    /\ UNCHANGED <<spurs, sets, bits, thr, exitCode, hooks, owed, serials>>

\* The join gives the record back to create_task_common.
Consume(c, s, t) ==
    /\ InCall(c, "consume") /\ tcall[c].slot = s /\ tcall[c].id = t /\ Unlocked(s)
    /\ tasks' = IF tasks[s][t].joined THEN [tasks EXCEPT ![s][t] = NoTask] ELSE tasks
    /\ Returns(c)
    /\ UNCHANGED <<spurs, sets, bits, thr, exitCode, hooks, owed, serials>>

-----------------------------------------------------------------------------
(* the host thread of a task *)

AtThread(s, t, at) == thr[s][t] = at /\ Unlocked(s)
Goes(s, t, at)     == thr' = [thr EXCEPT ![s][t] = at]
taskRest           == <<sets, exitCode, tcall, hooks, serials>>

\* task_run: the task is running before its header is copied to local store.
TaskStarts(s, t) ==
    /\ AtThread(s, t, "start") /\ Goes(s, t, "running")
    /\ SetBits(s, [bits[Object(s)] EXCEPT !.running = @ \cup {t}])
    /\ UNCHANGED <<taskRest, tasks, owed>>

\* YIELD, and the way back.
Yields(s, t) ==
    /\ AtThread(s, t, "running") /\ Goes(s, t, "yielding")
    /\ SetBits(s, [bits[Object(s)] EXCEPT !.running = @ \ {t}])
    /\ UNCHANGED <<taskRest, tasks, owed>>

Resumes(s, t) ==
    /\ AtThread(s, t, "yielding") /\ Goes(s, t, "running")
    /\ IF sets[s].shutdown THEN UNCHANGED <<bits, spurs>>
       ELSE SetBits(s, [bits[Object(s)] EXCEPT !.running = @ \cup {t}])
    /\ UNCHANGED <<taskRest, tasks, owed>>

\* WAIT_SIGNAL.
WaitsSignal(s, t) ==
    /\ AtThread(s, t, "running") /\ Goes(s, t, "waiting")
    /\ SetBits(s, [bits[Object(s)] EXCEPT !.running = @ \ {t}, !.ready = @ \ {t},
                                          !.waiting = @ \cup {t}])
    /\ UNCHANGED <<taskRest, tasks, owed>>

\* SPU programs set the bit in guest memory only; the wait asks every 2 ms.
Signalled(s, t) == tasks[s][t].signalled \/ t \in bits[Object(s)].signalled

\* mutant: the bit that SPU programs set stays
LeavesBit(b, t) == [b EXCEPT !.waiting = @ \ {t}]

Unlatched(b, t) == [b EXCEPT !.signalled = @ \ {t}, !.waiting = @ \ {t}]

Woken(s, t) ==
    /\ AtThread(s, t, "waiting") /\ Goes(s, t, "running")
    /\ Signalled(s, t) \/ sets[s].shutdown
    /\ tasks' = [tasks EXCEPT ![s][t].signalled = FALSE]
    /\ LET b == Unlatched(bits[Object(s)], t) IN
       SetBits(s, IF sets[s].shutdown THEN b
                  ELSE [b EXCEPT !.running = @ \cup {t}, !.ready = @ \cup {t}])
    /\ owed' = owed \ {<<s, t>>}
    /\ UNCHANGED taskRest

\* The task exits, or its image does not load; then the bits of its id are cleared one by
\* one, the exit code is stored and flagged, and the thread ends.
EndsFirst == {"running", "ready", "enabled"}

Clear(b, fields, t) == [f \in DOMAIN b |-> IF f \in fields THEN b[f] \ {t} ELSE b[f]]

TaskEnds(s, t) ==
    /\ thr[s][t] \in {"start", "running"} /\ Unlocked(s) /\ Goes(s, t, "ending")
    /\ bits' = [bits EXCEPT ![Object(s)] = Clear(@, EndsFirst, t)]
    /\ UNCHANGED <<taskRest, spurs, tasks, owed>>

Value(e, n) == [e EXCEPT !.value = n]

TaskCompletes(s, t) ==
    /\ thr[s][t] = "ending" /\ Goes(s, t, "publishing")
    /\ bits' = [bits EXCEPT ![Object(s)] = Clear(@, DOMAIN NoBits \ EndsFirst, t)]
    /\ tasks' = [tasks EXCEPT ![s][t].complete = TRUE]
    /\ exitCode' = [exitCode EXCEPT ![Object(s)][t] = Value(@, tasks[s][t].serial)]
    /\ owed' = owed \ {<<s, t>>}
    /\ UNCHANGED <<spurs, sets, tcall, hooks, serials>>

TaskPublishes(s, t) ==
    /\ thr[s][t] = "publishing" /\ Goes(s, t, "ended")
    /\ exitCode' = [exitCode EXCEPT ![Object(s)][t].ready = TRUE]
    /\ SetBits(s, bits[Object(s)])
    /\ UNCHANGED <<sets, tasks, tcall, hooks, owed, serials>>

-----------------------------------------------------------------------------

Next ==
    \/ \E c \in Callers, s \in Slots :
          \/ \E o \in Objects : CreateTaskset(c, o, s)
          \/ Shutdown(c, s) \/ JoinSetCall(c, s) \/ JoinSetWaits(c, s) \/ ReleaseSet(c, s)
          \/ CreateCall(c, s) \/ CreateTask(c, s)
          \/ \E t \in Tasks :
                \/ SendSignal(c, s, t) \/ JoinCall(c, s, t) \/ JoinWaits(c, s, t)
                \/ ReapBegins(c, s, t) \/ ReapEnds(c, s, t) \/ Consume(c, s, t)
    \/ \E s \in Slots, t \in Tasks :
          \/ SpuSignals(s, t) \/ HookRuns(s, t)
          \/ TaskStarts(s, t) \/ Yields(s, t) \/ Resumes(s, t)
          \/ WaitsSignal(s, t) \/ Woken(s, t)
          \/ TaskEnds(s, t) \/ TaskCompletes(s, t) \/ TaskPublishes(s, t)

Spec == Init /\ [][Next]_tasksetVars

-----------------------------------------------------------------------------

TypeOK ==
    /\ spurs \in [active : SUBSET Wids, runnable : SUBSET Wids, next : Wids]
    /\ \A s \in Slots : sets[s] \in [live : BOOLEAN, key : Objects, wid : Wids,
                                     registered : BOOLEAN, shutdown : BOOLEAN]
    /\ \A o \in Objects : bits[o] \in [DOMAIN NoBits -> SUBSET Tasks]
    /\ hooks \subseteq Slots \X Tasks /\ owed \subseteq Slots \X Tasks
    /\ serials \in 0..MaxSerial

\* A workload belongs to one taskset, and is runnable exactly when a task of it is ready
\* and not running; what op 3 of task_syscall tells a task is read off this mask.
Registered == {s \in Slots : sets[s].live /\ sets[s].registered}

WorkloadsExact ==
    /\ spurs.active = {sets[s].wid : s \in Registered}
    /\ Cardinality(spurs.active) = Cardinality(Registered)
    /\ \A s \in Registered :
           Unlocked(s) => (sets[s].wid \in spurs.runnable <=>
               /\ ~sets[s].shutdown
               /\ bits[Object(s)].ready \ bits[Object(s)].running # {})

\* A task that waits is woken by the signals it was sent, whichever side sent them, and
\* never by one that a task of the same id was sent before.
SignalsExact ==
    \A s \in Slots, t \in Tasks :
        thr[s][t] \in {"start", "running", "yielding", "waiting"} =>
            (Signalled(s, t) <=> <<s, t>> \in owed)

\* A join reaps and erases the task it was called for, when its thread has ended.
JoinsOwnTask ==
    \A c \in Callers :
        tcall[c].at \in {"join", "reap", "reaping", "consume"} =>
            LET task == tasks[tcall[c].slot][tcall[c].id] IN
            /\ task.serial = tcall[c].serial
            /\ task.joined => thr[tcall[c].slot][tcall[c].id] = "ended"

\* A taskset that was joined has no thread left.
JoinedSetIsQuiet ==
    \A s \in Slots : ~sets[s].live => \A t \in Tasks : thr[s][t] \in {"none", "ended"}

\* An exit code that is flagged is the one of the last task of that id.
ExitCodesWhole ==
    \A s \in Slots, t \in Tasks :
        sets[s].live /\ tasks[s][t].serial # 0 /\ exitCode[Object(s)][t].ready =>
            exitCode[Object(s)][t].value = tasks[s][t].serial

TasksetSound ==
    WorkloadsExact /\ SignalsExact /\ JoinsOwnTask /\ JoinedSetIsQuiet /\ ExitCodesWhole

=============================================================================
