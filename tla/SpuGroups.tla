------------------------------ MODULE SpuGroups ------------------------------
(***************************************************************************)
(* SPU thread groups (runtime/syscalls/lv2_register.c): two tables without *)
(* a lock, a host thread for each SPU thread that a start finds code for,  *)
(* and an event per thread for the joiner to wait on.                      *)
(***************************************************************************)
EXTENDS Integers, FiniteSets

CONSTANTS
    Callers,      \* guest PPU threads
    NumGroups,    \* MAX_SPU_GROUPS
    NumThreads,   \* MAX_SPU_THREADS
    Size,         \* threads of a group
    MaxRuns,      \* bound: host threads
    Statuses,     \* what SPU programs exit with
    MaxGroups,    \* bound: groups created
    Eager         \* the guest starts or destroys a group again while its host threads end

Groups  == 1..NumGroups
Slots   == 1..NumThreads
Members == 1..Size
Runs    == 1..MaxRuns

VARIABLES
    groups,       \* id (0: not in use), state, thread_indices, exit_status, cause, joiner, RUN queue
    sthreads,     \* in_use, running, exit_status, finish_event, whether its entry has code
    runs,         \* per host thread: where it is, and for which thread of which group
    nextRun, nextGroup,
    scall         \* per caller: where it is in a call, on which group, at which member, the worst status

spuVars == <<groups, sthreads, runs, nextRun, nextGroup, scall>>

\* thread_indices is cleared by the memset: every member names slot 1 at first.
NoGroup  == [id |-> 0, state |-> "init", index |-> [i \in Members |-> 1], given |-> {},
             status |-> 0, cause |-> "none", joiner |-> FALSE, runQueue |-> FALSE]
NoThread == [inUse |-> FALSE, running |-> FALSE, status |-> 0, event |-> FALSE, code |-> FALSE]
NoRun    == [pc |-> "none", slot |-> 1, group |-> 1]
NoCall   == [pc |-> "idle", group |-> 1, member |-> 1, worst |-> 0, spawned |-> 0]

Init ==
    /\ groups = [g \in Groups |-> NoGroup]
    /\ sthreads = [s \in Slots |-> NoThread]
    /\ runs = [x \in Runs |-> NoRun]
    /\ nextRun = 1 /\ nextGroup = 1
    /\ scall = [c \in Callers |-> NoCall]

Lowest(set) == CHOOSE x \in set : \A y \in set : x <= y
At(c, pc) == scall[c].pc = pc
Member(c) == groups[scall[c].group].index[scall[c].member]

Running(g, where) == {x \in Runs : runs[x].group = groups[g].id /\ runs[x].pc \in where}

\* The guest changes a group that no other of its threads uses and that it has joined
\* or terminated, if it was started; it uses a group when all its members are given
\* (one that was not names slot 1, whoever has it).
MayChange(c, g) ==
    /\ At(c, "idle") /\ groups[g].id # 0
    /\ \A d \in Callers : scall[d].pc # "idle" => scall[d].group # g
    /\ groups[g].state # "running"
    /\ Running(g, {"runs", "stopped", "cleared"}) = {} \/ Eager

-----------------------------------------------------------------------------

Create(c) ==
    /\ At(c, "idle") /\ nextGroup <= MaxGroups
    /\ LET free == {g \in Groups : groups[g].id = 0} IN
       free # {} /\ groups' = [groups EXCEPT ![Lowest(free)] = [NoGroup EXCEPT !.id = nextGroup]]
    /\ nextGroup' = nextGroup + 1
    /\ UNCHANGED <<sthreads, runs, nextRun, scall>>

Initialize(c, g, i, code) ==
    /\ MayChange(c, g) /\ i \notin groups[g].given
    /\ LET free == {s \in Slots : ~sthreads[s].inUse} IN
       /\ free # {}
       /\ sthreads' = [sthreads EXCEPT ![Lowest(free)] =
                          [NoThread EXCEPT !.inUse = TRUE, !.code = code]]
       /\ groups' = [groups EXCEPT ![g].index[i] = Lowest(free), ![g].given = @ \cup {i}]
    /\ UNCHANGED <<runs, nextRun, nextGroup, scall>>

ConnectRun(c, g) ==
    /\ At(c, "idle") /\ groups[g].id # 0 /\ ~groups[g].runQueue
    /\ groups' = [groups EXCEPT ![g].runQueue = TRUE]
    /\ UNCHANGED <<sthreads, runs, nextRun, nextGroup, scall>>

DisconnectRun(c, g) ==
    /\ At(c, "idle") /\ groups[g].id # 0 /\ groups[g].runQueue
    /\ groups' = [groups EXCEPT ![g].runQueue = FALSE]
    /\ UNCHANGED <<sthreads, runs, nextRun, nextGroup, scall>>

Destroy(c, g) ==
    /\ MayChange(c, g) /\ groups[g].given = Members
    /\ LET mine == {groups[g].index[i] : i \in Members} IN
       sthreads' = [s \in Slots |-> IF s \in mine THEN [sthreads[s] EXCEPT !.inUse = FALSE]
                                    ELSE sthreads[s]]
    /\ groups' = [groups EXCEPT ![g].id = 0]
    /\ UNCHANGED <<runs, nextRun, nextGroup, scall>>

-----------------------------------------------------------------------------
(* start *)

StartCall(c, g) ==
    /\ MayChange(c, g) /\ groups[g].given = Members
    /\ groups' = [groups EXCEPT ![g].state = "running"]
    /\ scall' = [scall EXCEPT ![c] = [NoCall EXCEPT !.pc = "start", !.group = g]]
    /\ UNCHANGED <<sthreads, runs, nextRun, nextGroup>>

NextMember(c) ==
    IF scall[c].member < Size
    THEN [scall[c] EXCEPT !.member = @ + 1]
    ELSE [scall[c] EXCEPT !.pc = IF @ = "start" THEN "started" ELSE "joined"]

\* A thread with code, lifted or a fallback, gets a host thread.
StartSpawns(c) ==
    /\ At(c, "start") /\ sthreads[Member(c)].inUse /\ sthreads[Member(c)].code
    /\ nextRun <= MaxRuns
    /\ sthreads' = [sthreads EXCEPT ![Member(c)].running = TRUE, ![Member(c)].event = FALSE]
    /\ runs' = [runs EXCEPT ![nextRun] =
                   [pc |-> "runs", slot |-> Member(c), group |-> groups[scall[c].group].id]]
    /\ nextRun' = nextRun + 1
    /\ scall' = [scall EXCEPT ![c] = [NextMember(c) EXCEPT !.spawned = @ + 1]]
    /\ UNCHANGED <<groups, nextGroup>>

StartSkips(c) ==
    /\ At(c, "start")
    /\ ~sthreads[Member(c)].inUse \/ ~sthreads[Member(c)].code
    /\ sthreads' = IF sthreads[Member(c)].inUse
                   THEN [sthreads EXCEPT ![Member(c)].status = 0, ![Member(c)].running = FALSE]
                   ELSE sthreads
    /\ scall' = [scall EXCEPT ![c] = NextMember(c)]
    /\ UNCHANGED <<groups, runs, nextRun, nextGroup>>

StartReturns(c) ==
    /\ At(c, "started")
    /\ groups' = IF scall[c].spawned = 0
                 THEN [groups EXCEPT ![scall[c].group].state = "stopped",
                                     ![scall[c].group].cause = "all",
                                     ![scall[c].group].status = 0]
                 ELSE groups
    /\ scall' = [scall EXCEPT ![c] = NoCall]
    /\ UNCHANGED <<sthreads, runs, nextRun, nextGroup>>

-----------------------------------------------------------------------------
(* the host thread of an SPU thread *)

\* stop 0x102, or 0x101 for the group, with the status in the outbound mailbox.
RunStops(x, status, whole) ==
    /\ runs[x].pc = "runs"
    /\ runs' = [runs EXCEPT ![x].pc = "stopped"]
    /\ sthreads' = [sthreads EXCEPT ![runs[x].slot].status = IF whole THEN 0 ELSE status]
    /\ groups' = [g \in Groups |->
                     IF whole /\ groups[g].id = runs[x].group
                     THEN [groups[g] EXCEPT !.status = status, !.cause = "exit"]
                     ELSE groups[g]]
    /\ UNCHANGED <<nextRun, nextGroup, scall>>

RunClears(x) ==
    /\ runs[x].pc = "stopped"
    /\ runs' = [runs EXCEPT ![x].pc = "cleared"]
    /\ sthreads' = [sthreads EXCEPT ![runs[x].slot].running = FALSE]
    /\ UNCHANGED <<groups, nextRun, nextGroup, scall>>

RunSignals(x) ==
    /\ runs[x].pc = "cleared"
    /\ runs' = [runs EXCEPT ![x].pc = "ended"]
    /\ sthreads' = [sthreads EXCEPT ![runs[x].slot].event = TRUE]
    /\ UNCHANGED <<groups, nextRun, nextGroup, scall>>

-----------------------------------------------------------------------------
(* join; joiner is tested and set in two accesses *)

JoinCall(c, g) ==
    /\ At(c, "idle") /\ groups[g].given = Members /\ ~groups[g].joiner /\ groups[g].id # 0
    /\ \A d \in Callers : scall[d].pc \in {"start", "started"} => scall[d].group # g
    /\ scall' = [scall EXCEPT ![c] = [NoCall EXCEPT !.pc = "take", !.group = g]]
    /\ UNCHANGED <<groups, sthreads, runs, nextRun, nextGroup>>

JoinTakes(c) ==
    LET g == scall[c].group IN
    /\ At(c, "take")
    /\ groups' = [groups EXCEPT ![g].joiner = TRUE,
                                ![g].state = IF @ = "init" THEN "stopped" ELSE @]
    /\ scall' = [scall EXCEPT ![c].pc = IF groups[g].state = "running" THEN "join" ELSE "report"]
    /\ UNCHANGED <<sthreads, runs, nextRun, nextGroup>>

Smaller(a, b) == IF a < b THEN a ELSE b

\* mutant: running threads are not waited for
Unwaited(s) == TRUE

\* A thread that was running when the joiner looked is waited for by its event.
OverFor(s) == ~sthreads[s].running \/ sthreads[s].event

JoinMember(c) ==
    LET s == Member(c) IN
    /\ At(c, "join")
    /\ OverFor(s)
    /\ scall' = [scall EXCEPT ![c] = [NextMember(c) EXCEPT
                    !.worst = IF sthreads[s].inUse THEN Smaller(@, sthreads[s].status) ELSE @]]
    /\ UNCHANGED <<groups, sthreads, runs, nextRun, nextGroup>>

\* The worst status of the threads becomes the status of the group.
JoinEnds(c) ==
    LET g == scall[c].group IN
    /\ At(c, "joined")
    /\ groups' = [groups EXCEPT ![g].status = scall[c].worst,
                                ![g].cause = IF @ \in {"exit", "terminated"} THEN @ ELSE "all",
                                ![g].state = "stopped"]
    /\ scall' = [scall EXCEPT ![c].pc = "report"]
    /\ UNCHANGED <<sthreads, runs, nextRun, nextGroup>>

\* The RUN queue gets an event, and the caller the cause and the status.
JoinReports(c) ==
    LET g == scall[c].group IN
    /\ At(c, "report")
    /\ groups' = [groups EXCEPT ![g].joiner = FALSE]
    /\ scall' = [scall EXCEPT ![c] = NoCall]
    /\ UNCHANGED <<sthreads, runs, nextRun, nextGroup>>

\* The SPUs go on; only the record is stopped.
Terminate(c, g, status) ==
    /\ At(c, "idle") /\ groups[g].id # 0
    /\ groups' = [groups EXCEPT ![g].state = "stopped", ![g].cause = "terminated",
                                ![g].status = status]
    /\ UNCHANGED <<sthreads, runs, nextRun, nextGroup, scall>>

-----------------------------------------------------------------------------

Next ==
    \/ \E c \in Callers :
         \/ Create(c) \/ StartSpawns(c) \/ StartSkips(c) \/ StartReturns(c)
         \/ JoinTakes(c) \/ JoinMember(c) \/ JoinEnds(c) \/ JoinReports(c)
         \/ \E g \in Groups :
              \/ Destroy(c, g) \/ ConnectRun(c, g) \/ DisconnectRun(c, g)
              \/ StartCall(c, g) \/ JoinCall(c, g)
              \/ \E status \in Statuses : Terminate(c, g, status)
              \/ \E i \in Members, code \in BOOLEAN : Initialize(c, g, i, code)
    \/ \E x \in Runs :
         \/ RunClears(x) \/ RunSignals(x)
         \/ \E status \in Statuses, whole \in BOOLEAN : RunStops(x, status, whole)

Spec == Init /\ [][Next]_spuVars

-----------------------------------------------------------------------------

TypeOK ==
    /\ \A g \in Groups :
          /\ groups[g].id \in 0..MaxGroups /\ groups[g].state \in {"init", "running", "stopped"}
          /\ groups[g].index \in [Members -> Slots] /\ groups[g].given \subseteq Members
          /\ groups[g].cause \in {"none", "all", "exit", "terminated"}
    /\ \A x \in Runs : runs[x].pc \in {"none", "runs", "stopped", "cleared", "ended"}
    /\ nextRun \in 1 .. MaxRuns + 1 /\ nextGroup \in 1 .. MaxGroups + 1
    /\ \A c \in Callers : scall[c].pc \in {"idle", "start", "started", "take", "join", "joined", "report"}

AllEnded(c) == At(c, "report") /\ groups[scall[c].group].cause = "all"

\* A join that reports ALL_THREADS_EXIT, "all threads completed their entry fn": no SPU
\* of the group runs any more.
JoinIsFinal ==
    \A c \in Callers : AllEnded(c) => Running(scall[c].group, {"runs", "stopped"}) = {}

\* The status of such a join is the worst of the threads, or 0 if none is below.
WorstReported ==
    \A c \in Callers : AllEnded(c) =>
        LET g == groups[scall[c].group] IN
        g.status = Lowest({0} \cup {sthreads[g.index[i]].status : i \in Members})

=============================================================================
